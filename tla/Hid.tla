--------------------------------- MODULE Hid ---------------------------------
\* The HID driver (user/usb_hid) with the parser of report descriptors and the
\* interpretation of reports (lib/usb/src/hid/report.rs). A device is given by the
\* descriptors of its configuration, the bytes of its report descriptor and the
\* reports it may send. A usage is its page and its number.
EXTENDS Integers, Sequences, SequencesExt, FiniteSets

CONSTANTS
    HidDevices    \* the devices: configuration, descriptor bytes and reports

VARIABLES
    device,  \* the device that is driven: an element of HidDevices, or <<>>
    info,    \* what the configuration says (ConfigInfo)
    fields,  \* the parsed report descriptor
    stage,   \* "offered", "refused", "handed off", "driven" or "panicked"
    report,  \* the last report
    values,  \* what it was read as
    pressed, \* pressed_keys
    events   \* the input events sent for the last report

dvars == <<device, info, fields, stage, report, values, pressed, events>>

-----------------------------------------------------------------------------
\* Numbers in bytes, the least significant first.

Pow2(n) == 2 ^ n

\* The unsigned number in some bytes.
Unsigned(bytes) ==
    LET sum[i \in 0 .. Len(bytes)] ==
            IF i = 0 THEN 0 ELSE sum[i - 1] + bytes[i] * Pow2(8 * (i - 1))
    IN sum[Len(bytes)]

\* The number in some bytes with the sign of the highest bit of the last one.
SignExtended(bytes) ==
    IF bytes[Len(bytes)] >= 128 THEN Unsigned(bytes) - Pow2(8 * Len(bytes)) ELSE Unsigned(bytes)

Bit(bytes, n) == (bytes[(n \div 8) + 1] \div Pow2(n % 8)) % 2

\* extract_field: the bits from one to another (not included), in whole bytes.
extract_field(bytes, first, size) ==
    LET byte(k) == LET bits[j \in 0 .. 8] ==
                           IF j = 0 THEN 0
                           ELSE bits[j - 1] + (IF 8 * k + j - 1 < size
                                               THEN Bit(bytes, first + 8 * k + j - 1) * Pow2(j - 1)
                                               ELSE 0)
                   IN bits[8]
    IN [k \in 1 .. (size + 7) \div 8 |-> byte(k - 1)]

extract_field_as_u32(bytes, first, size) == Unsigned(extract_field(bytes, first, size))
extract_field_as_i32(bytes, first, size) == SignExtended(extract_field(bytes, first, size))

-----------------------------------------------------------------------------
\* Items. Short items have 0, 1, 2 or 4 bytes of data; a long item gives its size
\* and tag in two further bytes.

\* The item at an offset, and where the next one starts.
ItemAt(bytes, at) ==
    LET prefix == bytes[at]
        code == prefix % 4
        typ == <<"Main", "Global", "Local", "Reserved">>[((prefix \div 4) % 4) + 1]
        long == code = 2 /\ typ = "Reserved" /\ prefix \div 16 = 15
        size == IF long THEN bytes[at + 1] ELSE IF code = 3 THEN 4 ELSE code
        start == IF long THEN at + 3 ELSE at + 1
    IN [typ |-> typ, tag |-> IF long THEN bytes[at + 2] ELSE prefix \div 16,
        data |-> SubSeq(bytes, start, start + size - 1), next |-> start + size]

\* The items of a descriptor in order.
ItemTokenizer(bytes) ==
    LET items[at \in 1 .. Len(bytes) + 5] ==
            IF at > Len(bytes) THEN <<>>
            ELSE <<ItemAt(bytes, at)>> \o items[ItemAt(bytes, at).next]
    IN items[1]

data_as_u32(item) == Unsigned(item.data)
data_as_i32(item) == SignExtended(item.data)

-----------------------------------------------------------------------------
\* Report descriptors.

Padding(bits) == [kind |-> "Padding", size |-> bits]
ArrayField(g, l) ==
    [kind |-> "Array", size |-> g.size, count |-> g.count, page |-> g.page, min |-> l.min]
Variable(g, usage) ==
    [kind |-> "Variable", size |-> g.size, signed |-> g.min < 0, page |-> g.page, usage |-> usage]

Unset == -1
NewLocal == [usage |-> <<>>, min |-> Unset, max |-> Unset]
NewParser == [fields |-> <<>>, local |-> NewLocal,
              global |-> [page |-> Unset, min |-> 0, max |-> 0, size |-> Unset, count |-> Unset]]

generate_fields(p, is_array) ==
    LET g == p.global
        l == p.local
    IN CASE l = NewLocal -> <<Padding(g.size * g.count)>>
         [] l # NewLocal /\ is_array -> <<ArrayField(g, l)>>
         [] OTHER -> [i \in 1 .. g.count |->
                        Variable(g, IF l.usage = <<>> THEN l.min + i - 1 ELSE l.usage[i])]

\* What the parser panics at: reserved types and tags, the items it has a todo!()
\* for (units, report ids, the stack, designators and strings), and usages that
\* bring their page along.
Unhandled(item) ==
    CASE item.typ = "Main" -> item.tag \notin 8 .. 12
      [] item.typ = "Global" -> item.tag \notin {0, 1, 2, 3, 4, 7, 9}
      [] item.typ = "Local" -> item.tag \notin 0 .. 2 \/ (item.tag # 0 /\ Len(item.data) = 4)
      [] item.typ = "Reserved" -> TRUE

\* Input makes fields; all but the end of a collection start new local items.
parse_main_item(p, item) ==
    CASE item.tag = 8 ->
           [p EXCEPT !.fields = @ \o generate_fields(p, (data_as_u32(item) \div 2) % 2 = 0),
                     !.local = NewLocal]
      [] item.tag \in {9, 10, 11} -> [p EXCEPT !.local = NewLocal]
      [] item.tag = 12 -> p

parse_global_item(p, item) ==
    CASE item.tag = 0 -> [p EXCEPT !.global.page = data_as_u32(item)]
      [] item.tag = 1 -> [p EXCEPT !.global.min = data_as_i32(item)]
      [] item.tag = 2 -> [p EXCEPT !.global.max = data_as_i32(item)]
      [] item.tag = 7 -> [p EXCEPT !.global.size = data_as_u32(item)]
      [] item.tag = 9 -> [p EXCEPT !.global.count = data_as_u32(item)]
      [] item.tag \in {3, 4} -> p

\* Mutant: only the last usage of a list counts.
parse_local_item_last(p, item) ==
    CASE item.tag = 0 -> [p EXCEPT !.local.usage = <<data_as_u32(item), data_as_u32(item)>>]
      [] item.tag = 1 -> [p EXCEPT !.local.min = data_as_u32(item)]
      [] item.tag = 2 -> [p EXCEPT !.local.max = data_as_u32(item)]

parse_local_item(p, item) ==
    CASE item.tag = 0 -> [p EXCEPT !.local.usage = Append(@, data_as_u32(item))]
      [] item.tag = 1 -> [p EXCEPT !.local.min = data_as_u32(item)]
      [] item.tag = 2 -> [p EXCEPT !.local.max = data_as_u32(item)]

ReportDescriptorParser(bytes) ==
    LET items == ItemTokenizer(bytes)
        after[i \in 0 .. Len(items)] ==
            IF i = 0 THEN NewParser
            ELSE LET before == after[i - 1]
                 IN CASE items[i].typ = "Main" -> parse_main_item(before, items[i])
                      [] items[i].typ = "Global" -> parse_global_item(before, items[i])
                      [] items[i].typ = "Local" -> parse_local_item(before, items[i])
    IN after[Len(items)].fields

-----------------------------------------------------------------------------
\* Reports.

\* translate_usage: axes and the wheel, keys, and buttons.
Known(page, id) ==
    \/ page = 1 /\ id \in {48, 49, 50, 56}
    \/ page = 7 /\ (id \in 4 .. 133 \/ id \in 224 .. 231)
    \/ page = 9 /\ id \in 0 .. 5

Selector(u) == [kind |-> "Selector", usage |-> u, value |-> 1]
DynamicValue(u, v) == [kind |-> "DynamicValue", usage |-> u, value |-> v]
Untranslated(u) == [kind |-> "Untranslated", usage |-> u, value |-> 0]

\* The elements of an array: each selects a usage.
array_values(f, bytes, at) ==
    [k \in 1 .. f.count |->
        LET u == <<f.page, f.min + extract_field_as_u32(bytes, at + (k - 1) * f.size, f.size)>>
        IN IF Known(u[1], u[2]) THEN Selector(u) ELSE Untranslated(u)]

\* Interpreting one field: the values it gives and the bits it is done with. A
\* variable of an unknown usage takes no bits.
interpret_field(f, bytes, at) ==
    CASE f.kind = "Padding" -> [values |-> <<>>, bits |-> f.size]
      [] f.kind = "Array" -> [values |-> array_values(f, bytes, at), bits |-> f.size * f.count]
      [] f.kind = "Variable" /\ ~Known(f.page, f.usage) ->
           [values |-> <<Untranslated(<<f.page, f.usage>>)>>, bits |-> 0]
      [] OTHER ->
           [values |-> <<DynamicValue(<<f.page, f.usage>>,
                            IF f.signed THEN extract_field_as_i32(bytes, at, f.size)
                            ELSE extract_field_as_u32(bytes, at, f.size))>>,
            bits |-> f.size]

interpret(fs, bytes) ==
    LET after[i \in 0 .. Len(fs)] ==
            IF i = 0 THEN [values |-> <<>>, bits |-> 0]
            ELSE LET before == after[i - 1]
                     r == interpret_field(fs[i], bytes, before.bits)
                 IN [values |-> before.values \o r.values, bits |-> before.bits + r.bits]
    IN after[Len(fs)].values

-----------------------------------------------------------------------------
\* The driver.

HidInit ==
    /\ device = <<>> /\ info = <<>> /\ fields = <<>> /\ stage = "offered"
    /\ report = <<>> /\ values = <<>> /\ pressed = {} /\ events = <<>>

\* walk_configuration visits the descriptors in order; the last one of a kind
\* decides what ConfigInfo holds.
OfKind(config, kind) == { i \in DOMAIN config : config[i].kind = kind }
LastVisited(config, kind) ==
    LET at == OfKind(config, kind)
    IN config[CHOOSE i \in at : \A j \in at : j <= i]

\* QuerySupport: some interface is of class 3.
Supported(config) == \E i \in OfKind(config, "interface") : config[i].class = 3

Offer(d) ==
    /\ stage = "offered"
    /\ device' = d
    /\ stage' = IF Supported(d.config) THEN "handed off" ELSE "refused"
    /\ UNCHANGED <<info, fields, report, values, pressed, events>>

\* HandoffDevice: the configuration is read, an input device is registered, and
\* its future asks for the report descriptor, chooses the configuration and opens
\* the endpoint, unless there is something in the descriptor it cannot handle.
Handoff ==
    /\ stage = "handed off"
    /\ info' = [protocol |-> LastVisited(device.config, "interface").protocol,
                endpoint |-> LastVisited(device.config, "endpoint").number]
    /\ \/ /\ \A item \in Range(ItemTokenizer(device.descriptor)) : ~Unhandled(item)
          /\ fields' = ReportDescriptorParser(device.descriptor)
          /\ stage' = "driven"
       \/ /\ \E item \in Range(ItemTokenizer(device.descriptor)) : Unhandled(item)
          /\ stage' = "panicked"
          /\ UNCHANGED fields
    /\ UNCHANGED <<device, report, values, pressed, events>>

\* An input event for a key or an axis: a key has the name of its usage.
Event(kind, u) == [event |-> kind, usage |-> u]

\* map_key_usage has a key for every usage of the keyboard page that is known and
\* panics for the others: a button or an axis that an array selects.
map_key_usage(u) == u[1] = 7

\* Axes are reported when they move and buttons on every report; modifiers only
\* colour the key events of the same report.
FieldEvents(v) ==
    CASE v.kind = "DynamicValue" /\ v.usage[1] = 1 /\ v.value # 0 -> <<Event("Moved", v.usage)>>
      [] v.kind = "DynamicValue" /\ v.usage[1] = 9 /\ v.usage[2] # 0 ->
           <<Event(IF v.value # 0 THEN "KeyPressed" ELSE "KeyReleased", v.usage)>>
      [] OTHER -> <<>>

\* The keys a report selects.
CurrentKeys(vs) == { vs[i].usage : i \in { j \in DOMAIN vs : vs[j].kind = "Selector" } }

\* The order of the usages: keys, then buttons, then axes.
Rank(u) == (IF u[1] = 1 THEN 2048 ELSE IF u[1] = 9 THEN 1024 ELSE 0) + u[2]
Listed(S) == SetToSortSeq(S, LAMBDA u, v : Rank(u) < Rank(v))

\* Mutant: a key is forgotten while it is held.
still_pressed_none(before, now) == {}

still_pressed(before, now) == before \cap now

\* The usages before the first that is no key.
Mapped(us) == SubSeq(us, 1, Cardinality({ i \in DOMAIN us : \A j \in 1 .. i : map_key_usage(us[j]) }))

\* The driver reads a report: the keys that went up are released, the ones that
\* came down are pressed, up to one that there is no key for.
Report(bytes) ==
    /\ stage = "driven"
    /\ report' = bytes
    /\ \E read \in {interpret(fields, bytes)} : \E now \in {CurrentKeys(read)} :
         LET held == still_pressed(pressed, now)
             up == Listed(pressed \ now)
             down == Listed(now \ held)
             mapped == Mapped(down)
         IN /\ values' = read
            /\ stage' = IF mapped = down THEN "driven" ELSE "panicked"
            /\ pressed' = held \cup { mapped[i] : i \in DOMAIN mapped }
            /\ events' = FlattenSeq([i \in DOMAIN read |-> FieldEvents(read[i])])
                         \o [i \in DOMAIN up |-> Event("KeyReleased", up[i])]
                         \o [i \in DOMAIN mapped |-> Event("KeyPressed", mapped[i])]
    /\ UNCHANGED <<device, info, fields>>

HidNext ==
    \/ \E d \in HidDevices : Offer(d)
    \/ Handoff
    \/ stage = "driven" /\ \E r \in device.reports : Report(r)

-----------------------------------------------------------------------------
\* Properties.

\* The bits before a field of the device's layout.
BitsBefore(layout, i) ==
    LET sum[k \in 1 .. i] == IF k = 1 THEN 0 ELSE sum[k - 1] + layout[k - 1].bits
    IN sum[i]

\* What a field of the layout says in a report, by the arithmetic of the number
\* the whole report is.
Meant(layout, i, bytes) ==
    LET n == (Unsigned(bytes) \div Pow2(BitsBefore(layout, i))) % Pow2(layout[i].bits)
    IN IF layout[i].signed /\ n >= Pow2(layout[i].bits - 1) THEN n - Pow2(layout[i].bits) ELSE n

\* Whether the driver is expected to read a field right: its usage and those of
\* the fields before it are known, and a signed field is of whole bytes.
Readable(layout, i) ==
    /\ \A k \in 1 .. i : layout[k].kind = "variable" => Known(layout[k].page, layout[k].usage)
    /\ layout[i].signed => layout[i].bits % 8 = 0

\* Parsing the report descriptor and interpreting a report gives, for every field
\* of the device's layout up to the first variable with an unknown usage, the
\* number that stands at its place, with its sign if it has whole bytes.
ReportsReadRight ==
    stage = "driven" /\ report # <<>> =>
        LET layout == device.layout
            shown == { i \in DOMAIN layout : layout[i].kind # "padding" }
        IN \A i \in shown : Readable(layout, i) =>
             LET v == values[Cardinality({ k \in shown : k <= i })]
             IN IF layout[i].kind = "variable"
                THEN v = DynamicValue(<<layout[i].page, layout[i].usage>>, Meant(layout, i, report))
                ELSE v.usage = <<layout[i].page, layout[i].usage + Meant(layout, i, report)>>

\* A key is reported pressed when a report has it and the one before had not, and
\* released the other way round, once each: whoever follows the events of all
\* reports knows the keys that are down, as long as the driver runs.
KeyEventsAreChanges ==
    [][stage' # "panicked" =>
       LET before == CurrentKeys(values)
           now == CurrentKeys(values')
           times(kind, u) == Cardinality({ i \in DOMAIN events' : events'[i] = Event(kind, u) })
       IN \A u \in before \cup now :
            /\ times("KeyPressed", u) = (IF u \in now \ before THEN 1 ELSE 0)
            /\ times("KeyReleased", u) = (IF u \in before \ now THEN 1 ELSE 0)
      ]_<<report, pressed, events>>

=============================================================================
