------------------------------ MODULE HidReport ------------------------------
(***************************************************************************)
(* A HID report descriptor parsed item by item (HidParsedReport::parse),   *)
(* and the reports of the device decoded with the result: the bit stream   *)
(* reader and the read loop of the USB HID driver for keyboards, mice and  *)
(* consumer controls.                                                      *)
(*                                                                         *)
(* A usage is the pair of its page and number; units and the physical      *)
(* range, which nothing reads, are left out.                               *)
(***************************************************************************)
EXTENDS Integers, Sequences, FiniteSets, SequencesExt

CONSTANTS HDescriptors,   \* descriptors to parse, as bytes
          HReports        \* HReports[d]: reports of the device with descriptor d

VARIABLES hDesc, hPos,    \* the descriptor, and how far the reader is
          hPc,            \* parse, error, ready, stopped
          hGlobal, hStack, hLocal,
          hColl,          \* collection_ctx
          hApp,           \* current_app
          hStored,        \* primary (id 0) and tagged
          hIds,           \* report_ids
          hOut            \* what the last report was decoded to

hVars == <<hDesc, hPos, hPc, hGlobal, hStack, hLocal, hColl, hApp, hStored, hIds, hOut>>

-----------------------------------------------------------------------------
(* Items *)

None == [page |-> 0, no |-> 0]
Usage(page, no) == [page |-> page, no |-> no]

\* A 32 bit usage of a local item, with the page of the global state.
Qualify(page, v) == IF v < 65536 THEN Usage(page, v) ELSE Usage(v \div 65536, v % 65536)

MainTags == {128, 144, 176}                      \* Input, Output, Feature
GlobalTags == {4, 20, 36, 52, 68, 84, 100, 116, 148}
KnownTags == MainTags \cup {160, 192} \cup GlobalTags \cup {132, 164, 180}
             \cup {8, 24, 40, 56, 72, 88, 120, 136, 152, 168}

Masked(b) == b - (b % 4)

\* The little endian number of n bytes from p on.
Number(bytes, p, n) ==
    FoldLeftDomain(LAMBDA acc, k : acc + bytes[p + k - 1] * 256^(k - 1), 0, [k \in 1..n |-> k])

\* as_isize: the sign of the width the value came in.
Signed(v, n) == IF n > 0 /\ n < 4 /\ v >= 2^(8 * n - 1) THEN v - 2^(8 * n) ELSE v

\* The item at p: its tag, value, width, and where the next one is.  A long
\* item has its tag in the third byte and no value.
ItemAt(bytes, p) ==
    LET lead == bytes[p]
        n == <<0, 1, 2, 4>>[(lead % 4) + 1]
        short == [ok |-> p + n <= Len(bytes) /\ Masked(lead) \in KnownTags,
                  tag |-> Masked(lead), n |-> n, next |-> p + n + 1]
    IN IF lead # 254
       THEN [short EXCEPT !.n = IF short.ok THEN n ELSE 0]
       ELSE IF p + 2 > Len(bytes) \/ p + 2 + bytes[p + 1] > Len(bytes)
               \/ Masked(bytes[p + 2]) \notin KnownTags
            THEN [short EXCEPT !.ok = FALSE, !.n = 0]
            ELSE [ok |-> TRUE, tag |-> Masked(bytes[p + 2]), n |-> 0,
                  next |-> p + 3 + bytes[p + 1]]

\* Mutant: every usage gets the whole count.
MainEntriesWhole(tag, flags, global, local) ==
    LET entry(lo, hi) ==
          [kind |-> tag, const |-> flags % 2 = 1, variable |-> (flags \div 2) % 2 = 1,
           relative |-> (flags \div 4) % 2 = 1, size |-> global.size % 256,
           count |-> global.count % 256, min |-> lo, max |-> hi, lmax |-> global.lmax]
    IN IF local.usages = <<>> THEN <<entry(Usage(global.page, local.min), Usage(global.page, local.max))>>
       ELSE [k \in 1..Len(local.usages) |-> entry(Qualify(global.page, local.usages[k]), None)]

\* ParsedReportMainItem::parse: one entry for each usage, which share the
\* count (the whole of it when there are more usages than values), or one
\* entry for the range.
MainEntries(tag, flags, global, local) ==
    LET const == flags % 2 = 1
        relative == (flags \div 4) % 2 = 1
        share == IF local.usages = <<>> THEN 0 ELSE global.count \div Len(local.usages)
        entry(lo, hi) ==
          [kind |-> tag, const |-> const, variable |-> (flags \div 2) % 2 = 1,
           relative |-> relative, size |-> global.size % 256,
           count |-> (IF share > 0 THEN share ELSE global.count) % 256,
           min |-> IF const THEN None ELSE Qualify(global.page, lo),
           max |-> IF const THEN None
                   ELSE IF lo < 65536 THEN Usage(global.page, hi % 65536)
                   ELSE Usage(hi \div 65536, hi % 65536),
           lmax |-> IF relative THEN Signed(global.lmax, global.lwidth) ELSE global.lmax]
    IN IF local.usages = <<>> THEN <<entry(local.min, local.max)>>
       ELSE [k \in 1..Len(local.usages) |-> entry(local.usages[k], 0)]

-----------------------------------------------------------------------------
(* HidParsedReport::parse *)

EmptyLocal == [usages |-> <<>>, min |-> 0, max |-> 0]
EmptyApp == [id |-> 0, usage |-> None, entries |-> <<>>, fields |-> <<>>]
EmptyGlobal == [page |-> 0, lmax |-> 0, lwidth |-> 0, size |-> 0, count |-> 0]
Nothing == [usage |-> None]

HInit ==
    /\ hDesc \in DOMAIN HReports /\ hPos = 1 /\ hPc = "parse" /\ hGlobal = EmptyGlobal
    /\ hStack = <<>> /\ hLocal = EmptyLocal /\ hColl = <<>> /\ hApp = EmptyApp
    /\ hStored = {} /\ hIds = {} /\ hOut = Nothing

Bytes == HDescriptors[hDesc]
Item == ItemAt(Bytes, hPos)
Param == Number(Bytes, Item.next - Item.n, Item.n)

\* primary or tagged gets the application, in place of an earlier one.
Stored(app) == {a \in hStored : a.id # app.id} \cup {app}

HRead(tags) ==
    /\ hPc = "parse" /\ hPos <= Len(Bytes) /\ Item.ok /\ Item.tag \in tags
    /\ hPos' = Item.next
    /\ UNCHANGED <<hDesc, hOut>>

\* What an input item says, kept beside the entries to compare them with.
Declared == [size |-> hGlobal.size, count |-> hGlobal.count, flags |-> Param, page |-> hGlobal.page,
             usages |-> hLocal.usages, min |-> hLocal.min]

ParseMain ==
    /\ HRead(MainTags)
    /\ hApp' = [hApp EXCEPT !.entries = @ \o MainEntries(Item.tag, Param, hGlobal, hLocal),
                            !.fields = IF Item.tag = 128 THEN Append(@, Declared) ELSE @]
    /\ hLocal' = EmptyLocal
    /\ UNCHANGED <<hPc, hGlobal, hStack, hColl, hStored, hIds>>

\* An application starts: what was current is stored, whatever it is, and its
\* id kept.  Other collections become entries.  An unknown type is a todo!().
ParseCollection ==
    /\ HRead({160})
    /\ IF Param > 6 THEN hPc' = "stopped" /\ UNCHANGED <<hColl, hApp, hStored, hLocal>>
       ELSE /\ hColl' = Append(hColl, Param) /\ hLocal' = EmptyLocal
            /\ UNCHANGED hPc
            /\ IF Param = 1
               THEN /\ hStored' = Stored(hApp)
                    /\ hApp' = [hApp EXCEPT !.entries = <<>>, !.fields = <<>>,
                                  !.usage = Qualify(hGlobal.page,
                                     IF hLocal.usages = <<>> THEN 0 ELSE hLocal.usages[1])]
               ELSE UNCHANGED <<hStored, hApp>>
    /\ UNCHANGED <<hGlobal, hStack, hIds>>

ParseEndCollection ==
    /\ HRead({192})
    /\ IF hColl = <<>> THEN hPc' = "error" /\ UNCHANGED <<hColl, hApp, hStored, hLocal>>
       ELSE /\ hColl' = Front(hColl) /\ hLocal' = EmptyLocal
            /\ UNCHANGED hPc
            /\ IF Last(hColl) = 1 THEN hStored' = Stored(hApp) /\ hApp' = EmptyApp
               ELSE UNCHANGED <<hStored, hApp>>
    /\ UNCHANGED <<hGlobal, hStack, hIds>>

ParseGlobal ==
    /\ HRead(GlobalTags)
    /\ hGlobal' = CASE Item.tag = 4 -> [hGlobal EXCEPT !.page = Param % 65536]
                    [] Item.tag = 36 -> [hGlobal EXCEPT !.lmax = Param, !.lwidth = Item.n]
                    [] Item.tag = 116 -> [hGlobal EXCEPT !.size = Param]
                    [] Item.tag = 148 -> [hGlobal EXCEPT !.count = Param]
                    [] OTHER -> hGlobal
    /\ UNCHANGED <<hPc, hStack, hLocal, hColl, hApp, hStored, hIds>>

ParseReportId ==
    /\ HRead({132})
    /\ IF Param % 256 = 0 THEN UNCHANGED <<hIds, hApp>>
       ELSE hIds' = hIds \cup {Param % 256} /\ hApp' = [hApp EXCEPT !.id = Param % 256]
    /\ UNCHANGED <<hPc, hGlobal, hStack, hLocal, hColl, hStored>>

ParsePushPop ==
    /\ HRead({164, 180})
    /\ \/ Item.tag = 164 /\ hStack' = Append(hStack, hGlobal) /\ UNCHANGED <<hGlobal, hPc>>
       \/ /\ Item.tag = 180 /\ hStack # <<>>
          /\ hStack' = Front(hStack) /\ hGlobal' = Last(hStack) /\ UNCHANGED hPc
       \/ Item.tag = 180 /\ hStack = <<>> /\ hPc' = "error" /\ UNCHANGED <<hGlobal, hStack>>
    /\ UNCHANGED <<hLocal, hColl, hApp, hStored, hIds>>

\* Usages collect until the next main item; the other local items are todo!().
ParseLocal ==
    /\ HRead({8, 24, 40, 56, 72, 88, 120, 136, 152, 168})
    /\ hLocal' = CASE Item.tag = 8 -> [hLocal EXCEPT !.usages = Append(@, Param)]
                   [] Item.tag = 24 -> [hLocal EXCEPT !.min = Param]
                   [] Item.tag = 40 -> [hLocal EXCEPT !.max = Param]
                   [] OTHER -> hLocal
    /\ hPc' = IF Item.tag \in {8, 24, 40} THEN hPc ELSE "stopped"
    /\ UNCHANGED <<hGlobal, hStack, hColl, hApp, hStored, hIds>>

\* The end of the descriptor, or an item that cannot be read.
ParseEnds ==
    /\ hPc = "parse" /\ (hPos <= Len(Bytes) => ~Item.ok)
    /\ hPc' = IF hPos > Len(Bytes) THEN "ready" ELSE "error"
    /\ UNCHANGED <<hDesc, hPos, hGlobal, hStack, hLocal, hColl, hApp, hStored, hIds, hOut>>

-----------------------------------------------------------------------------
(* Reports *)

BitCount(app, kind) ==
    FoldLeft(LAMBDA acc, e : acc + (IF e.kind = kind THEN e.size * e.count ELSE 0), 0, app.entries)

Bad == -1

\* _read_bits: the bytes that hold the bits, shifted and masked; no more than
\* 32 bits from the first byte on.
ReadBits(buf, pos, size) ==
    LET need == ((pos % 8) + size + 7) \div 8
    IN IF (pos % 8) + size > 32 \/ (pos % 8) + size = 0 \/ (pos \div 8) + need > Len(buf) THEN Bad
       ELSE (Number(buf, (pos \div 8) + 1, need) \div 2^(pos % 8)) % 2^size

\* read_value, read_value_signed, read_bit_array: an item of the wrong kind,
\* or bits that are not there, read nothing and leave the position.
ReadValue(buf, pos, e) == IF e.const \/ e.relative THEN Bad ELSE ReadBits(buf, pos, e.size)
ReadBitArray(buf, pos, e) == IF e.const \/ e.size # 1 THEN Bad ELSE ReadBits(buf, pos, e.count)

\* The value as [some, v], for one of a signed item may be -1.
ReadSigned(buf, pos, e) ==
    LET v == ReadBits(buf, pos, e.size)
    IN IF e.const \/ ~e.relative \/ v = Bad THEN [some |-> FALSE, v |-> 0]
       ELSE [some |-> TRUE, v |-> IF v >= 2^(e.size - 1) THEN v - 2^e.size ELSE v]

KeyPage == 7
KEYBOARD == Usage(1, 6)
MOUSE == Usage(1, 2)
CONSUMER == Usage(12, 1)
X == Usage(1, 48)
Y == Usage(1, 49)
WHEEL == Usage(1, 56)
BUTTON_1 == Usage(9, 1)

Skip(st, e) == [st EXCEPT !.pos = @ + e.size * e.count]

\* One input item of a keyboard: the modifiers, the array of keys (of which
\* the report keeps six), or something to skip.
KeyboardItem(buf, st, e) ==
    IF e.min = Usage(KeyPage, 224) /\ e.max = Usage(KeyPage, 231)
    THEN LET v == ReadBitArray(buf, st.pos, e)
         IN IF v = Bad THEN [st EXCEPT !.mods = 0]
            ELSE [st EXCEPT !.mods = v % 256, !.pos = @ + e.count]
    ELSE IF e.size = 8 /\ ~e.variable /\ e.min.page = KeyPage
    THEN LET readable == IF e.const \/ e.relative THEN 0
                         ELSE Cardinality({k \in 1..e.count : st.pos + 8 * k <= 8 * Len(buf)})
             keys == [k \in 1..readable |-> ReadBits(buf, st.pos + 8 * (k - 1), 8)]
         IN [st EXCEPT !.pos = @ + 8 * readable,
                       !.keys = [k \in 1..6 |-> IF k <= readable THEN keys[k] ELSE @[k]]]
    ELSE Skip(st, e)

\* One input item of a mouse.  Buttons that are no bit array are not skipped,
\* an absolute wheel neither; a coordinate that cannot be read panics.
MouseItem(buf, st, e) ==
    CASE e.min = BUTTON_1 ->
           IF ~e.variable \/ e.size # 1 THEN st
           ELSE LET v == ReadBitArray(buf, st.pos, e)
                IN IF v = Bad THEN [st EXCEPT !.stop = TRUE]
                   ELSE [st EXCEPT !.buttons = v % 256, !.pos = @ + e.count]
      [] e.min \in {X, Y} ->
           LET v == IF e.relative THEN ReadSigned(buf, st.pos, e)
                    ELSE LET u == ReadValue(buf, st.pos, e) IN [some |-> u # Bad, v |-> u]
               moved == IF e.min = X THEN [st EXCEPT !.x = v.v, !.pos = @ + e.size,
                                                     !.abs = @ \/ ~e.relative,
                                                     !.maxx = IF e.relative THEN @ ELSE e.lmax]
                        ELSE [st EXCEPT !.y = v.v, !.pos = @ + e.size, !.abs = @ \/ ~e.relative]
           IN IF v.some THEN moved ELSE [st EXCEPT !.stop = TRUE]
      [] e.min = WHEEL ->
           LET v == ReadSigned(buf, st.pos, e)
           IN [st EXCEPT !.wheel = v.v, !.pos = IF v.some THEN @ + e.size ELSE @]
      [] OTHER -> Skip(st, e)

\* One input item of a consumer control: single bits that are set are named.
ConsumerItem(buf, st, e) ==
    IF e.const \/ ~e.variable \/ e.size # 1 THEN Skip(st, e)
    ELSE LET v == ReadValue(buf, st.pos, e)
         IN IF v = Bad THEN st
            ELSE [st EXCEPT !.pos = @ + 1, !.named = IF v # 0 THEN @ \cup {e.min} ELSE @]

FirstBit == IF hIds # {} THEN 8 ELSE 0
InputItems(app) == SelectSeq(app.entries, LAMBDA e : e.kind = 128)

Start(app, buf) == [usage |-> app.usage, buf |-> buf, app |-> app, pos |-> FirstBit, mods |-> 0,
               keys |-> [k \in 1..6 |-> 0], buttons |-> 0, x |-> 0, y |-> 0, wheel |-> 0,
               abs |-> FALSE, maxx |-> 0, stop |-> FALSE, named |-> {}]

DecodeItem(app, buf, st, e) ==
    CASE st.stop -> st
      [] app.usage = KEYBOARD -> KeyboardItem(buf, st, e)
      [] app.usage = MOUSE -> MouseItem(buf, st, e)
      [] app.usage = CONSUMER -> ConsumerItem(buf, st, e)
      [] OTHER -> st

Decode(app, buf) ==
    FoldLeft(LAMBDA st, e : DecodeItem(app, buf, st, e), Start(app, buf), InputItems(app))

\* A report: the application by its id, none for an unknown id or a report
\* that is too short.
Report(buf) ==
    /\ hPc = "ready"
    /\ LET id == IF hIds = {} THEN 0 ELSE buf[1]
           apps == {a \in hStored : a.id = id /\ (hIds # {} => id # 0)}
           long == {a \in apps : 8 * Len(buf) >= FirstBit + BitCount(a, 128)}
       IN /\ hOut' = IF long = {} THEN Nothing
                     ELSE Decode(CHOOSE a \in long : TRUE, buf)
          /\ hPc' = IF long # {} /\ Decode(CHOOSE a \in long : TRUE, buf).stop
                    THEN "stopped" ELSE hPc
    /\ UNCHANGED <<hDesc, hPos, hGlobal, hStack, hLocal, hColl, hApp, hStored, hIds>>

HNext ==
    \/ ParseMain \/ ParseCollection \/ ParseEndCollection \/ ParseGlobal \/ ParseReportId
    \/ ParsePushPop \/ ParseLocal \/ ParseEnds
    \/ \E buf \in HReports[hDesc] : Report(buf)

-----------------------------------------------------------------------------
(* Properties *)

HTypeOK ==
    /\ hPc \in {"parse", "error", "ready", "stopped"}
    /\ hPos \in 1..(Len(Bytes) + 1)
    /\ \A a \in hStored : a.id \in 0..255
    /\ \A k \in 1..Len(hColl) : hColl[k] \in 0..6

\* A field has as many values as its usages ask for, in numbers of a byte.
Even(f) == /\ f.size < 256 /\ f.count < 256
           /\ f.usages = <<>> \/ (f.count > 0 /\ f.count % Len(f.usages) = 0)
EvenApp(a) == \A k \in 1..Len(a.fields) : Even(a.fields[k])
DeclaredBits(fields) == FoldLeft(LAMBDA acc, f : acc + f.size * f.count, 0, fields)

\* However an input item is split into entries, by usages that share its
\* values, the entries of an application are as long as what it declares: the
\* reports are cut where the device puts its fields, and none is taken for
\* garbage by its length.
EntriesCoverFields ==
    \A a \in hStored : EvenApp(a) => BitCount(a, 128) = DeclaredBits(a.fields)

\* Where the field with usage u stands, and the values there bit by bit.
Holds(f, u) == /\ f.flags % 2 = 0
               /\ IF f.usages = <<>> THEN Qualify(f.page, f.min) = u
                  ELSE \E k \in 1..Len(f.usages) : Qualify(f.page, f.usages[k]) = u
Place(fields, u) ==
    LET n == CHOOSE n \in 1..Len(fields) : Holds(fields[n], u)
        f == fields[n]
        k == IF f.usages = <<>> THEN 0
             ELSE (CHOOSE k \in 1..Len(f.usages) : Qualify(f.page, f.usages[k]) = u) - 1
    IN [bit |-> FirstBit + DeclaredBits(SubSeq(fields, 1, n - 1)) + k * f.size, size |-> f.size,
        count |-> f.count, relative |-> (f.flags \div 4) % 2 = 1]
BitAt(buf, p) == (buf[(p \div 8) + 1] \div 2^(p % 8)) % 2
ValueAt(buf, bit, size) ==
    FoldLeftDomain(LAMBDA acc, k : acc + BitAt(buf, bit + k - 1) * 2^(k - 1), 0, [k \in 1..size |-> k])
Has(fields, u) == \E n \in 1..Len(fields) : Holds(fields[n], u)

\* A layout the driver reads: even, one value for each coordinate, buttons as
\* a bit array, a wheel that is relative.
ReadableMouse(a) ==
    /\ EvenApp(a)
    /\ \A n \in 1..Len(a.fields) :
         LET f == a.fields[n] IN
         /\ Holds(f, X) \/ Holds(f, Y) \/ Holds(f, WHEEL) => f.count = Len(f.usages)
         /\ Holds(f, BUTTON_1) => f.size = 1 /\ f.usages = <<>> /\ (f.flags \div 2) % 2 = 1
         /\ Holds(f, WHEEL) => (f.flags \div 4) % 2 = 1

InPlace(u, value) ==
    LET p == Place(hOut.app.fields, u)
        v == ValueAt(hOut.buf, p.bit, p.size)
    IN Has(hOut.app.fields, u) =>
         value = IF p.relative /\ v >= 2^(p.size - 1) THEN v - 2^p.size ELSE v

\* A report is decoded to the values that stand where the descriptor puts
\* them, whatever is between the fields, and is read to its last bit: a value
\* that is not consumed would shift every one after it.
DecodedInPlace ==
    /\ hOut # Nothing /\ hOut.usage = MOUSE /\ ~hOut.stop /\ ReadableMouse(hOut.app) =>
         /\ InPlace(X, hOut.x) /\ InPlace(Y, hOut.y) /\ InPlace(WHEEL, hOut.wheel)
         /\ hOut.pos = FirstBit + DeclaredBits(hOut.app.fields)
    /\ hOut # Nothing /\ hOut.usage = KEYBOARD /\ EvenApp(hOut.app) =>
         LET mods == Place(hOut.app.fields, Usage(KeyPage, 224))
             keys == Place(hOut.app.fields, Usage(KeyPage, 0))
         IN /\ Has(hOut.app.fields, Usage(KeyPage, 224)) =>
                 hOut.mods = ValueAt(hOut.buf, mods.bit, 8)
            /\ Has(hOut.app.fields, Usage(KeyPage, 0)) =>
                 \A k \in 1..6 :
                    hOut.keys[k] = IF k > keys.count THEN 0
                                   ELSE ValueAt(hOut.buf, keys.bit + 8 * (k - 1), 8)

\* The driver stops only at a coordinate it cannot read, and the parser only
\* at an item nobody implemented.
StopsOnlyUnread ==
    hPc = "stopped" => hOut = Nothing \/ ~ReadableMouse(hOut.app)
                       \/ \E n \in 1..Len(hOut.app.fields) : hOut.app.fields[n].size > 25

\* All that descriptors and reports keep: their types, EntriesCoverFields,
\* DecodedInPlace, StopsOnlyUnread.
HidReportInv == HTypeOK /\ EntriesCoverFields /\ DecodedInPlace /\ StopsOnlyUnread
=============================================================================
