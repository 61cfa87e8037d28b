-------------------------------- MODULE Oafs --------------------------------
(***************************************************************************)
(* The write buffer and the pages of the object file system (oafs.c):      *)
(* insertlines() reads "KEY DATA" lines into a sorted buffer; when that is *)
(* full, or at the end of the file, it packs the buffer into pages of 256  *)
(* bytes, keys compressed by the prefix shared with the key before.        *)
(*                                                                         *)
(* Offsets into a page are chars: PageSize is also where they wrap.        *)
(***************************************************************************)
EXTENDS Oaq, FiniteSets

CONSTANTS PageSize,     \* bytes of a page, 256 in the code
          MaxKeys,      \* entries of the buffer, 255 in the code
          Lines,        \* what a line may be: [key |-> bytes, data |-> bytes]
          MaxLines      \* bound: lines of a file

OafsAssumption ==
  /\ PageSize \in 16..256 /\ MaxKeys \in 1..(PageSize - 1) /\ MaxLines \in Nat
  /\ \A l \in Lines : /\ l.key \in Seq(1..255) /\ l.data \in Seq(1..255)
                      /\ Len(l.key) < PageSize /\ Len(l.data) < PageSize
ASSUME OafsAssumption

VARIABLES pc,           \* "read", "flush" (before a page), "entry" (in packpage), "end"
          file,         \* the lines read so far
          eof,          \* the flush under way is the last
          buffer,       \* the entries, sorted; each with id, its place in file
          page,         \* the page being packed
          next,         \* packpage's parameter: the first entry to pack
          j, z,         \* packpage's: entry at hand, offset to write at
          first, pkey,  \* packpage's: the first and the last key of the page, 0 for none
          freed,        \* ids of keys given to free(), in that order
          full,         \* history: the page was filled to its last byte, z is at its start again
          packed,       \* pages of this flush: <<bytes, entries, whether it was filled up>>
          next_sector   \* the next free sector, by FSnewsector
vars == <<pc, file, eof, buffer, page, next, j, z, first, pkey, freed, full, packed, next_sector>>

Magic == <<164, 201>>   \* '$' and 'I' with their high bits
Offset(o) == o % PageSize
n == Len(buffer)
AsSignedChar(d) == ((d + 128) % 256) - 128

-----------------------------------------------------------------------------
(* FSinsert: after all that are not greater.                                *)

\* memcmp may answer any number of the right sign: here, the difference of
\* the bytes. Its answer goes through a signed char.
Memcmp(a, b) ==
  LET least == IF Len(a) < Len(b) THEN Len(a) ELSE Len(b)
      differ == {i \in 1..least : a[i] # b[i]}
      i == CHOOSE k \in differ : \A m \in differ : k <= m
  IN IF differ = {} THEN 0 ELSE AsSignedChar(a[i] - b[i])

GoesBefore(key, other) ==
  \/ Memcmp(key, other) < 0
  \/ Memcmp(key, other) = 0 /\ Len(key) < Len(other)
Place(key) ==
  LET i == SelectInSeq(buffer, LAMBDA e : GoesBefore(key, e.key))
  IN IF i = 0 THEN n + 1 ELSE i

Insert(l) ==            \* a line is read; there is room
  /\ pc = "read" /\ n < MaxKeys
  /\ Len(file) < MaxLines
  /\ file' = Append(file, l)
  /\ buffer' = InsertAt(buffer, Place(l.key), [key |-> l.key, data |-> l.data, id |-> Len(file')])
  /\ UNCHANGED <<pc, eof, page, next, j, z, first, pkey, freed, full, packed, next_sector>>

Flush ==                \* FSinsert answers 0, or there are no more lines
  /\ pc = "read"
  /\ \/ n >= MaxKeys /\ Len(file) < MaxLines /\ eof' = FALSE
     \/ eof' = TRUE
  /\ pc' = "flush" /\ next' = 0 /\ packed' = <<>>
  /\ UNCHANGED <<file, buffer, page, j, z, first, pkey, freed, full, next_sector>>

-----------------------------------------------------------------------------
(* packpage.                                                                *)

HeaderKeepsOffset ==
  /\ pc = "flush" /\ pc' = "entry"
  /\ page' = [o \in 0..(PageSize - 1) |-> IF o < 2 THEN Magic[o + 1] ELSE 0]
  /\ z' = (IF next = 0 THEN 4 ELSE z) /\ j' = next /\ first' = 0 /\ pkey' = 0 /\ full' = FALSE
  /\ UNCHANGED <<file, eof, buffer, next, freed, packed, next_sector>>
Header ==               \* the parameter is the sector of the header, and the first entry
  /\ pc = "flush" /\ pc' = "entry"
  /\ page' = [o \in 0..(PageSize - 1) |->
                CASE o < 2 -> Magic[o + 1] [] o = 2 -> Offset(next)
                  [] o = 3 -> next \div PageSize [] OTHER -> 0]
  /\ z' = 4 /\ j' = next /\ first' = 0 /\ pkey' = 0 /\ full' = FALSE
  /\ UNCHANGED <<file, eof, buffer, next, freed, packed, next_sector>>

Entry == buffer[j + 1]
KeyOf(id) == file[id].key

SharedLength == IF pkey = 0 THEN 0
                ELSE IF Len(Entry.key) <= Len(KeyOf(pkey)) THEN Len(Entry.key) ELSE Len(KeyOf(pkey))
Prefix ==               \* bytes shared with the key before
  LET same == {m \in 0..SharedLength : \A i \in 1..m : KeyOf(pkey)[i] = Entry.key[i]}
  IN CHOOSE m \in same : \A k \in same : k <= m

NeedNoTime == (3 + Len(Entry.key) + Len(Entry.data) - Prefix) % PageSize
Need == (3 + 1 + Len(Entry.key) + Len(Entry.data) - Prefix) % PageSize
Fits == PageSize - z >= Need

NoKey ==                \* an empty key is passed over
  /\ pc = "entry" /\ j < n /\ Entry.key = <<>>
  /\ j' = j + 1
  /\ UNCHANGED <<pc, file, eof, buffer, page, next, z, first, pkey, freed, full, packed, next_sector>>

\* <skipoff> <prefixlen> <dataoff> key suffix [timestamp data]. insertlines()
\* gives no timestamp: 0, one byte when it is complemented.
NoTime == <<0, 0, 0, 0>>
Stamp == LongCode(Complement(NoTime))
Bytes(skipoff) ==
  LET suffix == SubSeq(Entry.key, Prefix + 1, Len(Entry.key))
      dataoff == z + 3 + Len(suffix) - 1
  IN IF Entry.data = <<>> THEN <<skipoff, Prefix, 0>> \o suffix
     ELSE <<skipoff, Prefix, Offset(dataoff)>> \o suffix \o Stamp \o Entry.data

\* The key before is disposed of, but for the first, which the page's name needs.
DisposeAlways == IF pkey # 0 THEN <<pkey>> ELSE <<>>
Dispose == IF pkey # first THEN <<pkey>> ELSE <<>>

PackEntry ==
  /\ pc = "entry" /\ j < n /\ Entry.key # <<>> /\ Fits
  /\ LET bytes == Bytes(Offset(z + Len(Bytes(0))))
     IN /\ page' = [o \in DOMAIN page |->
                      IF o \in z..(z + Len(bytes) - 1) THEN bytes[o - z + 1] ELSE page[o]]
        /\ z' = Offset(z + Len(bytes)) /\ full' = (full \/ z + Len(bytes) = PageSize)
  /\ freed' = freed \o Dispose
  /\ pkey' = Entry.id
  /\ first' = IF first = 0 THEN Entry.id ELSE first
  /\ j' = j + 1
  /\ UNCHANGED <<pc, file, eof, buffer, next, packed, next_sector>>

\* parsepage: the header's sector becomes the next free one.
Parsed(pg) == IF <<pg[0], pg[1]>> = Magic THEN pg[2] + PageSize * pg[3] ELSE next_sector

WithKey(entries) ==     \* those of the entries that are not passed over
  LET kept[k \in 0..Len(entries)] ==
        IF k = 0 THEN <<>>
        ELSE IF entries[k].key = <<>> THEN kept[k - 1] ELSE Append(kept[k - 1], entries[k])
  IN kept[Len(entries)]
Meant == WithKey(SubSeq(buffer, next + 1, j))
InextSkips == IF j >= n THEN 0 ELSE j + 1
Inext == IF j >= n THEN 0 ELSE j
EndPage ==              \* all packed, or the next does not fit
  /\ pc = "entry" /\ (j < n => Entry.key # <<>> /\ ~Fits)
  /\ LET final == [page EXCEPT ![Offset(z + 1)] = 0]
     IN /\ page' = final
        /\ packed' = IF Meant = <<>> THEN packed
                      ELSE Append(packed, <<final, Meant, full \/ z + 1 = PageSize>>)
        /\ next_sector' = Parsed(final)
  /\ freed' = freed \o (IF first # 0 THEN <<first>> ELSE <<>>) \o Dispose
  /\ next' = Inext
  /\ IF Inext # 0 THEN pc' = "flush" /\ UNCHANGED buffer
     ELSE pc' = (IF eof THEN "end" ELSE "read") /\ buffer' = <<>>
  /\ UNCHANGED <<file, eof, j, z, first, pkey, full>>

-----------------------------------------------------------------------------
Init ==
  /\ pc = "read" /\ file = <<>> /\ eof = FALSE /\ buffer = <<>>
  /\ page = [o \in 0..(PageSize - 1) |-> 0]
  /\ next = 0 /\ j = 0 /\ z = 0 /\ first = 0 /\ pkey = 0
  /\ freed = <<>> /\ full = FALSE /\ packed = <<>> /\ next_sector = 256

Next == (\E l \in Lines : Insert(l)) \/ Flush \/ Header \/ NoKey \/ PackEntry \/ EndPage

\* insertlines() is one loop.
Spec == Init /\ [][Next]_vars /\ WF_vars(Header \/ NoKey \/ PackEntry \/ EndPage)

-----------------------------------------------------------------------------
(* Reading a page.                                                          *)

Cell(pg, o) == pg[Offset(o)]
Take(s, k) == SubSeq(s, 1, IF k <= Len(s) THEN k ELSE Len(s))
Piece(pg, from, count) == [i \in 1..count |-> Cell(pg, from + i - 1)]

\* Where the entries are: each says where the next one is, up to `last`.
Chain(pg, last) ==
  LET walk[k \in 0..MaxKeys] ==     \* past k entries at most
        LET o == Last(walk[k - 1])
        IN  IF k = 0 THEN <<4>>
            ELSE IF o > last \/ Cell(pg, o) \notin (o + 1)..(PageSize - 1) THEN walk[k - 1]
            ELSE Append(walk[k - 1], Cell(pg, o))
  IN Front(walk[MaxKeys])

\* The comment "ENTRY LAYOUT": an entry at o, given the key before and <dataoffset>,
\* where the key ends and the timestamp, one byte as none is given, is; then the data.
EntryAt(pg, o, before, dataoffset) ==
  LET skipoffset == Cell(pg, o)
      keyend == IF dataoffset = 0 THEN skipoffset ELSE dataoffset
  IN [key |-> Take(before, Cell(pg, o + 1) % 128) \o Piece(pg, o + 3, keyend - o - 3),
      time |-> IF dataoffset = 0 THEN <<>> ELSE Piece(pg, dataoffset, 1),
      data |-> IF dataoffset = 0 THEN <<>>
               ELSE Piece(pg, dataoffset + 1, skipoffset - dataoffset - 1)]
\* packpage's <dataoff> is one less than that: it is where the last byte of the key is.
Dataoffset(pg, o) == IF Cell(pg, o + 2) = 0 THEN 0 ELSE Cell(pg, o + 2) + 1
Layout(pg) ==
  LET at == Chain(pg, PageSize - 4)
      entries[i \in 0..Len(at)] ==
        IF i = 0 THEN <<>>
        ELSE Append(entries[i - 1],
               EntryAt(pg, at[i], IF i = 1 THEN <<>> ELSE entries[i - 1][i - 1].key,
                       Dataoffset(pg, at[i])))
  IN entries[Len(at)]

\* parseentry, which takes <dataoff> as it is.
ParseEntryKey(pg, o, before) ==
  LET prefix == Cell(pg, o + 1) % 128
      from == IF Cell(pg, o + 2) # 0 THEN Cell(pg, o + 2) ELSE o
      klen == Cell(pg, o) - from - 3 + prefix
  IN Take(before, prefix) \o Piece(pg, o + 3, klen - prefix)
ParseEntryData(pg, o) ==
  LET dataoff == Cell(pg, o + 2)
  IN IF dataoff = 0 THEN <<>> ELSE Piece(pg, dataoff + 1, Cell(pg, o) - dataoff - 1)

\* parsepage: the keys, and the data.
ParsePage(pg) ==
  LET at == Chain(pg, PageSize - 1)
      keys[i \in 0..Len(at)] ==
        IF i = 0 THEN <<>>
        ELSE Append(keys[i - 1],
               ParseEntryKey(pg, at[i], IF i = 1 THEN <<>> ELSE keys[i - 1][i - 1]))
  IN IF <<pg[0], pg[1]>> = Magic THEN keys[Len(at)] ELSE <<>>
ParsedData(pg) ==
  LET at == Chain(pg, PageSize - 1)
  IN [k \in DOMAIN at |-> ParseEntryData(pg, at[k])]

-----------------------------------------------------------------------------
\* The buffer is in the order of its keys as byte strings, a key before its
\* extensions, and equal keys in the order in which they came.
SmallerKey(a, b) ==
  \/ IsStrictPrefix(a, b)
  \/ \E i \in DOMAIN a \cap DOMAIN b :
       a[i] < b[i] /\ SubSeq(a, 1, i - 1) = SubSeq(b, 1, i - 1)
BufferSorted ==
  \A i, k \in 1..n : i < k =>
    \/ SmallerKey(buffer[i].key, buffer[k].key)
    \/ buffer[i].key = buffer[k].key /\ buffer[i].id < buffer[k].id

\* A page says exactly what was packed into it, keys, timestamps and data, unless one of
\* its entries ended on the last byte but one, where the END marker lands on the first,
\* or on the last, after which packpage goes on writing at the first. parsepage reads
\* back the keys of a page without data; to the data, as packpage's <dataoff> is one less
\* than parseentry expects, it always adds the timestamp in front.
PagesHold ==
  \A i \in DOMAIN packed :
    LET entries == packed[i][2]
        keys == [k \in DOMAIN entries |-> entries[k].key]
        Or(data, s) == IF data = <<>> THEN <<>> ELSE s
    IN \/ packed[i][3]
       \/ /\ Layout(packed[i][1])
               = [k \in DOMAIN entries |->
                    [key |-> keys[k], time |-> Or(entries[k].data, Stamp), data |-> entries[k].data]]
          /\ (\A k \in DOMAIN entries : entries[k].data = <<>>) => ParsePage(packed[i][1]) = keys
          /\ ParsedData(packed[i][1])
               = [k \in DOMAIN entries |-> Or(entries[k].data, Stamp \o entries[k].data)]

\* The buffer is sorted, and nothing in it is packed twice or forgotten: between
\* its pages a flush has packed the buffer up to next.
PagesInOrder ==
  /\ BufferSorted
  /\ pc = "flush" =>
       FlattenSeq([i \in DOMAIN packed |-> packed[i][2]])
         = WithKey(SubSeq(buffer, 1, next))

\* A key is freed once, and not while a page still compares with it; after
\* the last flush, only empty keys are left behind.
KeysFreed ==
  /\ IsInjective(freed)
  /\ pc = "entry" => {first, pkey} \cap ToSet(freed) = {}
  /\ pc = "end" => ToSet(freed) = {i \in DOMAIN file : file[i].key # <<>>}

\* Every flush ends, if every line fits a page.
FlushEnds == pc = "flush" ~> pc \in {"read", "end"}
=============================================================================
