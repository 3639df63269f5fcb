--------------------------------- MODULE Dmap ---------------------------------
(***************************************************************************)
(* The metadata of a track (dmap.go): a tree of tagged entries as a source *)
(* sends it, printed as JSON or as XML for the sink.                       *)
(*                                                                         *)
(* Data is a sequence of cells.  The eight bytes of a tag and a length are *)
(* one cell, and lengths count cells.  What is printed is a sequence of    *)
(* tokens without line ends, blanks and the XML header: the names, values  *)
(* and braces a reader of the format would find, as far as it can read     *)
(* them, and what it cannot read in pieces.                                *)
(***************************************************************************)
EXTENDS Integers, SequencesExt

CONSTANTS
  ByteSize,     \* how many values a byte has: 256
  WordSize,     \* bytes of a uint64: 8
  JsonMarkup,   \* bytes that mean something in a JSON string, as a quote does
  XmlMarkup     \* bytes that mean something in an XML text, as a bracket does

ASSUME DmapAssumption == ByteSize \in Nat \ {0, 1} /\ WordSize \in Nat \ {0}

\* A tag of each printer, and two that have one name.  There are some three
\* hundred, and others that are not known, of any four bytes: Odd stands for those
\* with a quote and a bracket in them.
EntryMap == [mlit |-> "Dict", minm |-> "Str", astn |-> "Uint", asrv |-> "Int",
             asda |-> "Date", apro |-> "Vers", aeCD |-> "Data",
             aeCs |-> "Uint", aeCS |-> "Uint"]
Known == DOMAIN EntryMap
Odd == "odd"
Tags == Known \union {"zzzz", Odd}

\* The name of an entry: that of the table, one for one of its tag but for three
\* pairs of tags, or the tag that is not known.
EntryName(tag) == IF tag = "aeCS" THEN "aeCs" ELSE tag

Byte == "byte"
Cell == [tag : Tags \union {Byte}, n : Nat]

Printer(tag) == IF tag \in Known THEN EntryMap[tag] ELSE "Data"

-----------------------------------------------------------------------------
Max64 == ByteSize ^ WordSize

\* dmapIntToUint64: bytes that do not fit are shifted out.
IntToUint64(data) == FoldLeft(LAMBDA v, cell : (v * ByteSize + cell.n) % Max64, 0, data)

\* dmapPrintUint prints the value as an int64.
Signed(v) == IF 2 * v < Max64 THEN v ELSE v - Max64

Contents(data) == [i \in DOMAIN data |-> data[i].n]

\* dmapPrintInt, dmapPrintUint, dmapPrintDate, dmapPrintStr, dmapPrintData,
\* dmapPrintVers
Value(tag, data) ==
  CASE Printer(tag) \in {"Int", "Date"} -> <<Printer(tag), IntToUint64(data)>>
    [] Printer(tag) = "Uint" -> <<"Uint", Signed(IntToUint64(data))>>
    [] Printer(tag) \in {"Str", "Data"} -> <<Printer(tag), Contents(data)>>
    [] Printer(tag) = "Vers" -> <<"Vers">>

Panic == <<"panic">>
OpenBrace == <<"{">>
CloseBrace == <<"}">>
Comma == <<",">>
Quote == <<"quote">>
Raw(n) == <<"raw", n>>

\* A name is printed as it is, whatever is in the tag.
Name(tag) == <<IF tag = Odd THEN "raw" ELSE "name", EntryName(tag)>>
End(tag) == <<IF tag = Odd THEN "raw" ELSE "end", EntryName(tag)>>

Markup(json) == IF json THEN JsonMarkup ELSE XmlMarkup

(***************************************************************************)
(* What the printer of an entry writes.  dmapPrintStr escapes nothing: a   *)
(* string with markup in it is whatever its bytes make of it, and not one  *)
(* value.                                                                  *)
(***************************************************************************)
Text(json, tag, data) ==
  LET bytes == [i \in DOMAIN data |-> Raw(data[i].n)]
      raw == Printer(tag) = "Str" /\ \E i \in DOMAIN data : data[i].n \in Markup(json)
  IN  IF ~raw THEN <<Value(tag, data)>>
      ELSE IF json THEN <<Quote>> \o bytes \o <<Quote>> ELSE bytes

\* What dmapPrintDict puts around its entries, and WriteX around the first one.
Braces(json, out) == IF json THEN <<OpenBrace>> \o out \o <<CloseBrace>> ELSE out

\* Mutant of Infix: the separator is not changed after the first entry.
InfixPrefix(json) == IF json THEN <<OpenBrace>> ELSE <<>>

\* What dmapPrintDict puts between two entries.
Infix(json) == IF json THEN <<Comma>> ELSE <<>>

\* dmapWriteEntry, around the value.
Entry(json, tag, value) == <<Name(tag)>> \o value \o (IF json THEN <<>> ELSE <<End(tag)>>)

(***************************************************************************)
(* The loop of dmapPrintDict: dmapWriteEntry for one entry after the       *)
(* other, to the end of the data.  An entry that is longer than what is    *)
(* left, or that has no tag and length, is an index out of range, sooner   *)
(* or later.                                                               *)
(***************************************************************************)
Entries(json, dsource) ==
  LET entries[data \in Seq(Cell)] ==
        IF data = <<>> THEN <<>>
        ELSE LET head == data[1]
                 content == SubSeq(data, 2, head.n + 1)
                 rest == SubSeq(data, head.n + 2, Len(data))
                 value == IF Printer(head.tag) = "Dict" THEN Braces(json, entries[content])
                          ELSE Text(json, head.tag, content)
             IN  IF head.tag = Byte \/ head.n > Len(data) - 1 THEN <<Panic>>
                 ELSE Entry(json, head.tag, value)
                        \o (IF rest = <<>> THEN <<>> ELSE Infix(json)) \o entries[rest]
  IN  entries[dsource]

\* WriteX prints the first entry; without one dmapWriteEntry is out of range.
WriteX(json, data) ==
  LET cut == data = <<>> \/ data[1].n > Len(data) - 1
  IN  Braces(json, IF cut THEN <<Panic>>
                   ELSE Entries(json, SubSeq(data, 1, data[1].n + 1)))

\* String: nothing for a format other than "xml" and "json", in any case.
String(format, data) ==
  IF format \in {"xml", "json"} THEN WriteX(format = "json", data) ELSE <<>>

Panics(out) == \E i \in DOMAIN out : out[i] = Panic

-----------------------------------------------------------------------------
(***************************************************************************)
(* What a source has to say of a track: the entries of a tree, from the    *)
(* root on, each with its depth.  An entry that holds others has no        *)
(* content.                                                                *)
(***************************************************************************)
Item == [depth : Nat \ {0}, tag : Tags, content : Seq(Nat)]
Holds(item) == Printer(item.tag) = "Dict"

IsForest(items) ==
  /\ items # <<>> => items[1].depth = 1
  /\ \A i \in DOMAIN items : Holds(items[i]) => items[i].content = <<>>
  /\ \A i \in 1 .. Len(items) - 1 :
       items[i + 1].depth <= items[i].depth + IF Holds(items[i]) THEN 1 ELSE 0

IsTree(items) ==
  /\ items \in Seq(Item) /\ IsForest(items)
  /\ items # <<>> /\ \A i \in 2 .. Len(items) : items[i].depth > 1

\* The first entry with all it holds: how many entries these are, those in it,
\* and those behind it.
IsExtent(items, n) ==
  /\ \A i \in 2 .. n : items[i].depth > 1
  /\ n < Len(items) => items[n + 1].depth = 1
Extent(items) == CHOOSE n \in 1 .. Len(items) : IsExtent(items, n)
Raised(item) == [depth |-> item.depth - 1, tag |-> item.tag, content |-> item.content]
Inside(items) == [i \in 1 .. Extent(items) - 1 |-> Raised(items[i + 1])]
After(items) == SubSeq(items, Extent(items) + 1, Len(items))

\* The cells a source sends for it.
Bytes(content) == [i \in DOMAIN content |-> [tag |-> Byte, n |-> content[i]]]
Data[items \in Seq(Item)] ==
  IF items = <<>> THEN <<>>
  ELSE LET content == Bytes(items[1].content) \o Data[Inside(items)]
       IN  <<[tag |-> items[1].tag, n |-> Len(content)]>> \o content \o Data[After(items)]

-----------------------------------------------------------------------------
Kind(token) == token[1]
Values == {"Int", "Uint", "Date", "Str", "Data", "Vers"}

\* What dmapPrintVers prints, ***VERS***, is no value in JSON, and what dmapPrintData
\* prints, <!CDATA<[1, 2]>>, is nothing in XML.
Accepts(json) == Values \ IF json THEN {"Vers"} ELSE {"Data"}

\* The entries that are printed in a way a reader can make sense of.
Fits(json, item) ==
  /\ item.tag # Odd
  /\ Printer(item.tag) \in Accepts(json) \union {"Dict"}
  /\ Printer(item.tag) = "Str" =>
       \A i \in DOMAIN item.content : item.content[i] \notin Markup(json)
AllFit(json, items) == \A i \in DOMAIN items : Fits(json, items[i])
Opens(json) == IF json THEN {"{"} ELSE {"name"}
Closes(json) == IF json THEN {"}"} ELSE {"end"}

\* How many tokens of these kinds come before position i, and how deep it is.
Before(out, i, kinds) == Cardinality({j \in 1 .. i - 1 : Kind(out[j]) \in kinds})
Depth(json, out, i) == Before(out, i, Opens(json)) - Before(out, i, Closes(json))

\* A reader can follow it: what may come after a token, first and last, and that
\* what is opened is closed.
Follows(json) ==
  IF json THEN {<<"{", "name">>, <<"{", "}">>, <<",", "name">>, <<"name", "{">>,
                <<"}", ",">>, <<"}", "}">>}
               \union ({"name"} \X Accepts(json)) \union (Accepts(json) \X {",", "}"})
  ELSE {<<"name", "name">>, <<"name", "end">>, <<"end", "name">>, <<"end", "end">>}
       \union ({"name"} \X Accepts(json)) \union (Accepts(json) \X {"end"})

Readable(json, out) ==
  /\ \A i \in 1 .. Len(out) - 1 : <<Kind(out[i]), Kind(out[i + 1])>> \in Follows(json)
  /\ Kind(out[1]) \in Opens(json) /\ Kind(out[Len(out)]) \in Closes(json)
  /\ \A i \in 2 .. Len(out) : Depth(json, out, i) > 0
  /\ Depth(json, out, Len(out) + 1) = 0

\* A name in the output, and what comes behind it, are those of an entry.
Says(out, i, item) ==
  /\ out[i] = Name(item.tag)
  /\ i < Len(out)
  /\ IF Holds(item) THEN Kind(out[i + 1]) \notin Values
     ELSE out[i + 1] = Value(item.tag, Bytes(item.content))

\* The names are those of the entries, in their order and at their depths.
Tells(json, out, items) ==
  /\ Before(out, Len(out) + 1, {"name"}) = Len(items)
  /\ \A i \in DOMAIN out :
       Kind(out[i]) = "name" =>
         LET item == items[Before(out, i, {"name"}) + 1]
         IN  /\ Says(out, i, item)
             /\ item.depth = Depth(json, out, i) + IF json THEN 0 ELSE 1
=============================================================================
