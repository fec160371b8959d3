------------------------ MODULE PdfMetadata_proofs ---------------------------
(***************************************************************************)
(* Proofs about PdfMetadata, for every set of fields and every document.   *)
(* One invariant per loop relates what the rounds so far have built to     *)
(* what they were given; the properties compose them.                      *)
(***************************************************************************)
EXTENDS PdfMetadata, TLAPS

\* The embedded documents as the second loop shows them.
ShownEmbed(d) == Embed(BinaryReplaced(metadata.embeds[d]))

Shape ==
    /\ raw \in Seq(Entries)
    /\ metadata = [primary |-> metadata.primary, embeds |-> metadata.embeds,
                   order |-> metadata.order]
    /\ metadata.order \in Seq(DOMAIN metadata.embeds)
    /\ shown = [primary |-> shown.primary, embeds |-> shown.embeds]
    /\ shown.embeds \in Seq({ShownEmbed(d) : d \in DOMAIN metadata.embeds})
    /\ processing \in BOOLEAN
    /\ left \subseteq DOMAIN metadata.primary
    /\ visited \in 0..Len(metadata.order)
    /\ ~processing => left = {} /\ visited = 0 /\ shown = [primary |-> Empty, embeds |-> <<>>]

\* What the script drops, and the key under which it keeps anything else.
Dropped(key) ==
    (key # FileSize /\ key[1] \in {"File", "ExifTool", "EXIF"}) \/ key = SourceFile
SortedAs(key) == IF key = FileSize THEN <<"PDF", "FileSize">> ELSE key

OfPrimary == {i \in DOMAIN raw : raw[i].doc = "Main" /\ ~Dropped(raw[i].key)}

PrimarySorted ==
    /\ \A i \in OfPrimary : SortedAs(raw[i].key) \in DOMAIN metadata.primary
    /\ \A key \in DOMAIN metadata.primary :
          \E i \in OfPrimary : /\ SortedAs(raw[i].key) = key
                               /\ metadata.primary[key] = raw[i].value

EmbedsSorted ==
    /\ \A i \in DOMAIN raw : raw[i].doc # "Main" =>
          /\ raw[i].doc \in DOMAIN metadata.embeds
          /\ raw[i].key \in DOMAIN metadata.embeds[raw[i].doc]
          /\ metadata.embeds[raw[i].doc][raw[i].key] = raw[i].value
    /\ \A d \in DOMAIN metadata.embeds :
          /\ d \in Embedded
          /\ \A key \in DOMAIN metadata.embeds[d] :
                \E i \in DOMAIN raw : raw[i].doc = d /\ raw[i].key = key

OrderKept ==
    /\ \A d \in DOMAIN metadata.embeds : \E n \in DOMAIN metadata.order : metadata.order[n] = d
    /\ \A m, n \in DOMAIN metadata.order :
          m < n => Before(raw, metadata.order[m], metadata.order[n])

\* What the first loop does not skip, and how it renames that.
Visible(key) ==
    /\ key[1] \notin {"ICC_Profile", "Composite"}
    /\ key \notin SchemaKeys \ {SchemasSchema}
Renamed(key) ==
    IF key = SchemasSchema THEN Schemas
    ELSE IF key[1] = "none" THEN <<"File", key[2]>>
    ELSE key

PrimaryShown ==
    processing =>
       /\ \A key \in DOMAIN metadata.primary \ left :
             Visible(key) => Renamed(key) \in DOMAIN shown.primary
       /\ \A field \in DOMAIN shown.primary :
             \E key \in DOMAIN metadata.primary \ left :
                /\ Visible(key)
                /\ Renamed(key) = field
                /\ shown.primary[field] = metadata.primary[key]

\* Embedding n is the document that the second loop visited in round pos[n].
Numbering(pos) ==
    /\ \A i \in 1..visited : DOMAIN ShownEmbed(metadata.order[i]).fields # {} =>
                                \E n \in DOMAIN pos : pos[n] = i
    /\ \A m, n \in DOMAIN pos : m < n => pos[m] < pos[n]
    /\ \A n \in DOMAIN pos : /\ shown.embeds[n] = ShownEmbed(metadata.order[pos[n]])
                             /\ DOMAIN shown.embeds[n].fields # {}

EmbedsShown == \E pos \in [DOMAIN shown.embeds -> 1..visited] : Numbering(pos)

PdfInv == Shape /\ PrimarySorted /\ EmbedsSorted /\ OrderKept /\ PrimaryShown /\ EmbedsShown

-----------------------------------------------------------------------------
(* The invariant holds.                                                    *)

LEMMA PdfInit == Init => PdfInv
<1> SUFFICES ASSUME Init PROVE PdfInv
  OBVIOUS
<1>1. raw = <<>> /\ DOMAIN raw = {} /\ left = {} /\ visited = 0 /\ ~processing
  BY DEF Init
<1>2. /\ metadata.primary = Empty /\ metadata.embeds = Empty /\ metadata.order = <<>>
      /\ shown.primary = Empty /\ shown.embeds = <<>> /\ DOMAIN Empty = {}
  BY DEF Init, Empty
<1>3. Shape
  <2>1. <<>> \in Seq({ShownEmbed(d) : d \in DOMAIN Empty}) /\ <<>> \in Seq(DOMAIN Empty)
    OBVIOUS
  <2>2. raw \in Seq(Entries) /\ visited \in 0..Len(metadata.order)
    BY <1>1, <1>2
  <2> QED BY <1>1, <1>2, <2>1, <2>2 DEF Init, Shape
<1>4. PrimarySorted /\ EmbedsSorted /\ OrderKept /\ PrimaryShown
  BY <1>1, <1>2 DEF PrimarySorted, OfPrimary, EmbedsSorted, OrderKept, PrimaryShown
<1>5. EmbedsShown
  <2> DEFINE pos == [n \in DOMAIN shown.embeds |-> n]
  <2>1. DOMAIN shown.embeds = {} /\ 1..visited = {}
    BY <1>1, <1>2
  <2>2. pos \in [DOMAIN shown.embeds -> 1..visited] /\ Numbering(pos)
    BY <2>1 DEF Numbering
  <2> QED BY <2>2 DEF EmbedsShown
<1> QED BY <1>3, <1>4, <1>5 DEF PdfInv

\* What was read stays read, and before what is read later.
LEMMA ReadOneMore ==
    ASSUME Shape, NEW e \in Entries, raw' = Append(raw, e)
    PROVE  /\ Len(raw) \in Nat
           /\ DOMAIN raw = 1..Len(raw) /\ DOMAIN raw' = 1..(Len(raw) + 1)
           /\ \A i \in DOMAIN raw : i \in DOMAIN raw' /\ raw'[i] = raw[i]
           /\ Len(raw) + 1 \in DOMAIN raw' /\ raw'[Len(raw) + 1] = e
           /\ \A i \in DOMAIN raw' : i \in DOMAIN raw \/ i = Len(raw) + 1
           /\ raw' \in Seq(Entries)
<1>1. /\ Len(raw) \in Nat
      /\ DOMAIN raw = 1..Len(raw) /\ DOMAIN raw' = 1..(Len(raw) + 1)
      /\ \A i \in DOMAIN raw : i \in DOMAIN raw' /\ raw'[i] = raw[i]
      /\ Len(raw) + 1 \in DOMAIN raw' /\ raw'[Len(raw) + 1] = e
      /\ raw' \in Seq(Entries)
  BY DEF Shape
<1>2. \A i \in DOMAIN raw' : i \in DOMAIN raw \/ i = Len(raw) + 1
  BY <1>1
<1> QED BY <1>1, <1>2

LEMMA BeforeStays ==
    ASSUME Shape, NEW e \in Entries, raw' = Append(raw, e),
           NEW d1, NEW d2, Before(raw, d1, d2)
    PROVE  Before(raw', d1, d2)
<1>1. PICK i \in DOMAIN raw : raw[i].doc = d1 /\ \A k \in 1..i : raw[k].doc # d2
  BY DEF Before
<1>2. \A k \in 1..i : k \in DOMAIN raw
  BY ReadOneMore
<1> QED BY ReadOneMore, <1>1, <1>2 DEF Before

LEMMA KeysDiffer ==
    /\ FileSize[1] = "File" /\ SourceFile[1] = "none" /\ Schemas[1] = "XMP" /\ SchemasSchema[1] = "XMP"
    /\ FileSize # SourceFile /\ Schemas # SchemasSchema
    /\ <<"PDF", "FileSize">>[1] = "PDF"
    /\ \A key \in SchemaKeys : key[1] = "XMP"
BY DEF FileSize, SourceFile, Schemas, SchemasSchema, SchemaKeys

LEMMA PreprocessKeepsPrimary ==
    ASSUME PdfInv, NEW e \in Entries, Preprocess(e), e.doc = "Main"
    PROVE  /\ PrimarySorted'
           /\ metadata' = [metadata EXCEPT !.primary = metadata'.primary]
           /\ Kept(metadata.primary, metadata'.primary, {<<"PDF", "FileSize">>})
<1> DEFINE key == SortedAs(e.key)
           n == Len(raw) + 1
<1>1. raw' = Append(raw, e) /\ metadata' = PreprocessPrimary(metadata, e)
  BY DEF Preprocess
<1>2. /\ \A i \in DOMAIN raw : i \in DOMAIN raw' /\ raw'[i] = raw[i]
      /\ \A i \in DOMAIN raw' : i \in DOMAIN raw \/ i = n
      /\ n \in DOMAIN raw' /\ raw'[n] = e
  <2>1. Shape
    BY DEF PdfInv
  <2>2. raw' = Append(raw, e)
    BY <1>1
  <2> QED BY <2>1, <2>2, ReadOneMore
<1>3. metadata = [primary |-> metadata.primary, embeds |-> metadata.embeds,
                  order |-> metadata.order]
  BY DEF PdfInv, Shape
<1>4. CASE Dropped(e.key)
  <2>1. metadata' = metadata
    BY <1>1, <1>4, KeysDiffer DEF PreprocessPrimary, Dropped
  <2>2. OfPrimary' = OfPrimary
    BY <1>2, <1>4 DEF OfPrimary
  <2>3. \A i \in OfPrimary : raw'[i] = raw[i]
    BY <1>2 DEF OfPrimary
  <2>4. PrimarySorted'
    BY <2>1, <2>2, <2>3 DEF PdfInv, PrimarySorted
  <2> QED BY <1>3, <2>1, <2>4 DEF Kept
<1>5. CASE ~Dropped(e.key)
  <2>1. metadata' = [metadata EXCEPT !.primary = Put(metadata.primary, key, e.value)]
    BY <1>1, <1>5, KeysDiffer DEF PreprocessPrimary, Dropped, SortedAs
  <2>2. metadata'.primary = Put(metadata.primary, key, e.value)
    BY <1>3, <2>1
  <2>3. /\ DOMAIN metadata'.primary = DOMAIN metadata.primary \cup {key}
        /\ metadata'.primary[key] = e.value
        /\ \A k \in DOMAIN metadata.primary : k # key => metadata'.primary[k] = metadata.primary[k]
    BY <2>2 DEF Put
  <2>4. OfPrimary' = OfPrimary \cup {n}
    BY <1>2, <1>5 DEF OfPrimary
  <2>5. \A i \in OfPrimary : raw'[i] = raw[i]
    BY <1>2 DEF OfPrimary
  <2>6. PrimarySorted'
    <3>1. ASSUME NEW i \in OfPrimary'
          PROVE  SortedAs(raw'[i].key) \in DOMAIN metadata'.primary
      BY <1>2, <2>3, <2>4, <2>5 DEF PdfInv, PrimarySorted
    <3>2. ASSUME NEW k \in DOMAIN metadata'.primary
          PROVE  \E i \in OfPrimary' : /\ SortedAs(raw'[i].key) = k
                                       /\ metadata'.primary[k] = raw'[i].value
      <4>1. CASE k = key
        BY <1>2, <2>3, <2>4, <4>1
      <4>2. CASE k # key
        <5>1. PICK i \in OfPrimary : /\ SortedAs(raw[i].key) = k
                                     /\ metadata.primary[k] = raw[i].value
          BY <2>3, <4>2 DEF PdfInv, PrimarySorted
        <5> QED BY <2>3, <2>4, <2>5, <4>2, <5>1
      <4> QED BY <4>1, <4>2
    <3> QED BY <3>1, <3>2 DEF PrimarySorted
  <2>7. ASSUME NEW k \in DOMAIN metadata.primary \ {<<"PDF", "FileSize">>}, k = key
        PROVE  FALSE
    <3>1. PICK i \in OfPrimary : SortedAs(raw[i].key) = k
      BY DEF PdfInv, PrimarySorted
    <3>2. raw[i].key = e.key /\ raw[i].doc = e.doc /\ i \in DOMAIN raw
      BY <2>7, <3>1 DEF SortedAs, OfPrimary
    <3> QED BY <3>2 DEF Preprocess
  <2>8. Kept(metadata.primary, metadata'.primary, {<<"PDF", "FileSize">>})
    BY <2>3, <2>7 DEF Kept
  <2> QED BY <1>3, <2>1, <2>2, <2>6, <2>8
<1> QED BY <1>4, <1>5

\* A field of an embedded document goes into the dictionary of that document, which
\* is made and put last in the order when its first field comes.
LEMMA PreprocessKeepsEmbeds ==
    ASSUME PdfInv, NEW e \in Entries, Preprocess(e), e.doc # "Main"
    PROVE  /\ metadata' = [primary |-> metadata.primary, embeds |-> metadata'.embeds,
                           order |-> metadata'.order]
           /\ DOMAIN metadata'.embeds = DOMAIN metadata.embeds \cup {e.doc}
           /\ \A d \in DOMAIN metadata.embeds :
                 d # e.doc => metadata'.embeds[d] = metadata.embeds[d]
           /\ metadata'.embeds[e.doc] =
                 Put(IF e.doc \in DOMAIN metadata.embeds THEN metadata.embeds[e.doc] ELSE Empty,
                     e.key, e.value)
           /\ metadata'.order = IF e.doc \in DOMAIN metadata.embeds THEN metadata.order
                                                           ELSE Append(metadata.order, e.doc)
<1>1. metadata' = PreprocessEmbed(metadata, e)
  BY DEF Preprocess
<1>2. metadata = [primary |-> metadata.primary, embeds |-> metadata.embeds,
                  order |-> metadata.order]
  BY DEF PdfInv, Shape
<1>3. CASE e.doc \in DOMAIN metadata.embeds
  <2>1. metadata' = [metadata EXCEPT !.embeds[e.doc] =
                                        Put(metadata.embeds[e.doc], e.key, e.value)]
    BY <1>1, <1>3 DEF PreprocessEmbed
  <2>2. metadata'.embeds = [metadata.embeds EXCEPT ![e.doc] =
                                        Put(metadata.embeds[e.doc], e.key, e.value)]
    BY <1>2, <2>1
  <2>3. metadata'.primary = metadata.primary /\ metadata'.order = metadata.order
    BY <1>2, <2>1
  <2>4. metadata' = [primary |-> metadata'.primary, embeds |-> metadata'.embeds,
                     order |-> metadata'.order]
    BY <1>2, <2>1
  <2> QED BY <1>3, <2>2, <2>3, <2>4
<1>4. CASE e.doc \notin DOMAIN metadata.embeds
  <2> DEFINE new == Put(Empty, e.key, e.value)
  <2>1. metadata' = [metadata EXCEPT !.embeds = Put(metadata.embeds, e.doc, new),
                                     !.order = Append(metadata.order, e.doc)]
    BY <1>1, <1>4 DEF PreprocessEmbed
  <2>2. /\ metadata'.embeds = Put(metadata.embeds, e.doc, new)
        /\ metadata'.order = Append(metadata.order, e.doc)
        /\ metadata'.primary = metadata.primary
    BY <1>2, <2>1
  <2>3. metadata' = [primary |-> metadata'.primary, embeds |-> metadata'.embeds,
                     order |-> metadata'.order]
    BY <1>2, <2>1
  <2> HIDE DEF new
  <2>4. /\ DOMAIN metadata'.embeds = DOMAIN metadata.embeds \cup {e.doc}
        /\ metadata'.embeds[e.doc] = new
        /\ \A d \in DOMAIN metadata.embeds :
              d # e.doc => metadata'.embeds[d] = metadata.embeds[d]
    BY <2>2 DEF Put
  <2> QED BY <1>4, <2>2, <2>3, <2>4 DEF new
<1> QED BY <1>3, <1>4

LEMMA PreprocessSortsEmbeds ==
    ASSUME PdfInv, NEW e \in Entries, Preprocess(e), e.doc # "Main"
    PROVE  /\ EmbedsSorted'
           /\ \A d \in DOMAIN metadata.embeds :
                 /\ d \in DOMAIN metadata'.embeds
                 /\ Kept(metadata.embeds[d], metadata'.embeds[d], {})
<1> DEFINE n == Len(raw) + 1
           old == IF e.doc \in DOMAIN metadata.embeds THEN metadata.embeds[e.doc] ELSE Empty
<1>1. raw' = Append(raw, e) /\ Shape
  BY DEF Preprocess, PdfInv
<1>2. /\ \A i \in DOMAIN raw : i \in DOMAIN raw' /\ raw'[i] = raw[i]
      /\ \A i \in DOMAIN raw' : i \in DOMAIN raw \/ i = n
      /\ n \in DOMAIN raw' /\ raw'[n] = e
  BY <1>1, ReadOneMore
<1>3. /\ DOMAIN metadata'.embeds = DOMAIN metadata.embeds \cup {e.doc}
      /\ \A d \in DOMAIN metadata.embeds :
            d # e.doc => metadata'.embeds[d] = metadata.embeds[d]
      /\ metadata'.embeds[e.doc] = Put(old, e.key, e.value)
  BY PreprocessKeepsEmbeds
<1>4. /\ DOMAIN metadata'.embeds[e.doc] = DOMAIN old \cup {e.key}
      /\ metadata'.embeds[e.doc][e.key] = e.value
      /\ \A k \in DOMAIN old : k # e.key => metadata'.embeds[e.doc][k] = old[k]
  BY <1>3 DEF Put
<1>5. DOMAIN Empty = {}
  BY DEF Empty
\* The field is a new one of its document.
<1>6. e.key \notin DOMAIN old
  <2>1. SUFFICES ASSUME e.doc \in DOMAIN metadata.embeds, e.key \in DOMAIN metadata.embeds[e.doc]
                 PROVE  FALSE
    BY <1>5
  <2>2. PICK i \in DOMAIN raw : raw[i].doc = e.doc /\ raw[i].key = e.key
    BY <2>1 DEF PdfInv, EmbedsSorted
  <2> QED BY <2>2 DEF Preprocess
<1> HIDE DEF n
<1>7. ASSUME NEW i \in DOMAIN raw', raw'[i].doc # "Main"
      PROVE  /\ raw'[i].doc \in DOMAIN metadata'.embeds
             /\ raw'[i].key \in DOMAIN metadata'.embeds[raw'[i].doc]
             /\ metadata'.embeds[raw'[i].doc][raw'[i].key] = raw'[i].value
  <2>1. CASE i = n
    BY <1>2, <1>3, <1>4, <2>1
  <2>2. CASE i \in DOMAIN raw
    <3>1. /\ raw'[i] = raw[i]
          /\ raw[i].doc \in DOMAIN metadata.embeds
          /\ raw[i].key \in DOMAIN metadata.embeds[raw[i].doc]
          /\ metadata.embeds[raw[i].doc][raw[i].key] = raw[i].value
      BY <1>2, <1>7, <2>2 DEF PdfInv, EmbedsSorted
    <3>2. CASE raw[i].doc # e.doc
      BY <1>3, <3>1, <3>2
    <3>3. CASE raw[i].doc = e.doc
      <4>1. old = metadata.embeds[e.doc] /\ raw[i].key \in DOMAIN old /\ raw[i].key # e.key
        BY <1>6, <3>1, <3>3
      <4>2. /\ raw[i].key \in DOMAIN metadata'.embeds[e.doc]
            /\ metadata'.embeds[e.doc][raw[i].key] = old[raw[i].key]
        BY <1>4, <4>1
      <4> HIDE DEF old
      <4> QED BY <1>3, <3>1, <3>3, <4>1, <4>2
    <3> QED BY <3>2, <3>3
  <2> QED BY <1>2, <2>1, <2>2
<1>8. ASSUME NEW d \in DOMAIN metadata'.embeds
      PROVE  /\ d \in Embedded'
             /\ \A key \in DOMAIN metadata'.embeds[d] :
                   \E i \in DOMAIN raw' : raw'[i].doc = d /\ raw'[i].key = key
  <2>1. ASSUME d \in DOMAIN metadata.embeds
        PROVE  /\ d \in Embedded
               /\ \A key \in DOMAIN metadata.embeds[d] :
                     \E i \in DOMAIN raw' : raw'[i].doc = d /\ raw'[i].key = key
    <3>1. EmbedsSorted
      BY DEF PdfInv
    <3>2. /\ d \in Embedded
          /\ \A key \in DOMAIN metadata.embeds[d] :
                \E i \in DOMAIN raw : raw[i].doc = d /\ raw[i].key = key
      BY <2>1, <3>1, Zenon DEF EmbedsSorted
    <3> QED BY <1>2, <3>2
  <2>2. d \in DOMAIN metadata.embeds => d \in Embedded'
    <3>1. Embedded \subseteq Embedded'
      BY <1>2 DEF Embedded
    <3> QED BY <2>1, <3>1
  <2>3. CASE d # e.doc
    BY <1>3, <2>1, <2>2, <2>3
  <2>4. CASE d = e.doc
    <3>1. d \in Embedded'
      BY <1>2, <2>4 DEF Embedded
    <3>2. ASSUME NEW key \in DOMAIN metadata'.embeds[d]
          PROVE  \E i \in DOMAIN raw' : raw'[i].doc = d /\ raw'[i].key = key
      <4>1. CASE key = e.key
        BY <1>2, <2>4, <4>1
      <4>2. CASE key # e.key
        <5>1. key \in DOMAIN old
          BY <1>4, <2>4, <3>2, <4>2
        <5>2. d \in DOMAIN metadata.embeds /\ key \in DOMAIN metadata.embeds[d]
          BY <1>5, <2>4, <5>1
        <5> QED BY <2>1, <5>2
      <4> QED BY <4>1, <4>2
    <3> QED BY <3>1, <3>2
  <2> QED BY <2>3, <2>4
<1>9. EmbedsSorted'
  BY <1>7, <1>8 DEF EmbedsSorted
<1>10. ASSUME NEW d \in DOMAIN metadata.embeds
       PROVE  d \in DOMAIN metadata'.embeds /\ Kept(metadata.embeds[d], metadata'.embeds[d], {})
  <2>1. CASE d # e.doc
    BY <1>3, <2>1 DEF Kept
  <2>2. CASE d = e.doc
    <3>1. old = metadata.embeds[d]
      BY <2>2
    <3>2. \A k \in DOMAIN old : k # e.key
      BY <1>6
    <3> QED BY <1>3, <1>4, <2>2, <3>1, <3>2 DEF Kept
  <2> QED BY <2>1, <2>2
<1> QED BY <1>9, <1>10

\* A document whose first field comes is behind all others, of which there are fields.
LEMMA PreprocessKeepsOrder ==
    ASSUME PdfInv, NEW e \in Entries, Preprocess(e), e.doc # "Main"
    PROVE  /\ OrderKept'
           /\ metadata'.order \in Seq(DOMAIN metadata'.embeds)
<1>1. raw' = Append(raw, e) /\ Shape /\ EmbedsSorted /\ OrderKept
  BY DEF Preprocess, PdfInv
<1>2. /\ DOMAIN metadata'.embeds = DOMAIN metadata.embeds \cup {e.doc}
      /\ metadata'.order = IF e.doc \in DOMAIN metadata.embeds THEN metadata.order
                                                      ELSE Append(metadata.order, e.doc)
  BY PreprocessKeepsEmbeds
<1>3. metadata.order \in Seq(DOMAIN metadata.embeds)
  BY <1>1 DEF Shape
<1>4. metadata.order \in Seq(DOMAIN metadata'.embeds)
  BY <1>2, <1>3
<1>5. ASSUME NEW d1, NEW d2, Before(raw, d1, d2) PROVE Before(raw', d1, d2)
  BY <1>1, <1>5, BeforeStays
<1>6. CASE e.doc \in DOMAIN metadata.embeds
  <2>1. metadata'.order = metadata.order /\ DOMAIN metadata'.embeds = DOMAIN metadata.embeds
    BY <1>2, <1>6
  <2> QED BY <1>1, <1>3, <1>5, <2>1 DEF OrderKept
<1>7. CASE e.doc \notin DOMAIN metadata.embeds
  <2> DEFINE docs == metadata.order
  <2>1. metadata'.order = Append(docs, e.doc) /\ e.doc \in DOMAIN metadata'.embeds
    BY <1>2, <1>7
  <2>2. metadata'.order \in Seq(DOMAIN metadata'.embeds)
    <3> DEFINE S == DOMAIN metadata'.embeds
    <3>1. docs \in Seq(S) /\ e.doc \in S
      BY <1>4, <2>1
    <3> HIDE DEF S, docs
    <3>2. Append(docs, e.doc) \in Seq(S)
      BY <3>1
    <3> QED BY <2>1, <3>2 DEF S
  <2>3. /\ Len(docs) \in Nat /\ DOMAIN docs = 1..Len(docs)
        /\ DOMAIN metadata'.order = 1..(Len(docs) + 1)
        /\ \A i \in DOMAIN docs : metadata'.order[i] = docs[i]
        /\ metadata'.order[Len(docs) + 1] = e.doc
    BY <1>4, <2>1
  <2>4. ASSUME NEW d \in DOMAIN metadata.embeds PROVE Before(raw', d, e.doc)
    <3>1. PICK i \in DOMAIN raw : raw[i].doc = d
      BY <1>1 DEF EmbedsSorted, Embedded
    <3>2. /\ Len(raw) \in Nat /\ DOMAIN raw = 1..Len(raw)
          /\ \A k \in DOMAIN raw : k \in DOMAIN raw' /\ raw'[k] = raw[k]
      BY <1>1, ReadOneMore
    <3>3. \A k \in DOMAIN raw : raw[k].doc # e.doc
      BY <1>1, <1>7 DEF EmbedsSorted
    <3>4. \A k \in 1..i : k \in DOMAIN raw
      BY <3>1, <3>2
    <3>5. i \in DOMAIN raw' /\ raw'[i].doc = d /\ \A k \in 1..i : raw'[k].doc # e.doc
      BY <3>1, <3>2, <3>3, <3>4
    <3> QED BY <3>5 DEF Before
  <2>5. ASSUME NEW d \in DOMAIN metadata'.embeds
        PROVE  \E n \in DOMAIN metadata'.order : metadata'.order[n] = d
    <3>1. CASE d = e.doc
      BY <2>3, <3>1
    <3>2. CASE d \in DOMAIN metadata.embeds
      <4>1. PICK n \in DOMAIN docs : docs[n] = d
        BY <1>1, <3>2 DEF OrderKept
      <4> QED BY <2>3, <4>1
    <3> QED BY <1>2, <3>1, <3>2
  <2>6. ASSUME NEW m \in DOMAIN metadata'.order, NEW n \in DOMAIN metadata'.order, m < n
        PROVE  Before(raw', metadata'.order[m], metadata'.order[n])
    <3> HIDE DEF docs
    <3>1. m \in DOMAIN docs /\ metadata'.order[m] = docs[m]
      BY <2>3, <2>6
    <3>2. CASE n \in DOMAIN docs
      <4>1. metadata'.order[n] = docs[n] /\ Before(raw, docs[m], docs[n])
        BY <1>1, <2>3, <2>6, <3>1, <3>2 DEF OrderKept, docs
      <4> QED BY <1>5, <3>1, <4>1
    <3>3. CASE n = Len(docs) + 1
      <4>1. metadata'.order[n] = e.doc /\ docs[m] \in DOMAIN metadata.embeds
        BY <1>3, <2>3, <3>1, <3>3 DEF docs
      <4> QED BY <2>4, <3>1, <4>1
    <3> QED BY <2>3, <3>2, <3>3
  <2> QED BY <2>2, <2>5, <2>6 DEF OrderKept
<1> QED BY <1>6, <1>7

LEMMA PreprocessStep ==
    ASSUME PdfInv, NEW e \in Entries, Preprocess(e) PROVE PdfInv'
<1>1. raw' = Append(raw, e) /\ Shape
  BY DEF Preprocess, PdfInv
<1>2. /\ \A i \in DOMAIN raw : i \in DOMAIN raw' /\ raw'[i] = raw[i]
      /\ \A i \in DOMAIN raw' : i \in DOMAIN raw \/ i = Len(raw) + 1
      /\ Len(raw) + 1 \in DOMAIN raw' /\ raw'[Len(raw) + 1] = e
      /\ raw' \in Seq(Entries)
  BY <1>1, ReadOneMore
<1>3. /\ ~processing /\ processing' = FALSE /\ left' = {} /\ visited' = 0 /\ shown' = shown
      /\ shown = [primary |-> Empty, embeds |-> <<>>]
  BY <1>1 DEF Preprocess, Shape
<1>4. metadata = [primary |-> metadata.primary, embeds |-> metadata.embeds,
                  order |-> metadata.order]
  BY <1>1 DEF Shape
<1>5. PrimaryShown'
  BY <1>3 DEF PrimaryShown
<1>6. EmbedsShown'
  <2>1. DOMAIN shown'.embeds = {} /\ 1..visited' = {}
    BY <1>3
  <2>2. Empty \in [{} -> {}] /\ DOMAIN Empty = {}
    BY DEF Empty
  <2>3. Numbering(Empty)'
    BY <2>1, <2>2 DEF Numbering
  <2> QED BY <2>1, <2>2, <2>3 DEF EmbedsShown
<1>7. CASE e.doc = "Main"
  <2>1. PrimarySorted' /\ metadata' = [metadata EXCEPT !.primary = metadata'.primary]
    BY <1>7, PreprocessKeepsPrimary
  <2>2. /\ metadata'.embeds = metadata.embeds /\ metadata'.order = metadata.order
        /\ metadata' = [primary |-> metadata'.primary, embeds |-> metadata'.embeds,
                        order |-> metadata'.order]
    BY <1>4, <2>1
  <2>3. EmbedsSorted'
    <3>1. EmbedsSorted
      BY DEF PdfInv
    <3>2. Embedded \subseteq Embedded'
      BY <1>2 DEF Embedded
    <3>3. ASSUME NEW i \in DOMAIN raw', raw'[i].doc # "Main"
          PROVE  i \in DOMAIN raw /\ raw'[i] = raw[i]
      BY <1>2, <1>7, <3>3
    <3>4. ASSUME NEW i \in DOMAIN raw', raw'[i].doc # "Main"
          PROVE  /\ raw'[i].doc \in DOMAIN metadata.embeds
                 /\ raw'[i].key \in DOMAIN metadata.embeds[raw'[i].doc]
                 /\ metadata.embeds[raw'[i].doc][raw'[i].key] = raw'[i].value
      BY <3>1, <3>3, <3>4 DEF EmbedsSorted
    <3>5. ASSUME NEW d \in DOMAIN metadata.embeds
          PROVE  /\ d \in Embedded
                 /\ \A key \in DOMAIN metadata.embeds[d] :
                       \E i \in DOMAIN raw : raw[i].doc = d /\ raw[i].key = key
      BY <3>1, Zenon DEF EmbedsSorted
    <3>6. ASSUME NEW d \in DOMAIN metadata.embeds
          PROVE  /\ d \in Embedded'
                 /\ \A key \in DOMAIN metadata.embeds[d] :
                       \E i \in DOMAIN raw' : raw'[i].doc = d /\ raw'[i].key = key
      BY <1>2, <3>2, <3>5
    <3> QED BY <2>2, <3>4, <3>6 DEF EmbedsSorted
  <2>4. OrderKept'
    <3>1. OrderKept
      BY DEF PdfInv
    <3>2. ASSUME NEW d1, NEW d2, Before(raw, d1, d2) PROVE Before(raw', d1, d2)
      BY <1>1, <3>2, BeforeStays
    <3> QED BY <2>2, <3>1, <3>2 DEF OrderKept
  <2>5. Shape'
    <3>1. (shown.embeds \in Seq({ShownEmbed(d) : d \in DOMAIN metadata.embeds}))'
      BY <1>3
    <3>2. left' \subseteq DOMAIN metadata'.primary /\ visited' \in 0..Len(metadata'.order)
      BY <1>1, <1>3, <2>2 DEF Shape
    <3>3. metadata'.order \in Seq(DOMAIN metadata'.embeds)
      BY <1>1, <2>2 DEF Shape
    <3>4. shown' = [primary |-> shown'.primary, embeds |-> shown'.embeds]
      BY <1>3
    <3> QED BY <1>2, <1>3, <2>2, <3>1, <3>2, <3>3, <3>4 DEF Shape
  <2> QED BY <1>5, <1>6, <2>1, <2>3, <2>4, <2>5 DEF PdfInv
<1>8. CASE e.doc # "Main"
  <2>1. /\ metadata' = [primary |-> metadata.primary, embeds |-> metadata'.embeds,
                        order |-> metadata'.order]
        /\ EmbedsSorted' /\ OrderKept' /\ metadata'.order \in Seq(DOMAIN metadata'.embeds)
    BY <1>8, PreprocessKeepsEmbeds, PreprocessSortsEmbeds, PreprocessKeepsOrder
  <2>2. metadata'.primary = metadata.primary
    BY <2>1
  <2>3. OfPrimary' = OfPrimary /\ \A i \in OfPrimary : raw'[i] = raw[i]
    BY <1>2, <1>8 DEF OfPrimary
  <2>4. PrimarySorted'
    BY <2>2, <2>3 DEF PrimarySorted, PdfInv
  <2>5. Shape'
    <3>1. (shown.embeds \in Seq({ShownEmbed(d) : d \in DOMAIN metadata.embeds}))'
      BY <1>3
    <3>2. visited' \in 0..Len(metadata'.order)
      BY <1>3, <2>1
    <3>3. metadata' = [primary |-> metadata'.primary, embeds |-> metadata'.embeds,
                       order |-> metadata'.order]
      BY <2>1, <2>2
    <3>4. shown' = [primary |-> shown'.primary, embeds |-> shown'.embeds]
      BY <1>3
    <3> QED BY <1>2, <1>3, <2>1, <3>1, <3>2, <3>3, <3>4 DEF Shape
  <2> QED BY <1>5, <1>6, <2>1, <2>4, <2>5 DEF PdfInv
<1> QED BY <1>7, <1>8

\* The plugin changes nothing of what the script made.
LEMMA SortedStays ==
    ASSUME PdfInv, raw' = raw, metadata' = metadata
    PROVE  /\ PrimarySorted' /\ EmbedsSorted' /\ OrderKept'
           /\ visited' = visited /\ shown'.embeds = shown.embeds => EmbedsShown'
<1>1. PrimarySorted'
  BY DEF PdfInv, PrimarySorted, OfPrimary
<1>2. EmbedsSorted'
  <2>1. EmbedsSorted
    BY DEF PdfInv
  <2> QED BY <2>1 DEF EmbedsSorted, Embedded
<1>3. OrderKept'
  BY DEF PdfInv, OrderKept
<1>4. ASSUME visited' = visited, shown'.embeds = shown.embeds PROVE EmbedsShown'
  <2>1. \A d : ShownEmbed(d)' = ShownEmbed(d)
    BY DEF ShownEmbed
  <2>2. PICK pos \in [DOMAIN shown.embeds -> 1..visited] : Numbering(pos)
    BY DEF PdfInv, EmbedsShown
  <2>3. Numbering(pos)'
    BY <1>4, <2>1, <2>2 DEF Numbering, ShownEmbed
  <2> QED BY <1>4, <2>2, <2>3 DEF EmbedsShown
<1> QED BY <1>1, <1>2, <1>3, <1>4

LEMMA StartProcessingStep == ASSUME PdfInv, StartProcessing PROVE PdfInv'
<1>1. /\ ~processing /\ processing' = TRUE /\ left' = DOMAIN metadata.primary
      /\ raw' = raw /\ metadata' = metadata /\ visited' = visited /\ shown' = shown
  BY DEF StartProcessing
<1>2. shown.primary = Empty /\ DOMAIN Empty = {} /\ Shape
  BY <1>1 DEF PdfInv, Shape, Empty
<1>3. PrimarySorted' /\ EmbedsSorted' /\ OrderKept' /\ EmbedsShown'
  BY <1>1, SortedStays
<1>4. PrimaryShown'
  BY <1>1, <1>2 DEF PrimaryShown
<1>5. Shape'
  BY <1>1, <1>2 DEF Shape, ShownEmbed
<1> QED BY <1>3, <1>4, <1>5 DEF PdfInv

\* A round of the first loop shows a visible key under its new name, or nothing.
LEMMA PrimaryFieldShows ==
    ASSUME NEW fields, NEW key, NEW value
    PROVE  PrimaryField(fields, key, value) =
              IF Visible(key) THEN Put(fields, Renamed(key), value) ELSE fields
<1>1. CASE key[1] = "none"
  <2> DEFINE field == <<"File", key[2]>>
  <2>1. field[1] = "File" /\ field \notin SchemaKeys /\ key \notin SchemaKeys
    BY <1>1, KeysDiffer
  <2>2. SchemasSchema \in SchemaKeys
    BY DEF SchemaKeys
  <2>3. PrimaryField(fields, key, value) = Put(fields, field, value)
    BY <1>1, <2>1, <2>2 DEF PrimaryField, PrimaryFieldNaming
  <2>4. Visible(key) /\ Renamed(key) = field
    BY <1>1, <2>1, <2>2 DEF Visible, Renamed
  <2> QED BY <2>3, <2>4
<1>2. CASE key[1] # "none"
  <2>1. SchemasSchema[1] = "XMP" /\ SchemasSchema \in SchemaKeys
    BY KeysDiffer DEF SchemaKeys
  <2> QED BY <1>2, <2>1 DEF PrimaryField, PrimaryFieldNaming, Visible, Renamed
<1> QED BY <1>1, <1>2

LEMMA ShowPrimaryStep == ASSUME PdfInv, NEW key \in left, ShowPrimary(key) PROVE PdfInv'
<1>1. /\ left' = left \ {key} /\ raw' = raw /\ metadata' = metadata
      /\ processing' = processing /\ visited' = visited
      /\ shown' = [shown EXCEPT !.primary =
                      PrimaryField(shown.primary, key, metadata.primary[key])]
  BY DEF ShowPrimary
<1>2. /\ Shape /\ processing /\ key \in DOMAIN metadata.primary
      /\ shown = [primary |-> shown.primary, embeds |-> shown.embeds]
  BY DEF PdfInv, Shape
<1>3. /\ shown'.primary = IF Visible(key)
                            THEN Put(shown.primary, Renamed(key), metadata.primary[key])
                            ELSE shown.primary
      /\ shown'.embeds = shown.embeds
      /\ shown' = [primary |-> shown'.primary, embeds |-> shown'.embeds]
  BY <1>1, <1>2, PrimaryFieldShows
<1>4. PrimarySorted' /\ EmbedsSorted' /\ OrderKept' /\ EmbedsShown'
  BY <1>1, <1>3, SortedStays
<1>5. Shape'
  BY <1>1, <1>2, <1>3 DEF Shape, ShownEmbed
<1>6. PrimaryShown'
  <2> DEFINE done == DOMAIN metadata.primary \ left
  <2>1. DOMAIN metadata'.primary \ left' = done \cup {key} /\ key \notin done
    BY <1>1, <1>2
  <2>2. /\ \A k \in done : Visible(k) => Renamed(k) \in DOMAIN shown.primary
        /\ \A field \in DOMAIN shown.primary :
              \E k \in done : /\ Visible(k) /\ Renamed(k) = field
                              /\ shown.primary[field] = metadata.primary[k]
    BY <1>2 DEF PdfInv, PrimaryShown
  <2> HIDE DEF done
  <2>3. CASE ~Visible(key)
    <3>1. shown'.primary = shown.primary
      BY <1>3, <2>3
    <3> QED BY <1>1, <2>1, <2>2, <2>3, <3>1 DEF PrimaryShown
  <2>4. CASE Visible(key)
    <3>1. /\ DOMAIN shown'.primary = DOMAIN shown.primary \cup {Renamed(key)}
          /\ shown'.primary[Renamed(key)] = metadata.primary[key]
          /\ \A f \in DOMAIN shown.primary :
                f # Renamed(key) => shown'.primary[f] = shown.primary[f]
      BY <1>3, <2>4 DEF Put
    <3>2. ASSUME NEW k \in done \cup {key}, Visible(k)
          PROVE  Renamed(k) \in DOMAIN shown'.primary
      BY <2>2, <3>1, <3>2
    <3>3. ASSUME NEW f \in DOMAIN shown'.primary
          PROVE  \E k \in done \cup {key} : /\ Visible(k) /\ Renamed(k) = f
                                            /\ shown'.primary[f] = metadata.primary[k]
      <4>1. CASE f = Renamed(key)
        BY <2>4, <3>1, <4>1
      <4>2. CASE f # Renamed(key)
        BY <2>2, <3>1, <4>2
      <4> QED BY <4>1, <4>2
    <3> QED BY <1>1, <2>1, <3>2, <3>3 DEF PrimaryShown
  <2> QED BY <2>3, <2>4
<1> QED BY <1>4, <1>5, <1>6 DEF PdfInv

LEMMA ShowEmbedStep == ASSUME PdfInv, ShowEmbed PROVE PdfInv' /\ Kept(shown.embeds, shown'.embeds, {})
<1> DEFINE new == ShownEmbed(metadata.order[visited + 1])
           S == {ShownEmbed(d) : d \in DOMAIN metadata.embeds}
           l == Len(shown.embeds)
<1>1. /\ processing /\ left = {} /\ visited < Len(metadata.order) /\ visited' = visited + 1
      /\ raw' = raw /\ metadata' = metadata /\ processing' = processing /\ left' = left
      /\ shown' = [shown EXCEPT !.embeds = Attach(shown.embeds, new)]
  BY DEF ShowEmbed, ShownEmbed
<1>2. /\ Shape /\ shown = [primary |-> shown.primary, embeds |-> shown.embeds]
      /\ shown.embeds \in Seq(S) /\ visited \in 0..Len(metadata.order)
      /\ metadata.order \in Seq(DOMAIN metadata.embeds)
  BY DEF PdfInv, Shape
<1>3. /\ shown'.embeds = IF DOMAIN new.fields = {} THEN shown.embeds
                                                   ELSE Append(shown.embeds, new)
      /\ shown'.primary = shown.primary
      /\ shown' = [primary |-> shown'.primary, embeds |-> shown'.embeds]
  BY <1>1, <1>2 DEF Attach
<1>4. /\ Len(metadata.order) \in Nat /\ visited \in Nat /\ visited' \in Nat
      /\ visited' \in 0..Len(metadata.order)
      /\ metadata.order[visited + 1] \in DOMAIN metadata.embeds
  <2>1. Len(metadata.order) \in Nat /\ visited + 1 \in 1..Len(metadata.order)
    BY <1>1, <1>2
  <2>2. metadata.order[visited + 1] \in DOMAIN metadata.embeds
    BY <1>2, <2>1
  <2>3. visited \in Nat /\ visited + 1 \in Nat /\ visited + 1 \in 0..Len(metadata.order)
    BY <1>1, <1>2, <2>1
  <2> QED BY <1>1, <2>1, <2>2, <2>3
<1>5. new \in S
  BY <1>4
<1>6. PICK pos \in [DOMAIN shown.embeds -> 1..visited] : Numbering(pos)
  BY DEF PdfInv, EmbedsShown
<1>7. PrimarySorted' /\ EmbedsSorted' /\ OrderKept' /\ PrimaryShown'
  <2>1. PrimaryShown'
    BY <1>1, <1>3 DEF PdfInv, PrimaryShown
  <2> QED BY <1>1, <2>1, SortedStays
<1>8. \A i \in 1..visited' : i \in 1..visited \/ i = visited + 1
  BY <1>1, <1>4
<1>9. /\ \A d : ShownEmbed(d)' = ShownEmbed(d)
      /\ S' = S
  BY <1>1 DEF ShownEmbed
<1>10. /\ \A i \in 1..visited : DOMAIN ShownEmbed(metadata.order[i]).fields # {} =>
                                   \E n \in DOMAIN pos : pos[n] = i
       /\ \A m, n \in DOMAIN pos : m < n => pos[m] < pos[n]
       /\ \A n \in DOMAIN pos : /\ shown.embeds[n] = ShownEmbed(metadata.order[pos[n]])
                                /\ DOMAIN shown.embeds[n].fields # {}
  BY <1>6 DEF Numbering
<1> HIDE DEF new, S
<1>11. CASE DOMAIN new.fields = {}
  <2>1. shown'.embeds = shown.embeds
    BY <1>3, <1>11
  <2>2. Shape'
    BY <1>1, <1>2, <1>3, <1>4, <1>9, <2>1 DEF Shape, S
  <2>3. pos \in [DOMAIN shown'.embeds -> 1..visited']
    BY <1>1, <1>4, <2>1
  <2>4. \A i \in 1..visited' : DOMAIN ShownEmbed(metadata.order[i]).fields # {} =>
                                  \E n \in DOMAIN pos : pos[n] = i
    BY <1>8, <1>10, <1>11 DEF new
  <2>5. Numbering(pos)'
    BY <1>1, <1>9, <1>10, <2>1, <2>4 DEF Numbering, ShownEmbed
  <2>6. Kept(shown.embeds, shown'.embeds, {})
    BY <2>1 DEF Kept
  <2> QED BY <1>7, <2>2, <2>3, <2>5, <2>6 DEF PdfInv, EmbedsShown
<1>12. CASE DOMAIN new.fields # {}
  <2> DEFINE next == [n \in 1..(l + 1) |-> IF n = l + 1 THEN visited + 1 ELSE pos[n]]
  <2>1. shown'.embeds = Append(shown.embeds, new)
    BY <1>3, <1>12
  <2>2. /\ l \in Nat /\ DOMAIN shown.embeds = 1..l
        /\ shown'.embeds \in Seq(S) /\ DOMAIN shown'.embeds = 1..(l + 1)
        /\ \A n \in 1..l : n # l + 1 /\ n \in 1..(l + 1) /\ shown'.embeds[n] = shown.embeds[n]
        /\ shown'.embeds[l + 1] = new
        /\ \A n \in 1..(l + 1) : n \in 1..l \/ n = l + 1
    BY <1>2, <1>5, <2>1
  <2>3. Shape'
    BY <1>1, <1>2, <1>3, <1>4, <1>9, <2>2 DEF Shape, S
  <2>4. DOMAIN pos = 1..l /\ \A n \in 1..l : pos[n] \in 1..visited
    BY <1>6, <2>2
  <2> HIDE DEF l
  <2>5. DOMAIN next = 1..(l + 1) /\ next[l + 1] = visited + 1 /\ \A n \in 1..l : next[n] = pos[n]
    BY <2>2
  <2>6. next \in [DOMAIN shown'.embeds -> 1..visited']
    <3>1. \A n \in 1..(l + 1) : next[n] \in 1..visited'
      BY <1>1, <1>4, <2>2, <2>4, <2>5
    <3> QED BY <2>2, <3>1
  <2> HIDE DEF next
  <2>7. ASSUME NEW i \in 1..visited', DOMAIN ShownEmbed(metadata.order[i]).fields # {}
        PROVE  \E n \in DOMAIN next : next[n] = i
    <3>1. CASE i = visited + 1
      BY <2>2, <2>5, <3>1
    <3>2. CASE i \in 1..visited
      <4>1. PICK n \in DOMAIN pos : pos[n] = i
        BY <1>10, <2>7, <3>2
      <4> QED BY <2>2, <2>4, <2>5, <4>1
    <3> QED BY <1>8, <3>1, <3>2
  <2>8. ASSUME NEW m \in DOMAIN next, NEW n \in DOMAIN next, m < n
        PROVE  next[m] < next[n]
    <3>1. m \in 1..l
      BY <2>2, <2>5, <2>8
    <3>2. CASE n = l + 1
      BY <1>4, <2>4, <2>5, <3>1, <3>2
    <3>3. CASE n \in 1..l
      BY <1>10, <2>4, <2>5, <2>8, <3>1, <3>3
    <3> QED BY <2>2, <2>5, <3>2, <3>3
  <2>9. ASSUME NEW n \in DOMAIN next
        PROVE  /\ shown'.embeds[n] = ShownEmbed(metadata.order[next[n]])
               /\ DOMAIN shown'.embeds[n].fields # {}
    <3>1. CASE n = l + 1
      BY <1>12, <2>2, <2>5, <3>1 DEF new
    <3>2. CASE n \in 1..l
      BY <1>10, <2>2, <2>4, <2>5, <3>2
    <3> QED BY <2>2, <2>5, <3>1, <3>2
  <2>10. EmbedsShown'
    <3>1. ASSUME NEW q, q = next PROVE Numbering(q)'
      BY <1>1, <2>7, <2>8, <2>9, <3>1 DEF Numbering, ShownEmbed
    <3> QED BY <2>6, <3>1 DEF EmbedsShown
  <2>11. Kept(shown.embeds, shown'.embeds, {})
    BY <2>2 DEF Kept
  <2> QED BY <1>7, <2>3, <2>10, <2>11 DEF PdfInv
<1> QED BY <1>11, <1>12

LEMMA PdfUnchanged == ASSUME PdfInv, UNCHANGED vars PROVE PdfInv'
<1>1. /\ raw' = raw /\ metadata' = metadata /\ processing' = processing
      /\ left' = left /\ visited' = visited /\ shown' = shown
  BY DEF vars
<1>2. Shape' /\ PrimaryShown'
  BY <1>1 DEF PdfInv, Shape, ShownEmbed, PrimaryShown
<1> QED BY <1>1, <1>2, SortedStays DEF PdfInv

\* What the loops have built so far is what they have read so far, in every state.
THEOREM PdfInvariant == Spec => []PdfInv
<1>1. Init => PdfInv
  BY PdfInit
<1>2. ASSUME PdfInv, [Next]_vars PROVE PdfInv'
  <2>1. CASE \E e \in Entries : Preprocess(e)
    BY <1>2, <2>1, PreprocessStep
  <2>2. CASE StartProcessing
    BY <1>2, <2>2, StartProcessingStep
  <2>3. CASE \E key \in left : ShowPrimary(key)
    BY <1>2, <2>3, ShowPrimaryStep
  <2>4. CASE ShowEmbed
    BY <1>2, <2>4, ShowEmbedStep
  <2>5. CASE UNCHANGED vars
    BY <1>2, <2>5, PdfUnchanged
  <2> QED BY <1>2, <2>1, <2>2, <2>3, <2>4, <2>5 DEF Next
<1> QED BY <1>1, <1>2, PTL DEF Spec

-----------------------------------------------------------------------------
(* The document itself.                                                    *)

\* Script and plugin together: what the properties say of keys.
LEMMA KeysShown ==
    ASSUME NEW key
    PROVE  /\ Concealed(key) <=> Dropped(key) \/ ~Visible(SortedAs(key))
           /\ ~Concealed(key) => ShownAs(key) = Renamed(SortedAs(key))
<1>1. CASE key = FileSize
  <2> DEFINE size == <<"PDF", "FileSize">>
  <2>1. SortedAs(key) = size /\ key[1] = "File" /\ size[1] = "PDF"
    BY <1>1, KeysDiffer DEF SortedAs
  <2>2. size \notin SchemaKeys /\ key \notin SchemaKeys /\ SchemasSchema \in SchemaKeys
    BY <2>1, KeysDiffer DEF SchemaKeys
  <2>3. Visible(size) /\ Renamed(size) = size
    BY <2>1, <2>2 DEF Visible, Renamed
  <2>4. ~Dropped(key) /\ ~Concealed(key)
    BY <1>1, <2>1, <2>2, KeysDiffer DEF Dropped, Concealed
  <2>5. ShownAs(key) = size
    BY <1>1 DEF ShownAs
  <2> QED BY <2>1, <2>3, <2>4, <2>5
<1>2. CASE key # FileSize
  <2>1. SortedAs(key) = key
    BY <1>2 DEF SortedAs
  <2>2. Concealed(key) <=> Dropped(key) \/ ~Visible(key)
    BY <1>2 DEF Concealed, Dropped, Visible
  <2>3. ShownAs(key) = Renamed(key)
    BY <1>2 DEF ShownAs, Renamed
  <2> QED BY <2>1, <2>2, <2>3
<1> QED BY <1>1, <1>2

LEMMA PrimaryComplete == ASSUME PdfInv PROVE PrimaryIsComplete
<1> SUFFICES ASSUME Done
             PROVE  /\ \A i \in ToShow : ShownAs(raw[i].key) \in DOMAIN shown.primary
                    /\ \A key \in DOMAIN shown.primary :
                          \E i \in ToShow : /\ ShownAs(raw[i].key) = key
                                            /\ shown.primary[key] = raw[i].value
  BY DEF PrimaryIsComplete
<1>1. /\ PrimarySorted /\ PrimaryShown /\ processing /\ left = {}
  BY DEF PdfInv, Done
<1>2. /\ \A k \in DOMAIN metadata.primary : Visible(k) => Renamed(k) \in DOMAIN shown.primary
      /\ \A field \in DOMAIN shown.primary :
            \E k \in DOMAIN metadata.primary : /\ Visible(k) /\ Renamed(k) = field
                                               /\ shown.primary[field] = metadata.primary[k]
  BY <1>1 DEF PrimaryShown
<1>3. ASSUME NEW i \in ToShow PROVE ShownAs(raw[i].key) \in DOMAIN shown.primary
  <2>1. i \in OfPrimary /\ Visible(SortedAs(raw[i].key))
        /\ ShownAs(raw[i].key) = Renamed(SortedAs(raw[i].key))
    BY KeysShown DEF ToShow, OfPrimary
  <2> QED BY <1>1, <1>2, <2>1 DEF PrimarySorted
<1>4. ASSUME NEW field \in DOMAIN shown.primary
      PROVE  \E i \in ToShow : /\ ShownAs(raw[i].key) = field
                               /\ shown.primary[field] = raw[i].value
  <2>1. PICK k \in DOMAIN metadata.primary : /\ Visible(k) /\ Renamed(k) = field
                                             /\ shown.primary[field] = metadata.primary[k]
    BY <1>2
  <2>2. PICK i \in OfPrimary : SortedAs(raw[i].key) = k /\ metadata.primary[k] = raw[i].value
    BY <1>1 DEF PrimarySorted
  <2>3. i \in ToShow /\ ShownAs(raw[i].key) = field
    BY <2>1, <2>2, KeysShown DEF ToShow, OfPrimary
  <2> QED BY <2>1, <2>2, <2>3
<1> QED BY <1>3, <1>4

\* For every document: whatever exiftool prints of the document itself and the code
\* does not mean to conceal is shown, and everything shown was printed.
THEOREM PrimaryIsCompleteHolds == Spec => []PrimaryIsComplete
<1>1. PdfInv => PrimaryIsComplete
  BY PrimaryComplete
<1> QED BY <1>1, PdfInvariant, PTL

-----------------------------------------------------------------------------
(* Embedded documents.                                                     *)

LEMMA EmbedShowsItsFields ==
    ASSUME PdfInv, NEW d \in DOMAIN metadata.embeds
    PROVE  /\ DOMAIN ShownEmbed(d).fields = {raw[i].key : i \in Telling(d)}
           /\ \A i \in Telling(d) :
                 ShownEmbed(d).fields[raw[i].key] =
                    IF raw[i].value = Advice THEN "<binary data>" ELSE raw[i].value
<1> DEFINE meta == metadata.embeds[d]
           fields == ShownEmbed(d).fields
           told == {k \in DOMAIN meta : k[1] \notin {"File", "PDF", "APP14", "ICC_Profile"}}
<1>1. EmbedsSorted /\ d \in Embedded
  BY DEF PdfInv, EmbedsSorted
<1>2. d # "Main"
  BY <1>1 DEF Embedded
<1>3. \A key \in DOMAIN meta : \E i \in DOMAIN raw : raw[i].doc = d /\ raw[i].key = key
  BY <1>1, Zenon DEF EmbedsSorted
<1>4. \A i \in DOMAIN raw : raw[i].doc = d => raw[i].key \in DOMAIN meta
                                              /\ meta[raw[i].key] = raw[i].value
  BY <1>1, <1>2 DEF EmbedsSorted
<1>5. fields = Keep(BinaryReplaced(meta), {k \in DOMAIN BinaryReplaced(meta) :
                                  k[1] \notin {"File", "PDF", "APP14", "ICC_Profile"}})
  BY DEF ShownEmbed, Embed, EmbedFields
<1>6. /\ DOMAIN fields = told
      /\ \A k \in told : fields[k] = IF meta[k] = Advice THEN "<binary data>" ELSE meta[k]
  BY <1>5 DEF Keep, BinaryReplaced
<1> HIDE DEF meta, fields
<1>7. told = {raw[i].key : i \in Telling(d)}
  <2>1. ASSUME NEW k \in told PROVE k \in {raw[i].key : i \in Telling(d)}
    <3>1. PICK i \in DOMAIN raw : raw[i].doc = d /\ raw[i].key = k
      BY <1>3
    <3> QED BY <3>1 DEF Telling
  <2>2. ASSUME NEW i \in Telling(d) PROVE raw[i].key \in told
    BY <1>4 DEF Telling
  <2> QED BY <2>1, <2>2
<1>8. ASSUME NEW i \in Telling(d)
      PROVE  fields[raw[i].key] =
                IF raw[i].value = Advice THEN "<binary data>" ELSE raw[i].value
  BY <1>4, <1>6, <1>7 DEF Telling
<1> QED BY <1>6, <1>7, <1>8 DEF fields

LEMMA EmbedsNumbered == ASSUME PdfInv PROVE EmbedsAreNumbered
<1> SUFFICES ASSUME Done
             PROVE  \E doc \in [DOMAIN shown.embeds -> Embedded] :
               /\ \A d \in Embedded : Telling(d) # {} => \E n \in DOMAIN doc : doc[n] = d
               /\ \A m, n \in DOMAIN doc : m < n => Before(raw, doc[m], doc[n])
               /\ \A n \in DOMAIN doc :
                     /\ Telling(doc[n]) # {}
                     /\ DOMAIN shown.embeds[n].fields = {raw[i].key : i \in Telling(doc[n])}
                     /\ \A i \in Telling(doc[n]) :
                           shown.embeds[n].fields[raw[i].key] =
                              IF raw[i].value = Advice THEN "<binary data>" ELSE raw[i].value
  BY DEF EmbedsAreNumbered
<1>1. /\ EmbedsSorted /\ OrderKept /\ visited = Len(metadata.order)
      /\ metadata.order \in Seq(DOMAIN metadata.embeds)
  BY DEF PdfInv, Done, Shape
<1>2. DOMAIN metadata.order = 1..visited
  BY <1>1
<1>3. PICK pos \in [DOMAIN shown.embeds -> 1..visited] : Numbering(pos)
  BY DEF PdfInv, EmbedsShown
<1> DEFINE doc == [n \in DOMAIN shown.embeds |-> metadata.order[pos[n]]]
<1>4. ASSUME NEW n \in DOMAIN shown.embeds
      PROVE  /\ pos[n] \in DOMAIN metadata.order
             /\ doc[n] = metadata.order[pos[n]]
             /\ doc[n] \in DOMAIN metadata.embeds
             /\ shown.embeds[n] = ShownEmbed(doc[n])
             /\ DOMAIN ShownEmbed(doc[n]).fields # {}
  <2>1. pos[n] \in DOMAIN metadata.order /\ doc[n] = metadata.order[pos[n]]
    BY <1>2, <1>3
  <2>2. metadata.order[pos[n]] \in DOMAIN metadata.embeds
    BY <1>1, <2>1
  <2>3. shown.embeds[n] = ShownEmbed(metadata.order[pos[n]]) /\ DOMAIN shown.embeds[n].fields # {}
    BY <1>3 DEF Numbering
  <2> QED BY <2>1, <2>2, <2>3
<1>5. DOMAIN doc = DOMAIN shown.embeds
  OBVIOUS
<1> HIDE DEF doc
<1>6. doc \in [DOMAIN shown.embeds -> Embedded]
  <2>1. \A n \in DOMAIN shown.embeds : doc[n] \in Embedded
    BY <1>1, <1>4 DEF EmbedsSorted
  <2> QED BY <1>5, <2>1 DEF doc
<1>7. ASSUME NEW d \in Embedded, Telling(d) # {} PROVE \E n \in DOMAIN doc : doc[n] = d
  <2>1. d \in DOMAIN metadata.embeds
    BY <1>1 DEF EmbedsSorted, Embedded
  <2>2. PICK k \in 1..visited : metadata.order[k] = d
    BY <1>1, <1>2, <2>1 DEF OrderKept
  <2>3. DOMAIN ShownEmbed(d).fields # {}
    <3>1. DOMAIN ShownEmbed(d).fields = {raw[i].key : i \in Telling(d)}
      BY <2>1, EmbedShowsItsFields
    <3> QED BY <1>7, <3>1
  <2>4. PICK n \in DOMAIN pos : pos[n] = k
    BY <1>3, <2>2, <2>3 DEF Numbering
  <2>5. n \in DOMAIN shown.embeds
    BY <1>3, <2>4
  <2> QED BY <1>4, <1>5, <2>2, <2>4, <2>5
<1>8. ASSUME NEW m \in DOMAIN doc, NEW n \in DOMAIN doc, m < n
      PROVE  Before(raw, doc[m], doc[n])
  <2>1. pos[m] < pos[n]
    BY <1>3, <1>5, <1>8 DEF Numbering
  <2> QED BY <1>1, <1>4, <1>5, <2>1 DEF OrderKept
<1>9. ASSUME NEW n \in DOMAIN doc
      PROVE  /\ Telling(doc[n]) # {}
             /\ DOMAIN shown.embeds[n].fields = {raw[i].key : i \in Telling(doc[n])}
             /\ \A i \in Telling(doc[n]) :
                   shown.embeds[n].fields[raw[i].key] =
                      IF raw[i].value = Advice THEN "<binary data>" ELSE raw[i].value
  <2>1. /\ doc[n] \in DOMAIN metadata.embeds
        /\ shown.embeds[n] = ShownEmbed(doc[n])
        /\ DOMAIN ShownEmbed(doc[n]).fields # {}
    BY <1>4, <1>5, <1>9
  <2>2. /\ DOMAIN ShownEmbed(doc[n]).fields = {raw[i].key : i \in Telling(doc[n])}
        /\ \A i \in Telling(doc[n]) :
              ShownEmbed(doc[n]).fields[raw[i].key] =
                 IF raw[i].value = Advice THEN "<binary data>" ELSE raw[i].value
    BY <2>1, EmbedShowsItsFields
  <2>3. Telling(doc[n]) # {}
    BY <2>1, <2>2
  <2> QED BY <2>1, <2>2, <2>3
<1> QED BY <1>6, <1>7, <1>8, <1>9

\* For every document: each embedded document that has anything to tell has one number,
\* in the order in which exiftool came to them, and shows all its fields there.
THEOREM EmbedsAreNumberedHolds == Spec => []EmbedsAreNumbered
<1>1. PdfInv => EmbedsAreNumbered
  BY EmbedsNumbered
<1> QED BY <1>1, PdfInvariant, PTL

-----------------------------------------------------------------------------
(* No round undoes an earlier one.                                         *)

\* What is kept as it is, is kept.
LEMMA KeptAsIs == \A f, except : Kept(f, f, except)
BY DEF Kept

\* Two keys that the first loop visits and shows get two names.
LEMMA NamesDiffer ==
    ASSUME PdfInv, NEW k1 \in DOMAIN metadata.primary, NEW k2 \in DOMAIN metadata.primary,
           Visible(k1), Visible(k2), Renamed(k1) = Renamed(k2)
    PROVE  k1 = k2
<1>1. ASSUME NEW k \in DOMAIN metadata.primary
      PROVE  k[1] # "File" /\ k = <<k[1], k[2]>>
  <2>1. PICK i \in OfPrimary : SortedAs(raw[i].key) = k
    BY DEF PdfInv, PrimarySorted
  <2>2. raw[i] \in Entries
    BY DEF PdfInv, Shape, OfPrimary
  <2>3. raw[i].key = <<raw[i].key[1], raw[i].key[2]>>
    BY <2>2, EntriesAssumption
  <2>4. CASE raw[i].key = FileSize
    <3>1. k = <<"PDF", "FileSize">>
      BY <2>1, <2>4 DEF SortedAs
    <3> QED BY <3>1
  <2>5. CASE raw[i].key # FileSize
    <3>1. k = raw[i].key /\ k[1] # "File"
      BY <2>1, <2>5 DEF SortedAs, OfPrimary, Dropped
    <3> QED BY <2>3, <3>1
  <2> QED BY <2>4, <2>5
<1>2. ASSUME NEW k PROVE <<"File", k[2]>>[1] = "File" /\ <<"File", k[2]>>[2] = k[2]
  OBVIOUS
<1>3. Schemas[1] = "XMP" /\ SchemasSchema[1] = "XMP" /\ Schemas # SchemasSchema
      /\ Schemas \in SchemaKeys
  BY KeysDiffer DEF SchemaKeys
<1>4. k1 # Schemas /\ k2 # Schemas
  BY <1>3 DEF Visible
<1>5. CASE k1 = SchemasSchema
  <2>1. Renamed(k2) = Schemas
    BY <1>5 DEF Renamed
  <2>2. k2[1] # "none"
    BY <1>2, <1>3, <2>1 DEF Renamed
  <2> QED BY <1>4, <1>5, <2>1, <2>2 DEF Renamed
<1>6. CASE k2 = SchemasSchema
  <2>1. Renamed(k1) = Schemas
    BY <1>6 DEF Renamed
  <2>2. k1[1] # "none"
    BY <1>2, <1>3, <2>1 DEF Renamed
  <2> QED BY <1>4, <1>6, <2>1, <2>2 DEF Renamed
<1>7. CASE k1 # SchemasSchema /\ k2 # SchemasSchema
  <2>1. CASE k1[1] = "none"
    <3>1. Renamed(k2)[1] = "File" /\ Renamed(k2)[2] = k1[2]
      BY <1>2, <1>7, <2>1 DEF Renamed
    <3>2. k2[1] = "none"
      BY <1>1, <1>7, <3>1 DEF Renamed
    <3>3. k2[2] = k1[2]
      BY <1>2, <1>7, <3>1, <3>2 DEF Renamed
    <3>4. k1 = <<k1[1], k1[2]>> /\ k2 = <<k2[1], k2[2]>>
      BY <1>1
    <3> QED BY <2>1, <3>2, <3>3, <3>4
  <2>2. CASE k1[1] # "none"
    <3>1. Renamed(k2) = k1
      BY <1>7, <2>2 DEF Renamed
    <3>2. k2[1] # "none"
      BY <1>1, <1>2, <1>7, <3>1 DEF Renamed
    <3> QED BY <1>7, <3>1, <3>2 DEF Renamed
  <2> QED BY <2>1, <2>2
<1> QED BY <1>5, <1>6, <1>7

LEMMA ShowPrimaryHidesNothing ==
    ASSUME PdfInv, NEW key \in left, ShowPrimary(key)
    PROVE  Kept(shown.primary, shown'.primary, {}) /\ shown'.embeds = shown.embeds
<1>1. /\ shown' = [shown EXCEPT !.primary =
                      PrimaryField(shown.primary, key, metadata.primary[key])]
      /\ processing /\ key \in DOMAIN metadata.primary
      /\ shown = [primary |-> shown.primary, embeds |-> shown.embeds]
  BY DEF ShowPrimary, PdfInv, Shape
<1>2. /\ shown'.primary = IF Visible(key)
                            THEN Put(shown.primary, Renamed(key), metadata.primary[key])
                            ELSE shown.primary
      /\ shown'.embeds = shown.embeds
  BY <1>1, PrimaryFieldShows
<1>3. CASE ~Visible(key)
  BY <1>2, <1>3, KeptAsIs
<1>4. CASE Visible(key)
  <2>1. Renamed(key) \notin DOMAIN shown.primary
    <3>1. SUFFICES ASSUME Renamed(key) \in DOMAIN shown.primary PROVE FALSE
      OBVIOUS
    <3>2. PICK k \in DOMAIN metadata.primary \ left : Visible(k) /\ Renamed(k) = Renamed(key)
      BY <1>1, <3>1 DEF PdfInv, PrimaryShown
    <3>3. k = key
      BY <1>1, <1>4, <3>2, NamesDiffer
    <3> QED BY <3>2, <3>3
  <2> QED BY <1>2, <1>4, <2>1 DEF Kept, Put
<1> QED BY <1>3, <1>4

\* For every document: a round of any of the loops keeps what earlier ones kept,
\* whichever keys exiftool prints in whichever order.
THEOREM NothingIsHiddenHolds == Spec => NothingIsHidden
<1>1. ASSUME PdfInv, Next PROVE HidesNothing
  <2>1. ASSUME NEW e \in Entries, Preprocess(e) PROVE HidesNothing
    <3>1. shown' = shown
      BY <2>1 DEF Preprocess
    <3>2. CASE e.doc = "Main"
      <4>1. metadata' = [metadata EXCEPT !.primary = metadata'.primary]
            /\ Kept(metadata.primary, metadata'.primary, {<<"PDF", "FileSize">>})
        BY <1>1, <2>1, <3>2, PreprocessKeepsPrimary
      <4>2. metadata'.embeds = metadata.embeds
        BY <1>1, <4>1 DEF PdfInv, Shape
      <4> QED BY <3>1, <4>1, <4>2, KeptAsIs DEF HidesNothing
    <3>3. CASE e.doc # "Main"
      <4>1. metadata'.primary = metadata.primary
        BY <1>1, <2>1, <3>3, PreprocessKeepsEmbeds
      <4>2. \A d \in DOMAIN metadata.embeds :
               d \in DOMAIN metadata'.embeds /\ Kept(metadata.embeds[d], metadata'.embeds[d], {})
        BY <1>1, <2>1, <3>3, PreprocessSortsEmbeds
      <4> QED BY <3>1, <4>1, <4>2, KeptAsIs DEF HidesNothing
    <3> QED BY <3>2, <3>3
  <2>2. CASE StartProcessing
    <3>1. metadata' = metadata /\ shown' = shown
      BY <2>2 DEF StartProcessing
    <3> QED BY <3>1, KeptAsIs DEF HidesNothing
  <2>3. ASSUME NEW key \in left, ShowPrimary(key) PROVE HidesNothing
    <3>1. metadata' = metadata
      BY <2>3 DEF ShowPrimary
    <3> QED BY <1>1, <2>3, <3>1, KeptAsIs, ShowPrimaryHidesNothing DEF HidesNothing
  <2>4. CASE ShowEmbed
    <3>1. metadata' = metadata /\ shown'.primary = shown.primary
      BY <1>1, <2>4 DEF ShowEmbed, PdfInv, Shape
    <3> QED BY <1>1, <2>4, <3>1, KeptAsIs, ShowEmbedStep DEF HidesNothing
  <2> QED BY <1>1, <2>1, <2>2, <2>3, <2>4 DEF Next
<1>2. PdfInv /\ [Next]_vars => [HidesNothing]_vars
  BY <1>1
<1> QED BY <1>2, PdfInvariant, PTL DEF Spec, NothingIsHidden
=============================================================================
