----------------------------- MODULE PdfMetadata ----------------------------
(***************************************************************************)
(* How the metadata of a PDF gets from exiftool to the job: the script     *)
(* plugins/pdf/sandbox/analyze sorts the fields that exiftool prints, and  *)
(* process_pdf_metadata (plugins/pdf/metadata.py) selects those to show.   *)
(* These are three loops over dictionaries, one step per round.  A         *)
(* dictionary is a function; that the documents embedded in the PDF are    *)
(* numbered needs their order as well.                                     *)
(*                                                                         *)
(* A key such as "EXIF:Artist" is the pair of its group and its name, with *)
(* group "none" if it has none.  Values are abstracted to those that the code  *)
(* looks for.  The tags that depend on the key alone are left out.         *)
(***************************************************************************)
EXTENDS Naturals, Sequences

CONSTANTS
    Entries,    \* the fields exiftool may print: document ("Main" or embedded), key, value
    MaxEntries  \* how many of them it prints at most

\* The code splits the keys of embedded documents without looking for a group.
ASSUME EntriesAssumption ==
    \A e \in Entries : /\ e.key = <<e.key[1], e.key[2]>>
                       /\ e.doc # "Main" => e.key[1] # "none"

VARIABLES
    raw,        \* what exiftool printed, as far as the script has read it
    metadata,   \* what the script made of it; "order" is that of "embeds"
    processing, \* whether the plugin has it
    left,       \* the keys of metadata.primary that the first loop has yet to visit
    visited,    \* the number of embedded documents that the second loop has visited
    shown       \* the metadata to show

vars == <<raw, metadata, processing, left, visited, shown>>

Put(dict, key, value) ==
    [k \in DOMAIN dict \cup {key} |-> IF k = key THEN value ELSE dict[k]]
Empty == [k \in {} |-> k]
Keep(dict, keys) == [k \in DOMAIN dict \cap keys |-> dict[k]]

FileSize == <<"File", "System:FileSize">>
MIMEType == <<"File", "MIMEType">>
FileType == <<"File", "FileType">>
SourceFile == <<"none", "SourceFile">>
SchemasSchema == <<"XMP", "XMP-pdfaExtension:SchemasSchema">>
Schemas == <<"XMP", "XMP-pdfaExtension:Schemas">>

\* The keys that begin with "XMP:XMP-pdfaExtension:Schemas".
SchemaKeys == {Schemas, SchemasSchema, <<"XMP", "XMP-pdfaExtension:SchemasPrefix">>}

Advice == "use -b option to extract"

-----------------------------------------------------------------------------
(* The script.                                                             *)

PreprocessPrimary(m, e) ==
    IF e.key = FileSize THEN [m EXCEPT !.primary = Put(@, <<"PDF", "FileSize">>, e.value)]
    ELSE IF e.key[1] \in {"File", "ExifTool", "EXIF"} \/ e.key = SourceFile THEN m
    ELSE [m EXCEPT !.primary = Put(@, e.key, e.value)]

PreprocessEmbedAnew(m, e) ==   \* mutant: a dictionary per field
    [m EXCEPT !.embeds = Put(@, e.doc, Put(Empty, e.key, e.value)),
              !.order = IF e.doc \in DOMAIN m.embeds THEN @ ELSE Append(@, e.doc)]

PreprocessEmbed(m, e) ==
    IF e.doc \in DOMAIN m.embeds
      THEN [m EXCEPT !.embeds[e.doc] = Put(@, e.key, e.value)]
      ELSE [m EXCEPT !.embeds = Put(@, e.doc, Put(Empty, e.key, e.value)),
                     !.order = Append(@, e.doc)]

\* One round; the keys of a JSON object are unique.
Preprocess(e) ==
    /\ ~processing
    /\ Len(raw) < MaxEntries
    /\ \A i \in DOMAIN raw : <<raw[i].doc, raw[i].key>> # <<e.doc, e.key>>
    /\ raw' = Append(raw, e)
    /\ metadata' = IF e.doc = "Main" THEN PreprocessPrimary(metadata, e)
                                 ELSE PreprocessEmbed(metadata, e)
    /\ UNCHANGED <<processing, left, visited, shown>>

-----------------------------------------------------------------------------
(* The plugin.                                                             *)

StartProcessing ==
    /\ ~processing
    /\ processing' = TRUE
    /\ left' = DOMAIN metadata.primary
    /\ UNCHANGED <<raw, metadata, visited, shown>>

PrimaryFieldNaming(fields, key, value, names) ==
    LET field == IF key[1] = "none" THEN <<"File", key[2]>> ELSE key
    IN  IF field[1] \in {"ICC_Profile", "Composite"} THEN fields
        ELSE IF field \in names THEN Put(fields, Schemas, value)
        ELSE IF field \in SchemaKeys THEN fields
        ELSE Put(fields, field, value)

\* mutant: every key of the schemas is taken for the list of their names
PrimaryFieldAnySchema(fields, key, value) == PrimaryFieldNaming(fields, key, value, SchemaKeys)

PrimaryField(fields, key, value) == PrimaryFieldNaming(fields, key, value, {SchemasSchema})

\* One round of the first loop, in any order.
ShowPrimary(key) ==
    /\ key \in left
    /\ left' = left \ {key}
    /\ shown' = [shown EXCEPT !.primary = PrimaryField(@, key, metadata.primary[key])]
    /\ UNCHANGED <<raw, metadata, processing, visited>>

BinaryReplaced(meta) ==
    [k \in DOMAIN meta |-> IF meta[k] = Advice THEN "<binary data>" ELSE meta[k]]

TypeOfEmbed(meta) ==
    IF MIMEType \in DOMAIN meta THEN meta[MIMEType]
    ELSE IF FileType \in DOMAIN meta /\ meta[FileType] # "(unsupported)" THEN meta[FileType]
    ELSE "none"

EmbedFields(meta) ==
    Keep(meta, {k \in DOMAIN meta : k[1] \notin {"File", "PDF", "APP14", "ICC_Profile"}})

Embed(meta) == [type |-> TypeOfEmbed(meta), fields |-> EmbedFields(meta)]

AttachAlways(embeds, embed) == Append(embeds, embed)   \* mutant

\* Only embeddings that have a field besides the type are attached.
Attach(embeds, embed) == IF DOMAIN embed.fields = {} THEN embeds ELSE Append(embeds, embed)

\* One round of the second loop.  Number i of "embeds" is at position i + 1.
ShowEmbed ==
    /\ processing
    /\ left = {}
    /\ visited < Len(metadata.order)
    /\ visited' = visited + 1
    /\ LET meta == metadata.embeds[metadata.order[visited + 1]]
       IN  shown' = [shown EXCEPT !.embeds = Attach(@, Embed(BinaryReplaced(meta)))]
    /\ UNCHANGED <<raw, metadata, processing, left>>

-----------------------------------------------------------------------------

Init ==
    /\ raw = <<>>
    /\ metadata = [primary |-> Empty, embeds |-> Empty, order |-> <<>>]
    /\ processing = FALSE
    /\ left = {}
    /\ visited = 0
    /\ shown = [primary |-> Empty, embeds |-> <<>>]

Next ==
    \/ \E e \in Entries : Preprocess(e)
    \/ StartProcessing
    \/ \E key \in left : ShowPrimary(key)
    \/ ShowEmbed

Spec == Init /\ [][Next]_vars

-----------------------------------------------------------------------------
(* Properties.                                                             *)

Done == processing /\ left = {} /\ visited = Len(metadata.order)

\* Not shown of the document itself: what describes the file, exiftool or colours,
\* and of its schemas everything but their names.
Concealed(key) ==
    \/ key[1] \in {"ExifTool", "EXIF", "ICC_Profile", "Composite"}
    \/ key[1] = "File" /\ key # FileSize
    \/ key = SourceFile
    \/ key \in SchemaKeys \ {SchemasSchema}

\* The key under which anything else is shown.
ShownAs(key) ==
    IF key = FileSize THEN <<"PDF", "FileSize">>
    ELSE IF key = SchemasSchema THEN Schemas
    ELSE IF key[1] = "none" THEN <<"File", key[2]>>
    ELSE key

ToShow == {i \in DOMAIN raw : raw[i].doc = "Main" /\ ~Concealed(raw[i].key)}

\* Of the document itself everything is shown that is not concealed, and
\* whatever is shown was printed under that key, with that value.
PrimaryIsComplete ==
    Done => /\ \A i \in ToShow : ShownAs(raw[i].key) \in DOMAIN shown.primary
            /\ \A key \in DOMAIN shown.primary :
                  \E i \in ToShow : /\ ShownAs(raw[i].key) = key
                                   /\ shown.primary[key] = raw[i].value

\* Fields of an embedded document that make it worth showing.
Telling(doc) == {i \in DOMAIN raw : raw[i].doc = doc
                     /\ raw[i].key[1] \notin {"File", "PDF", "APP14", "ICC_Profile"}}

\* Exiftool came to document d before it came to e.
Before(printed, d, e) ==
    \E i \in DOMAIN printed : printed[i].doc = d /\ \A k \in 1..i : printed[k].doc # e

Embedded == {raw[i].doc : i \in DOMAIN raw} \ {"Main"}

\* The embedded documents that have anything to tell, and no others, are numbered
\* without gaps in the order in which exiftool came to them, and each shows all its
\* fields under its number, whatever was printed in between.
EmbedsAreNumbered ==
    Done => \E doc \in [DOMAIN shown.embeds -> Embedded] :
               /\ \A d \in Embedded : Telling(d) # {} => \E n \in DOMAIN doc : doc[n] = d
               /\ \A m, n \in DOMAIN doc : m < n => Before(raw, doc[m], doc[n])
               /\ \A n \in DOMAIN doc :
                     /\ Telling(doc[n]) # {}
                     /\ DOMAIN shown.embeds[n].fields = {raw[i].key : i \in Telling(doc[n])}
                     /\ \A i \in Telling(doc[n]) :
                           shown.embeds[n].fields[raw[i].key] =
                              IF raw[i].value = Advice THEN "<binary data>" ELSE raw[i].value

Kept(old, new, except) ==
    \A k \in DOMAIN old \ except : k \in DOMAIN new /\ new[k] = old[k]

HidesNothing ==
    /\ Kept(metadata.primary, metadata'.primary, {<<"PDF", "FileSize">>})
    /\ \A d \in DOMAIN metadata.embeds :
          d \in DOMAIN metadata'.embeds /\ Kept(metadata.embeds[d], metadata'.embeds[d], {})
    /\ Kept(shown.primary, shown'.primary, {})
    /\ Kept(shown.embeds, shown'.embeds, {})

\* No round of a loop hides or changes what an earlier one has kept, although keys
\* are renamed in two of them: only the size of the file, and a field that is itself
\* called PDF:FileSize, are one.
NothingIsHidden == [][HidesNothing]_vars
=============================================================================
