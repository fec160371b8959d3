-------------------------------- MODULE MCPdf -------------------------------
(* Small instances of PdfMetadata for TLC.                                 *)
EXTENDS PdfMetadata

Entry(doc, keys, value) == {[doc |-> doc, key |-> k, value |-> value] : k \in keys}

\* One key of every kind that the code tells apart.  A key without a group other
\* than SourceFile is taken from tests/unit/plugins/test_pdf.py.
MCEntries ==
    Entry("Main", {FileSize, <<"File", "MIMEType">>, <<"EXIF", "Artist">>, <<"none", "SourceFile">>,
               <<"none", "FileSize">>, <<"ICC_Profile", "ColorSpaceData">>, <<"PDF", "FileSize">>}
              \cup SchemaKeys, "text")
    \cup Entry("Main", {<<"Photoshop", "PhotoshopThumbnail">>}, "use -b option to extract")
    \cup Entry("Doc1", {MIMEType, <<"EXIF", "Artist">>, <<"PDF", "EmbeddedImageFilter">>}, "text")
    \cup Entry("Doc2", {<<"EXIF", "Artist">>, <<"XMP", "XMP-dc:Creator">>}, "text")
    \cup Entry("Doc2", {FileType}, "(unsupported)")
    \cup Entry("Doc2", {<<"Photoshop", "PhotoshopThumbnail">>}, "use -b option to extract")
=============================================================================
