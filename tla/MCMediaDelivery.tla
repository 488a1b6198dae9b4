-------------------------- MODULE MCMediaDelivery --------------------------
(* Small instances of MediaDelivery: one attachment of each shape the       *)
(* adapters tell apart.                                                     *)
EXTENDS MediaDelivery

A(kind, url, named) == [kind |-> kind, url |-> url, named |-> named]

MCAttachments ==
    {A("photo", TRUE, FALSE), A("video", FALSE, TRUE), A("audio", TRUE, TRUE),
     A("document", TRUE, TRUE), A("document", FALSE, TRUE), A("other", FALSE, FALSE)}

VisualAttachments == {A("photo", TRUE, FALSE), A("video", TRUE, TRUE)}
=============================================================================
