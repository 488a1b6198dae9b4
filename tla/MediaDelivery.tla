--------------------------- MODULE MediaDelivery ---------------------------
(***************************************************************************)
(* One MAX message on its way into a Telegram topic: the attachments the   *)
(* MAX adapter keeps and the URLs it looks up, the choice between album,   *)
(* single media and text, the caption that Telegram caps and the text      *)
(* messages that continue it, the albums sent in chunks, and what happens  *)
(* when Telegram or a download refuses a part.  The inbound service and    *)
(* the backfill of reconcile hold two copies of this code that differ in   *)
(* the retries and in the rendering.                                       *)
(*                                                                         *)
(* A text is its length; a piece of it is the interval of its characters.  *)
(***************************************************************************)
EXTENDS Naturals, Sequences, FiniteSets

CONSTANTS
    Attachments,   \* bound: the attachments a message may carry
    MaxAttaches,   \* bound: how many of them
    Texts,         \* bound: the lengths of its text, 0 for none
    PrefixLen,     \* length of "[sender id time]"
    CaptionLimit,  \* characters of a media caption (1024)
    TextLimit,     \* characters of a text message (4096)
    GroupLimit,    \* items of an album (10)
    RetryLimit,    \* how often a backfill send is repeated (3)
    MaxFaults      \* bound: failed downloads and refused sends

AttachKinds == {"photo", "video", "audio", "document", "other"}
Attachment  == [kind : AttachKinds, url : BOOLEAN, named : BOOLEAN]

ASSUME MessageAssumption ==
    /\ Attachments \subseteq Attachment /\ MaxAttaches \in Nat
    /\ Texts \subseteq Nat /\ PrefixLen \in Nat \ {0}
ASSUME LimitAssumption ==
    /\ CaptionLimit \in Nat \ {0} /\ TextLimit \in Nat \ {0} /\ GroupLimit \in Nat \ {0}
    /\ RetryLimit \in Nat /\ MaxFaults \in Nat

VARIABLES
    path, text, attaches,     \* who delivers, and the message
    urls,                     \* the candidates with a URL, looked up or given
    pc, job, apart, todo, at, attempts, \* the delivery's place and locals
    ready, faults,            \* is the topic there for Telegram; environment bound
    shown                     \* what the topic shows

message  == <<path, text, attaches>>
locals   == <<pc, job, apart, todo, at, attempts>>
vars     == <<message, urls, locals, ready, faults, shown>>

Pcs   == {"resolve", "send", "album", "chunks", "single", "rest", "link", "plain",
          "items", "linked", "failed"}
Kinds == AttachKinds \cup {"text", "unknown"}

-----------------------------------------------------------------------------
(* What the adapters make of a message.                                    *)

\* _collect_media_candidates: photos and audio need a URL, a document a URL or a name.
Candidate(a) ==
    \/ a.kind \in {"photo", "audio"} /\ a.url
    \/ a.kind = "video"
    \/ a.kind = "document" /\ (a.url \/ a.named)

Candidates == {i \in DOMAIN attaches : Candidate(attaches[i])}
Lowest(S)  == CHOOSE i \in S : \A j \in S : i <= j

\* _media_payload: the media list holds the candidates with a URL, in their order.
Items == urls

Family(k) == IF k \in {"photo", "video"} THEN "visual" ELSE k

\* collect_media_group_items: two items or more, none of them audio, one family.
Album ==
    /\ Cardinality(Items) >= 2
    /\ \A i \in Items : attaches[i].kind # "audio"
    /\ \A i, j \in Items : Family(attaches[i].kind) = Family(attaches[j].kind)

\* _chunk_media: the first items of those still to be sent.
Chunk(S) == {i \in S : Cardinality({j \in S : j < i}) < GroupLimit}

\* _compose_media_caption: the prefix, and the text on a line of its own.
Caption(t) == IF t = 0 THEN PrefixLen ELSE PrefixLen + 1 + t

\* _split_media_caption: what the media carries, and where a later piece ends.
Head1(t)    == IF Caption(t) < CaptionLimit THEN Caption(t) ELSE CaptionLimit
Upto(t, lo) == IF Caption(t) < lo + TextLimit THEN Caption(t) ELSE lo + TextLimit

\* _render_message and _render_backfill_message: the one shows a text whenever there
\* is one, the other only for a message without attachments.
RenderMessage(k, t)  == IF t > 0 THEN "text" ELSE "description"
RenderBackfill(k, t) == IF k = "text" THEN "text" ELSE "description"
Rendered == IF path = "inbound" THEN RenderMessage(job.kind, job.text)
                                ELSE RenderBackfill(job.kind, job.text)

Whole ==
    IF Candidates = {} THEN [kind |-> IF text > 0 THEN "text" ELSE "unknown",
                             item |-> 0, text |-> text]
    ELSE LET i == Lowest(Candidates) IN [kind |-> attaches[i].kind, item |-> i, text |-> text]

NoJob == [kind |-> "unknown", item |-> 0, text |-> 0]

Post(what, items, from, to) == [what |-> what, items |-> items, from |-> from, to |-> to]
Show(post) == shown' = Append(shown, post)

Init ==
    /\ path \in {"inbound", "backfill"} /\ text \in Texts
    /\ attaches \in UNION {[1..n -> Attachments] : n \in 0..MaxAttaches}
    /\ urls = {i \in DOMAIN attaches : Candidate(attaches[i]) /\ attaches[i].url}
    /\ pc = "resolve" /\ job = NoJob /\ apart = FALSE /\ todo = {} /\ at = 0 /\ attempts = 0
    /\ ready \in BOOLEAN /\ (path = "inbound" => ready)
    /\ faults = 0 /\ shown = <<>>

-----------------------------------------------------------------------------
Fault == faults < MaxFaults /\ faults' = faults + 1

\* A topic just created is not found by the first sends.
TopicReady ==
    /\ ~ready /\ ready' = TRUE
    /\ UNCHANGED <<message, urls, locals, faults, shown>>

\* MAX gives some attachments no URL, and answers a lookup with one or does not.
ResolveMediaUrls ==
    /\ pc = "resolve"
    /\ \E found \in SUBSET {i \in Candidates \ urls : attaches[i].kind \in {"document", "video"}} :
         urls' = urls \cup found
    /\ pc' = "send" /\ job' = Whole
    /\ UNCHANGED <<message, apart, todo, at, attempts, ready, faults, shown>>

\* Mutant of Branch: the items of a refused album are an album again.
BranchAgain ==
    IF Album THEN "album" ELSE IF job.item \in urls THEN "single" ELSE "plain"

\* The branches of the send, in their order; the items of a refused album carry no
\* media list, so none of them is an album again.
Branch ==
    IF ~apart /\ Album THEN "album"
    ELSE IF job.item \in urls THEN "single" ELSE "plain"

Route ==
    /\ pc = "send"
    /\ pc' = Branch /\ at' = 0 /\ attempts' = 0
    /\ UNCHANGED <<message, urls, job, apart, todo, ready, faults, shown>>

SendMessageToTelegram == path = "inbound" /\ Route
SendBackfillMessage   == path = "backfill" /\ Route

Fails == pc' = "failed" /\ UNCHANGED <<message, urls, job, apart, todo, at, attempts, ready, shown>>

-----------------------------------------------------------------------------
(* send_media_group_to_topic.                                              *)

\* Every chunk is prepared before the first one is sent.
BuildInputMedia ==
    /\ pc = "album"
    /\ pc' = "chunks" /\ todo' = Items
    /\ UNCHANGED <<message, urls, job, apart, at, attempts, ready, faults, shown>>

\* Mutant of SendApart: the chunk that was refused is skipped.
SendApartOthers ==
    /\ pc' = "items" /\ apart' = TRUE /\ at' = 0
    /\ todo' = IF pc = "chunks" THEN todo \ Chunk(todo) ELSE Items
    /\ UNCHANGED <<message, urls, job, attempts, ready, shown>>

\* The album is given up and its items are sent one by one, from the first.
SendApart ==
    /\ pc' = "items" /\ apart' = TRUE /\ at' = 0 /\ todo' = Items
    /\ UNCHANGED <<message, urls, job, attempts, ready, shown>>

\* Videos and documents are downloaded; photos are left to Telegram.
PrepareFails ==
    /\ pc = "album" /\ Fault
    /\ \E i \in Items : attaches[i].kind \in {"video", "document"}
    /\ SendApart

\* Mutant of SendMediaGroup: the next chunk starts one item further only.
SendMediaGroupSliding ==
    /\ pc = "chunks" /\ todo # {} /\ ready
    /\ todo' = todo \ {Lowest(todo)}
    /\ IF todo = Items THEN Show(Post("album", Chunk(todo), 1, Head1(text))) /\ at' = Head1(text)
                       ELSE Show(Post("album", Chunk(todo), 1, 0)) /\ UNCHANGED at
    /\ UNCHANGED <<message, urls, pc, job, apart, attempts, ready, faults>>

SendMediaGroup ==
    /\ pc = "chunks" /\ todo # {} /\ ready
    /\ todo' = todo \ Chunk(todo)
    /\ IF todo = Items THEN Show(Post("album", Chunk(todo), 1, Head1(text))) /\ at' = Head1(text)
                       ELSE Show(Post("album", Chunk(todo), 1, 0)) /\ UNCHANGED at
    /\ UNCHANGED <<message, urls, pc, job, apart, attempts, ready, faults>>

MediaGroupRefused ==
    /\ pc = "chunks" /\ todo # {} /\ ready /\ Fault
    /\ \E i \in Chunk(todo) : attaches[i].kind = "photo"
    /\ SendApart

EndMediaGroup ==
    /\ pc = "chunks" /\ todo = {}
    /\ pc' = "rest"
    /\ UNCHANGED <<message, urls, job, apart, todo, at, attempts, ready, faults, shown>>

-----------------------------------------------------------------------------
(* The single sends, their continuations and their fallback.               *)

SendMedia ==
    /\ pc = "single" /\ ready
    /\ Show(Post(job.kind, {job.item}, 1, Head1(job.text)))
    /\ at' = Head1(job.text) /\ pc' = "rest"
    /\ UNCHANGED <<message, urls, job, apart, todo, attempts, ready, faults>>

\* A download that fails before the send, or a photo Telegram cannot fetch.
MediaRefused ==
    /\ pc = "single" /\ (job.kind = "photo" => ready) /\ Fault
    /\ pc' = "link"
    /\ UNCHANGED <<message, urls, job, apart, todo, at, attempts, ready, shown>>

\* Mutant of SendContinuation: a character is lost between two pieces.
SendContinuationLoses ==
    /\ pc = "rest" /\ at < Caption(job.text)
    /\ Show(Post("text", {}, at + 2, Upto(job.text, at)))
    /\ at' = Upto(job.text, at)
    /\ UNCHANGED <<message, urls, pc, job, apart, todo, attempts, ready, faults>>

SendContinuation ==
    /\ pc = "rest" /\ at < Caption(job.text)
    /\ Show(Post("text", {}, at + 1, Upto(job.text, at)))
    /\ at' = Upto(job.text, at)
    /\ UNCHANGED <<message, urls, pc, job, apart, todo, attempts, ready, faults>>

\* The item of a refused album is done, and so is the message with the last one.
Sent == pc' = IF apart /\ todo # {} THEN "items" ELSE "linked"

EndSend ==
    /\ pc = "rest" /\ at = Caption(job.text)
    /\ Sent
    /\ UNCHANGED <<message, urls, job, apart, todo, at, attempts, ready, faults, shown>>

\* The fallback shows the prefix and the link; it is sent once, without retries.
SendLink ==
    /\ pc = "link" /\ ready
    /\ Show(Post("link", {job.item}, 1, PrefixLen))
    /\ Sent
    /\ UNCHANGED <<message, urls, job, apart, todo, at, attempts, ready, faults>>

\* A document without a URL is named; anything else is rendered as text, which is
\* not split: Telegram refuses a longer one.
PlainWhat == IF job.kind = "document" THEN "name" ELSE Rendered
PlainTo   == IF PlainWhat = "text" THEN Caption(job.text) ELSE PrefixLen
TooLong   == PlainTo > TextLimit

SendPlain ==
    /\ pc = "plain" /\ ready /\ ~TooLong
    /\ Show(Post(PlainWhat, IF PlainWhat = "text" THEN {} ELSE {job.item} \ {0}, 1, PlainTo))
    /\ Sent
    /\ UNCHANGED <<message, urls, job, apart, todo, at, attempts, ready, faults>>

PlainTooLong == pc = "plain" /\ ready /\ TooLong /\ UNCHANGED faults /\ Fails

-----------------------------------------------------------------------------
(* Failures, retries, and the items one by one.                            *)

\* Any other error of Telegram or of the network, at any send.
SendFails ==
    /\ \/ pc \in {"chunks", "single", "link", "plain"} /\ ready
       \/ pc = "rest" /\ at < Caption(job.text)
    /\ Fault /\ Fails

\* Mutant of RetryTopicSend: one attempt too many.
RetryTopicSendMore ==
    /\ ~ready /\ pc \in {"chunks", "single", "plain"} /\ attempts <= RetryLimit
    /\ attempts' = attempts + 1
    /\ pc' = IF pc = "chunks" THEN "album" ELSE pc
    /\ UNCHANGED <<message, urls, job, apart, todo, at, ready, faults, shown>>

\* _retry_topic_send repeats the whole call while the topic is not found.
RetryTopicSend ==
    /\ ~ready /\ pc \in {"chunks", "single", "plain"} /\ attempts < RetryLimit
    /\ attempts' = attempts + 1
    /\ pc' = IF pc = "chunks" THEN "album" ELSE pc
    /\ UNCHANGED <<message, urls, job, apart, todo, at, ready, faults, shown>>

TopicNotFound ==
    /\ ~ready
    /\ \/ pc = "link"
       \/ pc \in {"chunks", "single", "plain"} /\ attempts = RetryLimit
    /\ UNCHANGED faults /\ Fails

\* Mutant of NextItem: every item keeps the text.
NextItemSameText ==
    /\ pc = "items" /\ todo # {}
    /\ LET i == Lowest(todo) IN
       /\ todo' = todo \ {i}
       /\ job' = [kind |-> attaches[i].kind, item |-> i, text |-> text]
    /\ pc' = "send"
    /\ UNCHANGED <<message, urls, apart, at, attempts, ready, faults, shown>>

\* _send_media_items_separately: the first item keeps the text.
NextItem ==
    /\ pc = "items" /\ todo # {}
    /\ LET i == Lowest(todo) IN
       /\ todo' = todo \ {i}
       /\ job' = [kind |-> attaches[i].kind, item |-> i,
                  text |-> IF todo = Items THEN text ELSE 0]
    /\ pc' = "send"
    /\ UNCHANGED <<message, urls, apart, at, attempts, ready, faults, shown>>

Next ==
    \/ TopicReady \/ ResolveMediaUrls \/ SendMessageToTelegram \/ SendBackfillMessage
    \/ BuildInputMedia \/ PrepareFails \/ SendMediaGroup \/ MediaGroupRefused \/ EndMediaGroup
    \/ SendMedia \/ MediaRefused \/ SendContinuation \/ EndSend \/ SendLink
    \/ SendPlain \/ PlainTooLong \/ SendFails \/ RetryTopicSend \/ TopicNotFound \/ NextItem

Spec == Init /\ [][Next]_vars

-----------------------------------------------------------------------------
(* Properties.                                                             *)

PostType == [what : Kinds \cup {"album", "link", "name", "description"},
             items : SUBSET (1..MaxAttaches), from : Nat, to : Nat]

MessageOK ==
    /\ path \in {"inbound", "backfill"} /\ text \in Texts
    /\ attaches \in Seq(Attachments) /\ Len(attaches) <= MaxAttaches
    /\ urls \subseteq Candidates /\ {i \in Candidates : attaches[i].url} \subseteq urls
LocalsOK ==
    /\ pc \in Pcs /\ job \in [kind : Kinds, item : 0..MaxAttaches, text : Texts \cup {0}]
    /\ apart \in BOOLEAN /\ at \in Nat /\ attempts \in 0..RetryLimit
    /\ todo \subseteq urls

\* Every variable keeps its type; the items still to be sent are items of the message.
TypeOK ==
    /\ MessageOK /\ LocalsOK /\ ready \in BOOLEAN /\ faults \in 0..MaxFaults
    /\ shown \in Seq(PostType)

Posts      == {shown[k] : k \in DOMAIN shown}
Times(i)   == Cardinality({k \in DOMAIN shown : i \in shown[k].items})
Grouped(i) == \E post \in Posts : post.what = "album" /\ i \in post.items
Read       == UNION {post.from..post.to : post \in Posts}
Unread     == (1..Caption(text)) \ Read

\* A live video for which MAX has no URL, in a message with a text: the text is
\* rendered in its place (_render_message), and nothing says there was a video.
GivesWayToText(i) ==
    path = "inbound" /\ text > 0 /\ attaches[i].kind = "video" /\ i \notin urls

\* A delivered album shows every item it has a URL for, as media or as a link,
\* through chunks, a refusal and the fallback to single sends.  Any other delivered
\* message shows its first attachment, but for a live video without a URL that gives
\* way to the text (_send_message_to_telegram).
DeliveredIsShown ==
    pc = "linked" =>
        \A i \in IF Album THEN Items ELSE Candidates \cap {Whole.item} : 
            Times(i) > 0 \/ GivesWayToText(i)

\* The topic shows an item a second time only after it was part of an accepted chunk
\* and a later chunk was refused; the retries of a backfill repeat nothing.
RepeatedOnlyAfterRefusal ==
    \A i \in DOMAIN attaches : Times(i) <= IF apart /\ Grouped(i) THEN 2 ELSE 1

Carries(k) == shown[k].from <= shown[k].to /\ shown[k].to > PrefixLen
Starts     == {k \in DOMAIN shown : Carries(k) /\ shown[k].from = 1}
Joined     ==
    \A l \in DOMAIN shown : Carries(l) /\ shown[l].from > 1 =>
        \E k \in 1..(l - 1) : /\ shown[k].to + 1 = shown[l].from
                              /\ \A m \in (k + 1)..(l - 1) : ~Carries(m)

\* The pieces of a text appear in order, each where the last one ended; only a
\* refused album shows its beginning again, once, and no later item repeats it.
TextInOrder == Cardinality(Starts) <= (IF apart THEN 2 ELSE 1) /\ Joined

\* A delivered message that does not show all of its text shows a link or a file name
\* somewhere, or is a backfilled video without a URL: where no part was refused, the
\* split into caption and continuations loses nothing.
TextLostOnlyToFallback ==
    pc = "linked" /\ text > 0 /\ Unread # {} =>
        \E post \in Posts : \/ post.what \in {"link", "name"}
                            \/ post.what = "description" /\ path = "backfill"

\* How far a delivery is from its end, the most significant first: its phase, the items
\* of a refused album still to come, the place within one send, the retries left, and
\* what is left of the album or of the text.
Phase == CASE pc = "resolve" -> 3 [] pc \in {"linked", "failed"} -> 0
           [] OTHER -> IF apart THEN 1 ELSE 2
Place == CASE pc \in {"resolve", "send"} -> 4 [] pc \in {"album", "chunks"} -> 3
           [] pc \in {"single", "plain"} -> 2 [] pc \in {"rest", "link"} -> 1 [] OTHER -> 0
Parts == CASE pc = "album" -> Len(attaches) + 1 [] pc = "chunks" -> Cardinality(todo)
           [] pc = "rest" -> Caption(job.text) - at [] OTHER -> 0
Ahead == <<Phase, IF apart THEN Cardinality(todo) ELSE 0, Place, RetryLimit - attempts, Parts>>

Below(a, b) == \E i \in 1..5 : a[i] < b[i] /\ \A j \in 1..(i - 1) : a[j] = b[j]

\* Every step of a delivery takes it nearer to its end, whatever Telegram answers and
\* however often: the retries, the fallback of an album to its items and the splitting
\* of the text cannot chase one another for ever (_retry_topic_send,
\* _send_media_items_separately, _split_media_caption).
AlwaysNearer == [][TopicReady \/ Below(Ahead', Ahead)]_vars

\* MLB-029: the fallback delivers the items one by one without losing the text.
TextSurvivesFallback == pc = "linked" /\ apart => Unread = {}

-----------------------------------------------------------------------------
(* The inductive strengthening of the proofs (MediaDeliveryProofs).        *)

\* What each place of the delivery has in hand.  An item is in hand until its media
\* or its link is sent.
AtItem == apart /\ pc \in {"send", "single", "link"}
ControlOK ==
    /\ ~ready => shown = <<>> /\ at = 0 /\ pc # "rest"
    /\ pc = "chunks" /\ todo # Items => ready
    /\ pc = "items" => apart
    /\ pc = "album" \/ (pc = "chunks" /\ todo = Items) => at = 0
    /\ ~apart /\ pc \in {"resolve", "send", "album", "single", "link", "plain"} => shown = <<>>
    /\ ~apart /\ pc # "resolve" => job = Whole
    /\ pc \in {"resolve", "album", "chunks", "plain"} => ~apart
    /\ pc \in {"album", "chunks"} => Album
    /\ ~apart /\ pc \in {"single", "link", "plain"} => ~Album
    /\ pc \in {"single", "link"} => job.item \in Items
    /\ pc = "plain" => job.item \notin Items
    /\ pc \in {"chunks", "rest"} => at <= Caption(job.text)
    /\ pc = "rest" /\ ~apart => IF Album THEN todo = {} ELSE job.item \in Items
ApartOK ==
    apart => /\ Album /\ job.text \in {text, 0}
             /\ pc \in {"items", "send", "single", "rest", "link", "linked", "failed"}
             /\ (AtItem \/ pc = "rest") => job.item \in Items \ todo
             /\ pc = "linked" => todo = {}

\* What the topic shows of the text, place by place.
Excused  ==
    \E post \in Posts : post.what \in {"link", "name"}
                       \/ (post.what = "description" /\ path = "backfill")
TextDone == Unread = {} \/ Excused
ReadOK ==
    text > 0 => /\ pc \in {"chunks", "rest"} => 1..at \subseteq Read
                /\ pc = "linked" => TextDone
                /\ apart /\ pc = "items" /\ todo # Items => TextDone
                /\ apart /\ pc \in {"send", "single", "rest", "link"} /\ job.text = 0 => TextDone

\* What it shows of the items.
Seen(i) == \E post \in Posts : i \in post.items
ItemsOK ==
    /\ pc = "chunks" => \A i \in Items \ todo : Seen(i)
    /\ pc = "rest" /\ ~apart => \A i \in IF Album THEN Items ELSE {job.item} : Seen(i)
    /\ apart /\ pc # "failed" => \A i \in Items \ todo : Seen(i) \/ (AtItem /\ i = job.item)
    /\ pc = "linked" /\ ~apart =>
         \A i \in IF Album THEN Items ELSE Candidates \cap {Whole.item} :
            Seen(i) \/ GivesWayToText(i)

\* How often it shows an item.
Awaits(i) == i \in todo \/ (AtItem /\ i = job.item)
CountOK ==
    \A i \in DOMAIN attaches :
        /\ ~apart => Times(i) <= 1
        /\ pc = "chunks" => Times(i) <= IF Grouped(i) /\ i \notin todo THEN 1 ELSE 0
        /\ apart => Times(i) <= (IF Grouped(i) THEN 1 ELSE 0) + (IF Awaits(i) THEN 0 ELSE 1)

\* How often the text begins, and where its last piece ended.
Ended(n) ==
    n > 0 /\ \E k \in DOMAIN shown :
               shown[k].to = n /\ \A m \in (k + 1)..Len(shown) : ~Carries(m)
OrderOK ==
    /\ Joined
    /\ ~apart => Cardinality(Starts) <= 1
    /\ pc = "chunks" /\ todo = Items => shown = <<>>
    /\ apart => Cardinality(Starts) <= 2
    /\ apart /\ ((pc = "items" /\ todo = Items) \/ (AtItem /\ job.text > 0))
         => Cardinality(Starts) <= 1
    /\ pc = "rest" \/ (pc = "chunks" /\ todo # Items) => Ended(at)

IInv == TypeOK /\ ControlOK /\ ApartOK /\ ReadOK /\ ItemsOK /\ CountOK /\ OrderOK
=============================================================================
