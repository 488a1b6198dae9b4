------------------------ MODULE MediaDeliveryProofs ------------------------
(***************************************************************************)
(* Proofs about MediaDelivery for every message, every limit of Telegram   *)
(* and every number of failures.  IInv is inductive: a lemma for each of   *)
(* its conjuncts goes through the steps of a delivery.                     *)
(***************************************************************************)
EXTENDS MediaDelivery, FiniteSetTheorems, WellFoundedInduction, TLAPS

-----------------------------------------------------------------------------
(* The helpers of the module.                                              *)

\* A set of numbers has a lowest one.
LEMMA LowestIn ==
    ASSUME NEW S \in SUBSET Nat, S # {}
    PROVE  Lowest(S) \in S /\ \A j \in S : Lowest(S) <= j
<1>1. PICK R : IsWellFoundedOn(R, Nat) /\ \A x, y \in Nat : y < x => <<y, x>> \in R
    <2>1. \A x, y \in Nat : y < x => <<y, x>> \in OpToRel(<, Nat)
        BY DEF OpToRel
    <2>. QED
        BY <2>1, NatLessThanWellFounded
<1>2. PICK x \in S : \A y \in S : ~ (<<y, x>> \in R)
    BY <1>1, WFMin
<1>3. ASSUME NEW y \in S, y < x PROVE FALSE
    <2>1. <<y, x>> \in R
        BY <1>1, <1>3
    <2>. QED
        BY <1>2, <2>1, Zenon
<1>4. \A y \in S : x <= y
    BY <1>3
<1>. QED
    BY <1>4 DEF Lowest

\* Where the pieces of a text end.
LEMMA Lengths ==
    ASSUME NEW t \in Nat
    PROVE  /\ Caption(t) \in Nat /\ Head1(t) \in 1..Caption(t)
           /\ t = 0 => Caption(t) = PrefixLen
           /\ \A lo \in Nat : lo < Caption(t) => Upto(t, lo) \in (lo + 1)..Caption(t)
<1>1. Caption(t) \in Nat /\ Caption(t) >= 1 /\ (t = 0 => Caption(t) = PrefixLen)
    BY MessageAssumption DEF Caption
<1>2. Head1(t) \in 1..Caption(t)
    BY <1>1, LimitAssumption DEF Head1
<1>3. \A lo \in Nat : lo < Caption(t) => Upto(t, lo) \in (lo + 1)..Caption(t)
    BY <1>1, LimitAssumption DEF Upto
<1>. QED
    BY <1>1, <1>2, <1>3

\* What the message is made of.
LEMMA MessageType ==
    ASSUME TypeOK
    PROVE  /\ text \in Nat /\ job.text \in Nat
           /\ Len(attaches) \in Nat /\ DOMAIN attaches = 1..Len(attaches)
           /\ Candidates \subseteq DOMAIN attaches /\ Items \subseteq Candidates
           /\ \A i \in DOMAIN attaches : i \in 1..MaxAttaches /\ attaches[i].kind \in Kinds
<1>1. text \in Nat /\ job.text \in Nat
    <2>1. text \in Texts /\ job.text \in Texts \cup {0} /\ Texts \subseteq Nat
        BY MessageAssumption DEF TypeOK, MessageOK, LocalsOK
    <2>2. text \in Nat
        BY <2>1
    <2>3. job.text \in Nat
        <3>1. job.text \in Texts \/ job.text = 0
            BY <2>1
        <3>2. job.text \in Texts => job.text \in Nat
            BY <2>1, Zenon
        <3>. QED
            BY <3>1, <3>2
    <2>. QED
        BY <2>2, <2>3
<1>2. Len(attaches) \in Nat /\ DOMAIN attaches = 1..Len(attaches)
    BY DEF TypeOK, MessageOK
<1>3. \A i \in DOMAIN attaches : attaches[i] \in Attachment
    BY <1>2, MessageAssumption DEF TypeOK, MessageOK, LocalsOK
<1>. QED
    BY <1>1, <1>2, <1>3, MessageAssumption
    DEF TypeOK, MessageOK, LocalsOK, Candidates, Items, Attachment, Kinds

LEMMA WholeType ==
    ASSUME TypeOK
    PROVE  /\ Whole \in [kind : Kinds, item : 0..MaxAttaches, text : Texts \cup {0}]
           /\ Whole.text = text
           /\ Candidates # {} => /\ Whole.item \in Candidates
                                 /\ Whole.kind = attaches[Whole.item].kind
           /\ Candidates = {} => Whole.item = 0
<1>1. CASE Candidates = {}
    BY <1>1, MessageAssumption DEF Whole, TypeOK, MessageOK, Kinds
<1>2. CASE Candidates # {}
    <2>1. Lowest(Candidates) \in Candidates
        BY <1>2, LowestIn, MessageType
    <2>2. Lowest(Candidates) \in 1..MaxAttaches /\ attaches[Lowest(Candidates)].kind \in Kinds
        BY <2>1, MessageType
    <2>. QED
        BY <1>2, <2>1, <2>2 DEF Whole, TypeOK, MessageOK
<1>. QED
    BY <1>1, <1>2

\* An album has items, and the first chunk has the first of them.
LEMMA AlbumItems ==
    ASSUME TypeOK, Album
    PROVE  Items # {}
BY FS_EmptySet DEF Album

LEMMA ChunkType ==
    ASSUME NEW S \in SUBSET Nat, S # {}
    PROVE  Chunk(S) \subseteq S /\ Chunk(S) # {}
<1>1. PICK i \in S : \A j \in S : i <= j
    BY LowestIn
<1>2. {j \in S : j < i} = {}
    <2>1. ASSUME NEW j \in S, j < i PROVE FALSE
        BY <1>1, <2>1
    <2>. QED
        BY <2>1
<1>3. i \in Chunk(S)
    BY <1>1, <1>2, FS_EmptySet, LimitAssumption DEF Chunk
<1>. QED
    BY <1>3 DEF Chunk

\* The message does not change, nor do its URLs once they are looked up.
LEMMA Constant ==
    ASSUME [Next]_vars
    PROVE  /\ path' = path /\ text' = text /\ attaches' = attaches
           /\ Candidates' = Candidates /\ Whole' = Whole
           /\ pc # "resolve" => /\ urls' = urls /\ Items' = Items /\ Album' = Album
                                /\ \A i : GivesWayToText(i)' <=> GivesWayToText(i)
<1>1. path' = path /\ text' = text /\ attaches' = attaches
    BY DEF Next, vars, message, TopicReady, ResolveMediaUrls, SendMessageToTelegram,
           SendBackfillMessage, Route, BuildInputMedia, PrepareFails, SendApart,
           SendMediaGroup, MediaGroupRefused, EndMediaGroup, SendMedia, MediaRefused,
           SendContinuation, EndSend, SendLink, SendPlain, PlainTooLong, Fails,
           SendFails, RetryTopicSend, TopicNotFound, NextItem
<1>2. pc # "resolve" => urls' = urls
    BY DEF Next, vars, message, TopicReady, ResolveMediaUrls, SendMessageToTelegram,
           SendBackfillMessage, Route, BuildInputMedia, PrepareFails, SendApart,
           SendMediaGroup, MediaGroupRefused, EndMediaGroup, SendMedia, MediaRefused,
           SendContinuation, EndSend, SendLink, SendPlain, PlainTooLong, Fails,
           SendFails, RetryTopicSend, TopicNotFound, NextItem
<1>3. Candidates' = Candidates
    BY <1>1 DEF Candidates
<1>4. Whole' = Whole
    BY <1>1, <1>3 DEF Whole
<1>5. pc # "resolve" => Items' = Items /\ Album' = Album
    BY <1>1, <1>2 DEF Items, Album
<1>6. pc # "resolve" => \A i : GivesWayToText(i)' <=> GivesWayToText(i)
    BY <1>1, <1>2 DEF GivesWayToText
<1>. QED
    BY <1>1, <1>2, <1>3, <1>4, <1>5, <1>6

\* A step that shows nothing.
LEMMA Silent ==
    ASSUME shown' = shown, text' = text, path' = path
    PROVE  /\ Read' = Read /\ (TextDone' <=> TextDone)
           /\ \A i : /\ Seen(i)' <=> Seen(i)
                     /\ Grouped(i)' <=> Grouped(i)
                     /\ Times(i)' = Times(i)
           /\ Starts' = Starts /\ (Joined' <=> Joined) /\ \A n : Ended(n)' <=> Ended(n)
<1>1. Posts' = Posts
    BY DEF Posts
<1>2. Read' = Read
    BY <1>1 DEF Read
<1>3. Excused' <=> Excused
    BY <1>1 DEF Excused
<1>4. TextDone' <=> TextDone
    BY <1>2, <1>3 DEF TextDone, Unread
<1>5. \A i : (Seen(i)' <=> Seen(i)) /\ (Grouped(i)' <=> Grouped(i)) /\ Times(i)' = Times(i)
    BY <1>1 DEF Seen, Grouped, Times
<1>6. Starts' = Starts
    BY DEF Starts, Carries
<1>7. (Joined' <=> Joined) /\ \A n : Ended(n)' <=> Ended(n)
    BY DEF Joined, Ended, Carries
<1>. QED
    BY <1>2, <1>4, <1>5, <1>6, <1>7

\* What one more post changes.
Bears(post) == post.from <= post.to /\ post.to > PrefixLen
LEMMA Posted ==
    ASSUME TypeOK, NEW post \in PostType, Show(post)
    PROVE  /\ shown' \in Seq(PostType) /\ Len(shown') = Len(shown) + 1
           /\ DOMAIN shown = 1..Len(shown) /\ Len(shown) \in Nat
           /\ DOMAIN shown' = 1..(Len(shown) + 1)
           /\ \A k \in DOMAIN shown : shown'[k] = shown[k] /\ (Carries(k)' <=> Carries(k))
           /\ shown'[Len(shown) + 1] = post
           /\ \A k \in Nat : k = Len(shown) + 1 => (Carries(k)' <=> Bears(post))
           /\ Posts' = Posts \cup {post}
<1>1. /\ shown \in Seq(PostType) /\ shown' = Append(shown, post)
      /\ shown' \in Seq(PostType)
    BY DEF TypeOK, Show
<1>2. /\ Len(shown') = Len(shown) + 1 /\ DOMAIN shown = 1..Len(shown) /\ Len(shown) \in Nat
      /\ DOMAIN shown' = 1..(Len(shown) + 1)
      /\ \A k \in DOMAIN shown : shown'[k] = shown[k]
      /\ shown'[Len(shown) + 1] = post
    BY <1>1
<1>3. \A k \in DOMAIN shown : Carries(k)' <=> Carries(k)
    BY <1>2 DEF Carries
<1>4. \A k \in Nat : k = Len(shown) + 1 => (Carries(k)' <=> Bears(post))
    BY <1>2 DEF Carries, Bears
<1>5. Posts' = Posts \cup {post}
    BY <1>2 DEF Posts
<1>. QED
    BY <1>1, <1>2, <1>3, <1>4, <1>5

LEMMA PostReads ==
    ASSUME TypeOK, NEW post \in PostType, Show(post), text' = text, path' = path
    PROVE  /\ Read' = Read \cup (post.from..post.to)
           /\ TextDone => TextDone'
           /\ post.what \in {"link", "name"} \/ (post.what = "description" /\ path = "backfill")
                => TextDone'
           /\ \A i : Seen(i)' <=> Seen(i) \/ i \in post.items
           /\ \A i : Grouped(i)' <=> Grouped(i) \/ (post.what = "album" /\ i \in post.items)
<1>1. Posts' = Posts \cup {post}
    BY Posted
<1>2. Read' = Read \cup (post.from..post.to)
    BY <1>1 DEF Read
<1>3. Excused' <=> \/ Excused \/ post.what \in {"link", "name"}
                   \/ (post.what = "description" /\ path = "backfill")
    BY <1>1 DEF Excused
<1>4. Caption(text)' = Caption(text)
    BY DEF Caption
<1>5. Unread = {} => Unread' = {}
    BY <1>2, <1>4 DEF Unread
<1>6. \A i : Seen(i)' <=> Seen(i) \/ i \in post.items
    BY <1>1 DEF Seen
<1>7. \A i : Grouped(i)' <=> Grouped(i) \/ (post.what = "album" /\ i \in post.items)
    BY <1>1 DEF Grouped
<1>. QED
    BY <1>2, <1>3, <1>5, <1>6, <1>7 DEF TextDone

\* The numbers of posts are finite.
LEMMA Finite ==
    ASSUME TypeOK
    PROVE  /\ IsFiniteSet(Starts) /\ Cardinality(Starts) \in Nat
           /\ \A i : /\ IsFiniteSet({k \in DOMAIN shown : i \in shown[k].items})
                     /\ Times(i) \in Nat
                     /\ Times(i) > 0 <=> Seen(i)
<1>1. IsFiniteSet(DOMAIN shown)
    <2>1. DOMAIN shown = 1..Len(shown) /\ Len(shown) \in Int
        BY DEF TypeOK
    <2>. QED
        BY <2>1, FS_Interval
<1>2. IsFiniteSet(Starts) /\ Cardinality(Starts) \in Nat
    <2>1. Starts \subseteq DOMAIN shown
        BY DEF Starts
    <2>. QED
        BY <1>1, <2>1, FS_Subset, FS_CardinalityType
<1>3. ASSUME NEW i
      PROVE  /\ IsFiniteSet({k \in DOMAIN shown : i \in shown[k].items})
             /\ Times(i) \in Nat
             /\ Times(i) > 0 <=> Seen(i)
    <2>. DEFINE at_ == {k \in DOMAIN shown : i \in shown[k].items}
    <2>1. IsFiniteSet(at_)
        BY <1>1, FS_Subset
    <2>2. Cardinality(at_) \in Nat /\ (Cardinality(at_) = 0 <=> at_ = {})
        BY <2>1, FS_CardinalityType, FS_EmptySet
    <2>3. Seen(i) <=> at_ # {}
        BY DEF Seen, Posts
    <2>. QED
        BY <2>1, <2>2, <2>3 DEF Times
<1>. QED
    BY <1>2, <1>3

LEMMA PostCounts ==
    ASSUME TypeOK, NEW post \in PostType, Show(post)
    PROVE  \A i : Times(i)' = Times(i) + (IF i \in post.items THEN 1 ELSE 0)
<1>. SUFFICES ASSUME NEW i
              PROVE  Times(i)' = Times(i) + (IF i \in post.items THEN 1 ELSE 0)
    OBVIOUS
<1>. DEFINE old == {k \in DOMAIN shown : i \in shown[k].items}
            new == {k \in DOMAIN shown' : i \in shown'[k].items}
<1>1. IsFiniteSet(old) /\ Cardinality(old) \in Nat
    BY Finite DEF Times
<1>2. Len(shown) + 1 \notin old
    BY Posted
<1>3. new = IF i \in post.items THEN old \cup {Len(shown) + 1} ELSE old
    BY Posted
<1>4. Times(i) = Cardinality(old) /\ Times(i)' = Cardinality(new)
    BY DEF Times
<1>. HIDE DEF old, new
<1>5. Cardinality(old \cup {Len(shown) + 1}) = Cardinality(old) + 1
    BY <1>1, <1>2, FS_AddElement
<1>. QED
    BY <1>1, <1>3, <1>4, <1>5

LEMMA PostStarts ==
    ASSUME TypeOK, NEW post \in PostType, Show(post)
    PROVE  Cardinality(Starts)' =
               Cardinality(Starts) + (IF Bears(post) /\ post.from = 1 THEN 1 ELSE 0)
<1>1. IsFiniteSet(Starts) /\ Cardinality(Starts) \in Nat
    BY Finite
<1>2. Len(shown) + 1 \notin Starts
    BY Posted DEF Starts
<1>3. Starts' = IF Bears(post) /\ post.from = 1 THEN Starts \cup {Len(shown) + 1} ELSE Starts
    BY Posted DEF Starts
<1>4. Cardinality(Starts \cup {Len(shown) + 1}) = Cardinality(Starts) + 1
    BY <1>1, <1>2, FS_AddElement
<1>5. Cardinality(Starts)' = Cardinality(Starts')
    OBVIOUS
<1>. QED
    BY <1>1, <1>3, <1>4, <1>5

LEMMA PostJoins ==
    ASSUME TypeOK, NEW post \in PostType, Show(post)
    PROVE  /\ post.to > 0 => Ended(post.to)'
           /\ ~Bears(post) => \A n \in Nat : Ended(n) => Ended(n)'
           /\ Joined /\ (Bears(post) /\ post.from > 1 => Ended(post.from - 1)) => Joined'
<1>1. ASSUME post.to > 0 PROVE Ended(post.to)'
    <2>1. Len(shown) \in Nat /\ Len(shown') = Len(shown) + 1 /\ post.to \in Nat
        BY Posted DEF PostType
    <2>2. Len(shown') \in DOMAIN shown' /\ shown'[Len(shown')].to = post.to
        BY <2>1, Posted
    <2>3. (Len(shown') + 1)..Len(shown') = {}
        BY <2>1
    <2>. QED
        BY <1>1, <2>1, <2>2, <2>3 DEF Ended
<1>2. ASSUME ~Bears(post), NEW n \in Nat, Ended(n) PROVE Ended(n)'
    <2>1. PICK k \in DOMAIN shown :
              shown[k].to = n /\ \A m \in (k + 1)..Len(shown) : ~Carries(m)
        BY <1>2 DEF Ended
    <2>2. k \in DOMAIN shown' /\ shown'[k].to = n
        BY <2>1, Posted
    <2>3. \A m \in (k + 1)..Len(shown') : ~Carries(m)'
        BY <1>2, <2>1, Posted
    <2>. QED
        BY <1>2, <2>2, <2>3 DEF Ended
<1>3. ASSUME Joined, Bears(post) /\ post.from > 1 => Ended(post.from - 1)
      PROVE  Joined'
    <2>. SUFFICES ASSUME NEW l \in DOMAIN shown', Carries(l)', shown'[l].from > 1
                  PROVE  \E k \in 1..(l - 1) : /\ shown'[k].to + 1 = shown'[l].from
                                               /\ \A m \in (k + 1)..(l - 1) : ~Carries(m)'
        BY DEF Joined
    <2>1. CASE l \in DOMAIN shown
        <3>1. PICK k \in 1..(l - 1) : /\ shown[k].to + 1 = shown[l].from
                                      /\ \A m \in (k + 1)..(l - 1) : ~Carries(m)
            BY <1>3, <2>1, Posted DEF Joined
        <3>. QED
            BY <2>1, <3>1, Posted
    <2>2. CASE l = Len(shown) + 1
        <3>1. PICK k \in DOMAIN shown : /\ shown[k].to = post.from - 1
                                        /\ \A m \in (k + 1)..Len(shown) : ~Carries(m)
            BY <1>3, <2>2, Posted DEF Ended
        <3>2. post.from \in Nat /\ shown'[l] = post
            BY <2>2, Posted DEF PostType
        <3>3. k \in 1..(l - 1) /\ shown'[k].to + 1 = shown'[l].from
            BY <2>2, <3>1, <3>2, Posted
        <3>4. \A m \in (k + 1)..(l - 1) : ~Carries(m)'
            BY <2>2, <3>1, Posted
        <3>. QED
            BY <3>3, <3>4
    <2>. QED
        BY <2>1, <2>2, Posted
<1>. QED
    BY <1>1, <1>2, <1>3

-----------------------------------------------------------------------------
(* Type correctness.                                                       *)

LEMMA PieceType ==
    ASSUME TypeOK
    PROVE  /\ Caption(text) \in Nat /\ Caption(job.text) \in Nat
           /\ Head1(text) \in Nat /\ Head1(text) > 0 /\ Head1(text) <= Caption(text)
           /\ Head1(job.text) \in Nat /\ Head1(job.text) > 0
           /\ Head1(job.text) <= Caption(job.text)
           /\ at < Caption(job.text) => /\ Upto(job.text, at) \in Nat
                                        /\ Upto(job.text, at) > at
                                        /\ Upto(job.text, at) <= Caption(job.text)
<1>1. text \in Nat /\ job.text \in Nat /\ at \in Nat
    BY MessageType DEF TypeOK, LocalsOK
<1>2. Caption(text) \in Nat /\ Head1(text) \in 1..Caption(text)
    BY <1>1, Lengths
<1>3. Caption(job.text) \in Nat /\ Head1(job.text) \in 1..Caption(job.text)
    BY <1>1, Lengths
<1>4. at < Caption(job.text) => Upto(job.text, at) \in (at + 1)..Caption(job.text)
    BY <1>1, Lengths
<1>. QED
    BY <1>1, <1>2, <1>3, <1>4

\* What the sends show.
LEMMA PostsType ==
    ASSUME TypeOK, ControlOK
    PROVE  /\ \A n \in Nat : Post("album", Chunk(todo), 1, n) \in PostType
           /\ pc = "single" => Post(job.kind, {job.item}, 1, Head1(job.text)) \in PostType
           /\ pc = "rest" /\ at < Caption(job.text)
                => Post("text", {}, at + 1, Upto(job.text, at)) \in PostType
           /\ pc = "link" => Post("link", {job.item}, 1, PrefixLen) \in PostType
           /\ Post(PlainWhat, IF PlainWhat = "text" THEN {} ELSE {job.item} \ {0}, 1, PlainTo)
                \in PostType
<1>1. Items \subseteq 1..MaxAttaches
    BY MessageType
<1>2. Chunk(todo) \in SUBSET (1..MaxAttaches)
    BY <1>1 DEF Chunk, TypeOK, LocalsOK, Items
<1>3. job.text \in Nat /\ at \in Nat /\ PrefixLen \in Nat /\ job.kind \in Kinds
    BY MessageType, MessageAssumption DEF TypeOK, LocalsOK
<1>4. Caption(job.text) \in Nat /\ Head1(job.text) \in Nat
    BY <1>3, Lengths
<1>5. at < Caption(job.text) => Upto(job.text, at) \in Nat
    BY <1>3, <1>4, Lengths
<1>6. pc \in {"single", "link"} => {job.item} \in SUBSET (1..MaxAttaches)
    BY <1>1 DEF ControlOK
<1>7. (IF PlainWhat = "text" THEN {} ELSE {job.item} \ {0}) \in SUBSET (1..MaxAttaches)
    BY DEF TypeOK, LocalsOK
<1>8. PlainWhat \in {"name", "text", "description"}
    BY DEF PlainWhat, Rendered, RenderMessage, RenderBackfill
<1>9. PlainTo \in Nat
    BY <1>3, <1>4 DEF PlainTo
<1>10. \A n \in Nat : Post("album", Chunk(todo), 1, n) \in PostType
    BY <1>2 DEF Post, PostType
<1>11. pc = "single" => Post(job.kind, {job.item}, 1, Head1(job.text)) \in PostType
    BY <1>3, <1>4, <1>6 DEF Post, PostType
<1>12. pc = "rest" /\ at < Caption(job.text)
         => Post("text", {}, at + 1, Upto(job.text, at)) \in PostType
    BY <1>3, <1>5 DEF Post, PostType, Kinds
<1>13. pc = "link" => Post("link", {job.item}, 1, PrefixLen) \in PostType
    BY <1>3, <1>6 DEF Post, PostType
<1>14. Post(PlainWhat, IF PlainWhat = "text" THEN {} ELSE {job.item} \ {0}, 1, PlainTo)
         \in PostType
    <2>1. PlainWhat \in Kinds \cup {"album", "link", "name", "description"}
        BY <1>8 DEF Kinds
    <2>. QED
        BY <1>7, <1>9, <2>1 DEF Post, PostType
<1>. QED
    BY <1>10, <1>11, <1>12, <1>13, <1>14

LEMMA TypeInit == Init => TypeOK
<1>. SUFFICES ASSUME Init PROVE TypeOK
    OBVIOUS
<1>1. attaches \in Seq(Attachments) /\ Len(attaches) <= MaxAttaches
    <2>1. PICK n \in 0..MaxAttaches : attaches \in [1..n -> Attachments]
        BY DEF Init
    <2>2. n \in Nat /\ n <= MaxAttaches
        BY MessageAssumption
    <2>. QED
        BY <2>1, <2>2
<1>2. urls \subseteq Candidates /\ {i \in Candidates : attaches[i].url} \subseteq urls
    BY DEF Init, Candidates
<1>3. job \in [kind : Kinds, item : 0..MaxAttaches, text : Texts \cup {0}]
    <2>1. 0 \in 0..MaxAttaches
        BY MessageAssumption
    <2>. QED
        BY <2>1 DEF Init, NoJob, Kinds
<1>4. attempts \in 0..RetryLimit /\ faults \in 0..MaxFaults
    BY LimitAssumption DEF Init
<1>5. LocalsOK
    BY <1>3, <1>4 DEF Init, LocalsOK, Pcs
<1>. QED
    BY <1>1, <1>2, <1>4, <1>5 DEF Init, TypeOK, MessageOK

LEMMA TypeStep == TypeOK /\ ControlOK /\ [Next]_vars => TypeOK'
<1>. SUFFICES ASSUME TypeOK, ControlOK, [Next]_vars PROVE TypeOK'
    OBVIOUS
<1>0. pc # "resolve" => MessageOK'
    BY Constant DEF TypeOK, MessageOK
<1>1. CASE TopicReady
  <2>4. LocalsOK'
      BY <1>1, Constant DEF TopicReady, TypeOK, LocalsOK, message, locals, Pcs
  <2>5. shown' \in Seq(PostType)
      BY <1>1 DEF TopicReady, TypeOK
  <2>6. ready' \in BOOLEAN /\ faults' \in 0..MaxFaults
      BY <1>1, LimitAssumption DEF TopicReady, TypeOK
  <2>7. MessageOK'
      BY <1>1, Constant DEF TopicReady, TypeOK, MessageOK
  <2>. QED
      BY <2>4, <2>5, <2>6, <2>7 DEF TypeOK
<1>2. CASE ResolveMediaUrls
  <2>4. LocalsOK'
      BY <1>2, Constant, WholeType
         DEF ResolveMediaUrls, TypeOK, LocalsOK, message, locals, Pcs, Items
  <2>5. shown' \in Seq(PostType)
      BY <1>2 DEF ResolveMediaUrls, TypeOK
  <2>6. ready' \in BOOLEAN /\ faults' \in 0..MaxFaults
      BY <1>2, LimitAssumption DEF ResolveMediaUrls, TypeOK
  <2>7. MessageOK'
      BY <1>2, Constant DEF ResolveMediaUrls, TypeOK, MessageOK
  <2>. QED
      BY <2>4, <2>5, <2>6, <2>7 DEF TypeOK
<1>3. CASE SendMessageToTelegram
  <2>1. pc' \in {"album", "single", "plain"}
      BY <1>3 DEF SendMessageToTelegram, Route, Branch
  <2>4. LocalsOK'
      BY <1>3, Constant, <2>1, LimitAssumption
         DEF SendMessageToTelegram, Route, TypeOK, LocalsOK, message, locals, Pcs
  <2>5. shown' \in Seq(PostType)
      BY <1>3 DEF SendMessageToTelegram, Route, Branch, TypeOK
  <2>6. ready' \in BOOLEAN /\ faults' \in 0..MaxFaults
      BY <1>3, LimitAssumption DEF SendMessageToTelegram, Route, Branch, TypeOK
  <2>7. pc # "resolve"
      BY <1>3 DEF SendMessageToTelegram, Route, Branch
  <2>. QED
      BY <1>0, <2>4, <2>5, <2>6, <2>7 DEF TypeOK
<1>4. CASE SendBackfillMessage
  <2>1. pc' \in {"album", "single", "plain"}
      BY <1>4 DEF SendBackfillMessage, Route, Branch
  <2>4. LocalsOK'
      BY <1>4, Constant, <2>1, LimitAssumption
         DEF SendBackfillMessage, Route, TypeOK, LocalsOK, message, locals, Pcs
  <2>5. shown' \in Seq(PostType)
      BY <1>4 DEF SendBackfillMessage, Route, Branch, TypeOK
  <2>6. ready' \in BOOLEAN /\ faults' \in 0..MaxFaults
      BY <1>4, LimitAssumption DEF SendBackfillMessage, Route, Branch, TypeOK
  <2>7. pc # "resolve"
      BY <1>4 DEF SendBackfillMessage, Route, Branch
  <2>. QED
      BY <1>0, <2>4, <2>5, <2>6, <2>7 DEF TypeOK
<1>5. CASE BuildInputMedia
  <2>4. LocalsOK'
      BY <1>5, Constant
         DEF BuildInputMedia, TypeOK, LocalsOK, message, locals, Pcs, Items
  <2>5. shown' \in Seq(PostType)
      BY <1>5 DEF BuildInputMedia, TypeOK
  <2>6. ready' \in BOOLEAN /\ faults' \in 0..MaxFaults
      BY <1>5, LimitAssumption DEF BuildInputMedia, TypeOK
  <2>7. pc # "resolve"
      BY <1>5 DEF BuildInputMedia
  <2>. QED
      BY <1>0, <2>4, <2>5, <2>6, <2>7 DEF TypeOK
<1>6. CASE PrepareFails
  <2>4. LocalsOK'
      BY <1>6, Constant
         DEF PrepareFails, SendApart, Fault, TypeOK, LocalsOK, message, locals, Pcs,
             Items
  <2>5. shown' \in Seq(PostType)
      BY <1>6 DEF PrepareFails, SendApart, Fault, TypeOK
  <2>6. ready' \in BOOLEAN /\ faults' \in 0..MaxFaults
      BY <1>6, LimitAssumption DEF PrepareFails, SendApart, Fault, TypeOK
  <2>7. pc # "resolve"
      BY <1>6 DEF PrepareFails, SendApart, Fault
  <2>. QED
      BY <1>0, <2>4, <2>5, <2>6, <2>7 DEF TypeOK
<1>7. CASE SendMediaGroup
  <2>4. LocalsOK'
      BY <1>7, Constant, PieceType
         DEF SendMediaGroup, TypeOK, LocalsOK, message, locals, Pcs
  <2>5. shown' \in Seq(PostType)
      BY <1>7, Posted, PostsType, PieceType DEF SendMediaGroup
  <2>6. ready' \in BOOLEAN /\ faults' \in 0..MaxFaults
      BY <1>7, LimitAssumption DEF SendMediaGroup, TypeOK
  <2>7. pc # "resolve"
      BY <1>7 DEF SendMediaGroup
  <2>. QED
      BY <1>0, <2>4, <2>5, <2>6, <2>7 DEF TypeOK
<1>8. CASE MediaGroupRefused
  <2>4. LocalsOK'
      BY <1>8, Constant
         DEF MediaGroupRefused, SendApart, Fault, TypeOK, LocalsOK, message, locals,
             Pcs, Items
  <2>5. shown' \in Seq(PostType)
      BY <1>8 DEF MediaGroupRefused, SendApart, Fault, TypeOK
  <2>6. ready' \in BOOLEAN /\ faults' \in 0..MaxFaults
      BY <1>8, LimitAssumption DEF MediaGroupRefused, SendApart, Fault, TypeOK
  <2>7. pc # "resolve"
      BY <1>8 DEF MediaGroupRefused, SendApart, Fault
  <2>. QED
      BY <1>0, <2>4, <2>5, <2>6, <2>7 DEF TypeOK
<1>9. CASE EndMediaGroup
  <2>4. LocalsOK'
      BY <1>9, Constant DEF EndMediaGroup, TypeOK, LocalsOK, message, locals, Pcs
  <2>5. shown' \in Seq(PostType)
      BY <1>9 DEF EndMediaGroup, TypeOK
  <2>6. ready' \in BOOLEAN /\ faults' \in 0..MaxFaults
      BY <1>9, LimitAssumption DEF EndMediaGroup, TypeOK
  <2>7. pc # "resolve"
      BY <1>9 DEF EndMediaGroup
  <2>. QED
      BY <1>0, <2>4, <2>5, <2>6, <2>7 DEF TypeOK
<1>10. CASE SendMedia
  <2>4. LocalsOK'
      BY <1>10, Constant, PieceType
         DEF SendMedia, TypeOK, LocalsOK, message, locals, Pcs
  <2>5. shown' \in Seq(PostType)
      BY <1>10, Posted, PostsType DEF SendMedia
  <2>6. ready' \in BOOLEAN /\ faults' \in 0..MaxFaults
      BY <1>10, LimitAssumption DEF SendMedia, TypeOK
  <2>7. pc # "resolve"
      BY <1>10 DEF SendMedia
  <2>. QED
      BY <1>0, <2>4, <2>5, <2>6, <2>7 DEF TypeOK
<1>11. CASE MediaRefused
  <2>4. LocalsOK'
      BY <1>11, Constant
         DEF MediaRefused, Fault, TypeOK, LocalsOK, message, locals, Pcs
  <2>5. shown' \in Seq(PostType)
      BY <1>11 DEF MediaRefused, Fault, TypeOK
  <2>6. ready' \in BOOLEAN /\ faults' \in 0..MaxFaults
      BY <1>11, LimitAssumption DEF MediaRefused, Fault, TypeOK
  <2>7. pc # "resolve"
      BY <1>11 DEF MediaRefused, Fault
  <2>. QED
      BY <1>0, <2>4, <2>5, <2>6, <2>7 DEF TypeOK
<1>12. CASE SendContinuation
  <2>4. LocalsOK'
      BY <1>12, Constant, PieceType
         DEF SendContinuation, TypeOK, LocalsOK, message, locals, Pcs
  <2>5. shown' \in Seq(PostType)
      BY <1>12, Posted, PostsType DEF SendContinuation
  <2>6. ready' \in BOOLEAN /\ faults' \in 0..MaxFaults
      BY <1>12, LimitAssumption DEF SendContinuation, TypeOK
  <2>7. pc # "resolve"
      BY <1>12 DEF SendContinuation
  <2>. QED
      BY <1>0, <2>4, <2>5, <2>6, <2>7 DEF TypeOK
<1>13. CASE EndSend
  <2>4. LocalsOK'
      BY <1>13, Constant DEF EndSend, Sent, TypeOK, LocalsOK, message, locals, Pcs
  <2>5. shown' \in Seq(PostType)
      BY <1>13 DEF EndSend, Sent, TypeOK
  <2>6. ready' \in BOOLEAN /\ faults' \in 0..MaxFaults
      BY <1>13, LimitAssumption DEF EndSend, Sent, TypeOK
  <2>7. pc # "resolve"
      BY <1>13 DEF EndSend, Sent
  <2>. QED
      BY <1>0, <2>4, <2>5, <2>6, <2>7 DEF TypeOK
<1>14. CASE SendLink
  <2>4. LocalsOK'
      BY <1>14, Constant DEF SendLink, Sent, TypeOK, LocalsOK, message, locals, Pcs
  <2>5. shown' \in Seq(PostType)
      BY <1>14, Posted, PostsType DEF SendLink
  <2>6. ready' \in BOOLEAN /\ faults' \in 0..MaxFaults
      BY <1>14, LimitAssumption DEF SendLink, Sent, TypeOK
  <2>7. pc # "resolve"
      BY <1>14 DEF SendLink, Sent
  <2>. QED
      BY <1>0, <2>4, <2>5, <2>6, <2>7 DEF TypeOK
<1>15. CASE SendPlain
  <2>4. LocalsOK'
      BY <1>15, Constant DEF SendPlain, Sent, TypeOK, LocalsOK, message, locals, Pcs
  <2>5. shown' \in Seq(PostType)
      BY <1>15, Posted, PostsType DEF SendPlain
  <2>6. ready' \in BOOLEAN /\ faults' \in 0..MaxFaults
      BY <1>15, LimitAssumption DEF SendPlain, Sent, TypeOK
  <2>7. pc # "resolve"
      BY <1>15 DEF SendPlain, Sent
  <2>. QED
      BY <1>0, <2>4, <2>5, <2>6, <2>7 DEF TypeOK
<1>16. CASE PlainTooLong
  <2>4. LocalsOK'
      BY <1>16, Constant
         DEF PlainTooLong, Fails, TypeOK, LocalsOK, message, locals, Pcs
  <2>5. shown' \in Seq(PostType)
      BY <1>16 DEF PlainTooLong, Fails, TypeOK
  <2>6. ready' \in BOOLEAN /\ faults' \in 0..MaxFaults
      BY <1>16, LimitAssumption DEF PlainTooLong, Fails, Fault, TypeOK
  <2>7. pc # "resolve"
      BY <1>16 DEF PlainTooLong, Fails
  <2>. QED
      BY <1>0, <2>4, <2>5, <2>6, <2>7 DEF TypeOK
<1>17. CASE SendFails
  <2>4. LocalsOK'
      BY <1>17, Constant
         DEF SendFails, Fails, Fault, TypeOK, LocalsOK, message, locals, Pcs
  <2>5. shown' \in Seq(PostType)
      BY <1>17 DEF SendFails, Fails, Fault, TypeOK
  <2>6. ready' \in BOOLEAN /\ faults' \in 0..MaxFaults
      BY <1>17, LimitAssumption DEF SendFails, Fails, Fault, TypeOK
  <2>7. pc # "resolve"
      BY <1>17 DEF SendFails, Fails, Fault
  <2>. QED
      BY <1>0, <2>4, <2>5, <2>6, <2>7 DEF TypeOK
<1>18. CASE RetryTopicSend
  <2>4. LocalsOK'
      BY <1>18, Constant, LimitAssumption
         DEF RetryTopicSend, TypeOK, LocalsOK, message, locals, Pcs
  <2>5. shown' \in Seq(PostType)
      BY <1>18 DEF RetryTopicSend, TypeOK
  <2>6. ready' \in BOOLEAN /\ faults' \in 0..MaxFaults
      BY <1>18, LimitAssumption DEF RetryTopicSend, TypeOK
  <2>7. pc # "resolve"
      BY <1>18 DEF RetryTopicSend
  <2>. QED
      BY <1>0, <2>4, <2>5, <2>6, <2>7 DEF TypeOK
<1>19. CASE TopicNotFound
  <2>4. LocalsOK'
      BY <1>19, Constant
         DEF TopicNotFound, Fails, TypeOK, LocalsOK, message, locals, Pcs
  <2>5. shown' \in Seq(PostType)
      BY <1>19 DEF TopicNotFound, Fails, TypeOK
  <2>6. ready' \in BOOLEAN /\ faults' \in 0..MaxFaults
      BY <1>19, LimitAssumption DEF TopicNotFound, Fails, TypeOK
  <2>7. pc # "resolve"
      BY <1>19 DEF TopicNotFound, Fails
  <2>. QED
      BY <1>0, <2>4, <2>5, <2>6, <2>7 DEF TypeOK
<1>20. CASE NextItem
  <2>1. Lowest(todo) \in todo /\ todo \subseteq DOMAIN attaches
      BY <1>20, LowestIn, MessageType DEF NextItem, TypeOK, LocalsOK, Items
  <2>2. Lowest(todo) \in 0..MaxAttaches /\ attaches[Lowest(todo)].kind \in Kinds
      BY <2>1, MessageType
  <2>3. text \in Texts
      BY DEF TypeOK, MessageOK
  <2>4. LocalsOK'
      BY <1>20, Constant, <2>2, <2>3
         DEF NextItem, TypeOK, LocalsOK, message, locals, Pcs
  <2>5. shown' \in Seq(PostType)
      BY <1>20 DEF NextItem, TypeOK
  <2>6. ready' \in BOOLEAN /\ faults' \in 0..MaxFaults
      BY <1>20, LimitAssumption DEF NextItem, TypeOK
  <2>7. pc # "resolve"
      BY <1>20 DEF NextItem
  <2>. QED
      BY <1>0, <2>4, <2>5, <2>6, <2>7 DEF TypeOK
<1>21. CASE UNCHANGED vars
    BY <1>21, Constant DEF vars, locals, TypeOK, MessageOK, LocalsOK
<1>. QED
    BY <1>1, <1>2, <1>3, <1>4, <1>5, <1>6, <1>7, <1>8, <1>9, <1>10, <1>11, <1>12,
       <1>13, <1>14, <1>15, <1>16, <1>17, <1>18, <1>19, <1>20, <1>21
       DEF Next

-----------------------------------------------------------------------------
(* What each place of the delivery has in hand.                            *)

LEMMA ControlInit == Init => ControlOK /\ ApartOK
BY DEF Init, ControlOK, ApartOK, AtItem

LEMMA ControlStep == TypeOK /\ ControlOK /\ ApartOK /\ [Next]_vars => ControlOK' /\ ApartOK'
<1>. SUFFICES ASSUME TypeOK, ControlOK, ApartOK, [Next]_vars PROVE ControlOK' /\ ApartOK'
    OBVIOUS
<1>1. CASE TopicReady
    BY <1>1, Constant DEF TopicReady, ControlOK, ApartOK, AtItem, message, locals
<1>2. CASE ResolveMediaUrls
    BY <1>2, Constant
       DEF ResolveMediaUrls, ControlOK, ApartOK, AtItem, message, locals
<1>3. CASE SendMessageToTelegram
    BY <1>3, Constant
       DEF SendMessageToTelegram, Route, Branch, Items, ControlOK, ApartOK, AtItem,
           message, locals
<1>4. CASE SendBackfillMessage
    BY <1>4, Constant
       DEF SendBackfillMessage, Route, Branch, Items, ControlOK, ApartOK, AtItem,
           message, locals
<1>5. CASE BuildInputMedia
  <2>1. /\ pc = "album" /\ pc' = "chunks" /\ todo' = Items /\ at = 0 /\ ~apart /\ Album
        /\ job = Whole /\ UNCHANGED <<job, apart, at, ready, shown>>
      BY <1>5 DEF BuildInputMedia, ControlOK
  <2>2. 0 <= Caption(job.text)
      BY PieceType
  <2>3. ControlOK'
      BY Constant, <2>1, <2>2 DEF ControlOK
  <2>4. ApartOK'
      BY <2>1 DEF ApartOK
  <2>. QED
      BY <2>3, <2>4
<1>6. CASE PrepareFails
    BY <1>6, Constant, WholeType
       DEF PrepareFails, SendApart, Fault, ControlOK, ApartOK, AtItem, message, locals
<1>7. CASE SendMediaGroup
  <2>1. todo \ Chunk(todo) # Items
      BY <1>7, ChunkType, MessageType DEF SendMediaGroup, TypeOK, LocalsOK, Items
  <2>2. ready /\ todo' = todo \ Chunk(todo) /\ UNCHANGED <<pc, job, apart, ready>>
      BY <1>7 DEF SendMediaGroup
  <2>3. job = Whole /\ Whole.text = text /\ pc = "chunks" /\ ~apart /\ Album
      BY <1>7, WholeType DEF SendMediaGroup, ControlOK
  <2>4. at' = at \/ at' = Head1(text)
      BY <1>7 DEF SendMediaGroup
  <2>5. at' <= Caption(job.text)
      BY <2>3, <2>4, PieceType DEF ControlOK
  <2>6. ControlOK'
      BY Constant, <2>1, <2>2, <2>3, <2>5 DEF ControlOK
  <2>7. ApartOK'
      BY <2>2, <2>3 DEF ApartOK
  <2>. QED
      BY <2>6, <2>7
<1>8. CASE MediaGroupRefused
    BY <1>8, Constant, WholeType
       DEF MediaGroupRefused, SendApart, Fault, ControlOK, ApartOK, AtItem, message,
           locals
<1>9. CASE EndMediaGroup
    BY <1>9, Constant, AlbumItems, PieceType
       DEF EndMediaGroup, ControlOK, ApartOK, AtItem, message, locals
<1>10. CASE SendMedia
    BY <1>10, Constant, PieceType
       DEF SendMedia, ControlOK, ApartOK, AtItem, message, locals
<1>11. CASE MediaRefused
    BY <1>11, Constant
       DEF MediaRefused, Fault, ControlOK, ApartOK, AtItem, message, locals
<1>12. CASE SendContinuation
    BY <1>12, Constant, PieceType
       DEF SendContinuation, ControlOK, ApartOK, AtItem, message, locals
<1>13. CASE EndSend
    BY <1>13, Constant DEF EndSend, Sent, ControlOK, ApartOK, AtItem, message, locals
<1>14. CASE SendLink
    BY <1>14, Constant DEF SendLink, Sent, ControlOK, ApartOK, AtItem, message, locals
<1>15. CASE SendPlain
    BY <1>15, Constant
       DEF SendPlain, Sent, ControlOK, ApartOK, AtItem, message, locals
<1>16. CASE PlainTooLong
    BY <1>16, Constant
       DEF PlainTooLong, Fails, ControlOK, ApartOK, AtItem, message, locals
<1>17. CASE SendFails
    BY <1>17, Constant
       DEF SendFails, Fails, Fault, ControlOK, ApartOK, AtItem, message, locals
<1>18. CASE RetryTopicSend
    BY <1>18, Constant DEF RetryTopicSend, ControlOK, ApartOK, AtItem, message, locals
<1>19. CASE TopicNotFound
    BY <1>19, Constant
       DEF TopicNotFound, Fails, ControlOK, ApartOK, AtItem, message, locals
<1>20. CASE NextItem
  <2>1. Lowest(todo) \in todo /\ todo \subseteq Items
      BY <1>20, LowestIn, MessageType DEF NextItem, TypeOK, LocalsOK, Items
  <2>. QED
      BY <1>20, Constant, <2>1
         DEF NextItem, ControlOK, ApartOK, AtItem, message, locals
<1>21. CASE UNCHANGED vars
    BY <1>21, Constant DEF vars, locals, ControlOK, ApartOK, AtItem, message, locals
<1>. QED
    BY <1>1, <1>2, <1>3, <1>4, <1>5, <1>6, <1>7, <1>8, <1>9, <1>10, <1>11, <1>12,
       <1>13, <1>14, <1>15, <1>16, <1>17, <1>18, <1>19, <1>20, <1>21
       DEF Next

-----------------------------------------------------------------------------
(* The text.                                                               *)

LEMMA ReadInit == Init => ReadOK
BY DEF Init, ReadOK

\* All of the text is there when its last piece is.
LEMMA AllRead ==
    ASSUME TypeOK, NEW n \in Nat, n >= Caption(text), 1..n \subseteq Read
    PROVE  TextDone
BY PieceType DEF TextDone, Unread

LEMMA ReadStep == TypeOK /\ ControlOK /\ ApartOK /\ ReadOK /\ [Next]_vars => ReadOK'
<1>. SUFFICES ASSUME TypeOK, ControlOK, ApartOK, ReadOK, [Next]_vars PROVE ReadOK'
    OBVIOUS
<1>1. CASE TopicReady
    BY <1>1, Constant, Silent DEF TopicReady, ReadOK, message, locals
<1>2. CASE ResolveMediaUrls
    BY <1>2, Constant, Silent DEF ResolveMediaUrls, ReadOK, message, locals, ControlOK
<1>3. CASE SendMessageToTelegram
    BY <1>3, Constant, Silent
       DEF SendMessageToTelegram, Route, Branch, ReadOK, message, locals
<1>4. CASE SendBackfillMessage
    BY <1>4, Constant, Silent
       DEF SendBackfillMessage, Route, Branch, ReadOK, message, locals
<1>5. CASE BuildInputMedia
    BY <1>5, Constant, Silent DEF BuildInputMedia, ReadOK, message, locals, ControlOK
<1>6. CASE PrepareFails
    BY <1>6, Constant, Silent
       DEF PrepareFails, SendApart, Fault, ReadOK, message, locals
<1>7. CASE SendMediaGroup
  <2>1. /\ pc = "chunks" /\ pc' = "chunks" /\ apart' = apart /\ at \in Nat
      BY <1>7 DEF SendMediaGroup, TypeOK, LocalsOK
  <2>2. CASE todo = Items
    <3>. DEFINE post == Post("album", Chunk(todo), 1, Head1(text))
    <3>1. Show(post) /\ at' = Head1(text) /\ post \in PostType
        BY <1>7, <2>2, PostsType, PieceType DEF SendMediaGroup
    <3>2. post.from = 1 /\ post.to = Head1(text)
        BY DEF Post
    <3>. HIDE DEF post
    <3>. QED
        BY <2>1, <3>1, <3>2, Constant, PostReads DEF ReadOK
  <2>3. CASE todo # Items
    <3>. DEFINE post == Post("album", Chunk(todo), 1, 0)
    <3>1. Show(post) /\ at' = at /\ post \in PostType
        BY <1>7, <2>3, PostsType DEF SendMediaGroup
    <3>. HIDE DEF post
    <3>. QED
        BY <2>1, <3>1, Constant, PostReads DEF ReadOK
  <2>. QED
      BY <2>2, <2>3
<1>8. CASE MediaGroupRefused
    BY <1>8, Constant, Silent
       DEF MediaGroupRefused, SendApart, Fault, ReadOK, message, locals
<1>9. CASE EndMediaGroup
    BY <1>9, Constant, Silent DEF EndMediaGroup, ReadOK, message, locals, ControlOK
<1>10. CASE SendMedia
  <2>. DEFINE post == Post(job.kind, {job.item}, 1, Head1(job.text))
  <2>1. /\ Show(post) /\ post \in PostType /\ at' = Head1(job.text)
        /\ pc = "single" /\ pc' = "rest" /\ UNCHANGED <<job, apart>>
      BY <1>10, PostsType DEF SendMedia
  <2>2. post.from = 1 /\ post.to = Head1(job.text)
      BY DEF Post
  <2>. HIDE DEF post
  <2>. QED
      BY <2>1, <2>2, Constant, PostReads DEF ReadOK
<1>11. CASE MediaRefused
    BY <1>11, Constant, Silent DEF MediaRefused, Fault, ReadOK, message, locals
<1>12. CASE SendContinuation
  <2>. DEFINE post == Post("text", {}, at + 1, Upto(job.text, at))
  <2>1. /\ Show(post) /\ post \in PostType /\ at' = Upto(job.text, at) /\ at \in Nat
        /\ pc = "rest" /\ pc' = "rest" /\ UNCHANGED <<job, apart>>
      BY <1>12, PostsType DEF SendContinuation, TypeOK, LocalsOK
  <2>2. post.from = at + 1 /\ post.to = Upto(job.text, at)
      BY DEF Post
  <2>3. Upto(job.text, at) \in Nat
      BY <1>12, PieceType DEF SendContinuation
  <2>. HIDE DEF post
  <2>4. Read' = Read \cup ((at + 1)..Upto(job.text, at)) /\ (TextDone => TextDone')
      BY <2>1, <2>2, Constant, PostReads
  <2>5. 1..at \subseteq Read => 1..at' \subseteq Read'
      BY <2>1, <2>3, <2>4
  <2>. QED
      BY <2>1, <2>4, <2>5, Constant DEF ReadOK
<1>13. CASE EndSend
  <2>1. /\ pc = "rest" /\ at = Caption(job.text) /\ at \in Nat /\ shown' = shown
        /\ pc' \in {"items", "linked"} /\ apart' = apart
      BY <1>13 DEF EndSend, Sent, TypeOK, LocalsOK
  <2>2. job.text = text \/ (apart /\ job.text = 0)
      BY <2>1, WholeType DEF ControlOK, ApartOK
  <2>3. text > 0 => TextDone
      BY <2>1, <2>2, PieceType, AllRead DEF ReadOK
  <2>. QED
      BY <2>1, <2>3, Constant, Silent DEF ReadOK
<1>14. CASE SendLink
  <2>. DEFINE post == Post("link", {job.item}, 1, PrefixLen)
  <2>1. Show(post) /\ post \in PostType /\ pc' \in {"items", "linked"}
      BY <1>14, PostsType DEF SendLink, Sent
  <2>2. post.what = "link"
      BY DEF Post
  <2>. HIDE DEF post
  <2>. QED
      BY <2>1, <2>2, Constant, PostReads DEF ReadOK
<1>15. CASE SendPlain
  <2>. DEFINE post == Post(PlainWhat, IF PlainWhat = "text" THEN {} ELSE {job.item} \ {0},
                           1, PlainTo)
  <2>1. /\ Show(post) /\ post \in PostType /\ pc' = "linked" /\ ~apart /\ apart' = apart
        /\ job.text = text
      BY <1>15, PostsType, WholeType DEF SendPlain, Sent, ControlOK
  <2>2. post.what = PlainWhat /\ post.from = 1 /\ post.to = PlainTo
      BY DEF Post
  <2>3. /\ path = "inbound" /\ text > 0 => PlainWhat \in {"name", "text"}
        /\ PlainWhat \in {"name", "text", "description"}
        /\ PlainWhat = "text" => PlainTo = Caption(text)
      BY <2>1 DEF PlainWhat, PlainTo, Rendered, RenderMessage, RenderBackfill
  <2>4. path \in {"inbound", "backfill"}
      BY DEF TypeOK, MessageOK
  <2>. HIDE DEF post
  <2>5. text > 0 /\ PlainWhat # "text" => TextDone'
      BY <2>1, <2>2, <2>3, <2>4, Constant, PostReads
  <2>6. PlainWhat = "text" => Unread' = {}
      BY <2>1, <2>2, <2>3, Constant, PostReads DEF Unread
  <2>7. PlainWhat = "text" => TextDone'
      BY <2>6 DEF TextDone
  <2>. QED
      BY <2>1, <2>5, <2>7, Constant DEF ReadOK
<1>16. CASE PlainTooLong
    BY <1>16, Constant, Silent DEF PlainTooLong, Fails, ReadOK, message, locals
<1>17. CASE SendFails
    BY <1>17, Constant, Silent DEF SendFails, Fails, Fault, ReadOK, message, locals
<1>18. CASE RetryTopicSend
    BY <1>18, Constant, Silent DEF RetryTopicSend, ReadOK, message, locals, ControlOK
<1>19. CASE TopicNotFound
    BY <1>19, Constant, Silent DEF TopicNotFound, Fails, ReadOK, message, locals
<1>20. CASE NextItem
    BY <1>20, Constant, Silent DEF NextItem, ReadOK, message, locals, ControlOK
<1>21. CASE UNCHANGED vars
    BY <1>21, Constant, Silent DEF vars, locals, ReadOK, message, locals
<1>. QED
    BY <1>1, <1>2, <1>3, <1>4, <1>5, <1>6, <1>7, <1>8, <1>9, <1>10, <1>11, <1>12,
       <1>13, <1>14, <1>15, <1>16, <1>17, <1>18, <1>19, <1>20, <1>21
       DEF Next

-----------------------------------------------------------------------------
(* The items, and how often they are shown.                                *)

LEMMA NothingShown ==
    ASSUME shown = <<>>
    PROVE  /\ \A i : Times(i) = 0 /\ ~Grouped(i)
           /\ Cardinality(Starts) = 0 /\ Joined
<1>1. DOMAIN shown = {}
    OBVIOUS
<1>2. Starts = {} /\ Joined /\ \A i : ~Grouped(i)
    BY <1>1 DEF Starts, Joined, Grouped, Posts
<1>3. \A i : {k \in DOMAIN shown : i \in shown[k].items} = {}
    BY <1>1
<1>. QED
    BY <1>2, <1>3, FS_EmptySet DEF Times

LEMMA ItemsInit == Init => ItemsOK /\ CountOK
<1>. SUFFICES ASSUME Init PROVE ItemsOK /\ CountOK
    OBVIOUS
<1>1. ItemsOK
    BY DEF Init, ItemsOK
<1>2. \A i : Times(i) = 0
    BY NothingShown DEF Init
<1>3. CountOK
    BY <1>2 DEF Init, CountOK
<1>. QED
    BY <1>1, <1>3

LEMMA ItemsStep == TypeOK /\ ControlOK /\ ApartOK /\ ItemsOK /\ [Next]_vars => ItemsOK'
<1>. SUFFICES ASSUME TypeOK, ControlOK, ApartOK, ItemsOK, [Next]_vars PROVE ItemsOK'
    OBVIOUS
<1>1. CASE TopicReady
    BY <1>1, Constant, Silent
       DEF TopicReady, ItemsOK, ControlOK, ApartOK, AtItem, message, locals
<1>2. CASE ResolveMediaUrls
    BY <1>2, Constant, Silent
       DEF ResolveMediaUrls, ItemsOK, ControlOK, ApartOK, AtItem, message, locals
<1>3. CASE SendMessageToTelegram
  <2>1. /\ pc = "send" /\ pc' \in {"album", "single", "plain"}
        /\ UNCHANGED <<job, apart, todo, shown>>
      BY <1>3 DEF SendMessageToTelegram, Route, Branch
  <2>2. apart => pc' = "single"
      BY <1>3, <2>1 DEF SendMessageToTelegram, Route, Branch, ApartOK, AtItem, Items
  <2>. QED
      BY <2>1, <2>2, Constant, Silent DEF ItemsOK, AtItem
<1>4. CASE SendBackfillMessage
  <2>1. /\ pc = "send" /\ pc' \in {"album", "single", "plain"}
        /\ UNCHANGED <<job, apart, todo, shown>>
      BY <1>4 DEF SendBackfillMessage, Route, Branch
  <2>2. apart => pc' = "single"
      BY <1>4, <2>1 DEF SendBackfillMessage, Route, Branch, ApartOK, AtItem, Items
  <2>. QED
      BY <2>1, <2>2, Constant, Silent DEF ItemsOK, AtItem
<1>5. CASE BuildInputMedia
    BY <1>5, Constant, Silent
       DEF BuildInputMedia, ItemsOK, ControlOK, ApartOK, AtItem, message, locals
<1>6. CASE PrepareFails
    BY <1>6, Constant, Silent
       DEF PrepareFails, SendApart, Fault, ItemsOK, ControlOK, ApartOK, AtItem,
           message, locals
<1>7. CASE SendMediaGroup
  <2>1. PICK k \in Nat : Show(Post("album", Chunk(todo), 1, k))
      BY <1>7, PieceType DEF SendMediaGroup
  <2>. DEFINE post == Post("album", Chunk(todo), 1, k)
  <2>2. Show(post) /\ post \in PostType /\ post.items = Chunk(todo)
      BY <2>1, PostsType DEF Post
  <2>. HIDE DEF post
  <2>3. /\ pc = "chunks" /\ ~apart /\ todo' = todo \ Chunk(todo)
        /\ UNCHANGED <<pc, apart, job>>
      BY <1>7 DEF SendMediaGroup, ControlOK
  <2>. QED
      BY <2>2, <2>3, Constant, PostReads DEF ItemsOK
<1>8. CASE MediaGroupRefused
    BY <1>8, Constant, Silent
       DEF MediaGroupRefused, SendApart, Fault, ItemsOK, ControlOK, ApartOK, AtItem,
           message, locals
<1>9. CASE EndMediaGroup
    BY <1>9, Constant, Silent
       DEF EndMediaGroup, ItemsOK, ControlOK, ApartOK, AtItem, message, locals
<1>10. CASE SendMedia
  <2>. DEFINE post == Post(job.kind, {job.item}, 1, Head1(job.text))
  <2>1. Show(post) /\ post \in PostType /\ post.items = {job.item}
      BY <1>10, PostsType DEF SendMedia, Post
  <2>. HIDE DEF post
  <2>2. \A j : Seen(j)' <=> Seen(j) \/ j = job.item
      BY <2>1, Constant, PostReads
  <2>. QED
      BY <1>10, <2>2, Constant, WholeType
         DEF SendMedia, ItemsOK, ControlOK, ApartOK, AtItem, message, locals
<1>11. CASE MediaRefused
    BY <1>11, Constant, Silent
       DEF MediaRefused, Fault, ItemsOK, ControlOK, ApartOK, AtItem, message, locals
<1>12. CASE SendContinuation
  <2>. DEFINE post == Post("text", {}, at + 1, Upto(job.text, at))
  <2>1. Show(post) /\ post \in PostType
      BY <1>12, PostsType DEF SendContinuation
  <2>. HIDE DEF post
  <2>2. \A j : Seen(j) => Seen(j)'
      BY <2>1, Constant, PostReads
  <2>. QED
      BY <1>12, <2>2, Constant
         DEF SendContinuation, ItemsOK, ControlOK, ApartOK, AtItem, message, locals
<1>13. CASE EndSend
    BY <1>13, Constant, Silent, WholeType
       DEF EndSend, Sent, ItemsOK, ControlOK, ApartOK, AtItem, message, locals
<1>14. CASE SendLink
  <2>. DEFINE post == Post("link", {job.item}, 1, PrefixLen)
  <2>1. Show(post) /\ post \in PostType /\ post.items = {job.item}
      BY <1>14, PostsType DEF SendLink, Post
  <2>. HIDE DEF post
  <2>2. \A j : Seen(j)' <=> Seen(j) \/ j = job.item
      BY <2>1, Constant, PostReads
  <2>. QED
      BY <1>14, <2>2, Constant, WholeType
         DEF SendLink, Sent, ItemsOK, ControlOK, ApartOK, AtItem, message, locals
<1>15. CASE SendPlain
  <2>. DEFINE post == Post(PlainWhat, IF PlainWhat = "text" THEN {} ELSE {job.item} \ {0},
                           1, PlainTo)
  <2>1. /\ Show(post) /\ post \in PostType /\ pc' = "linked" /\ pc = "plain" /\ ~apart
        /\ apart' = apart /\ job = Whole /\ ~Album /\ job.item \notin Items
      BY <1>15, PostsType DEF SendPlain, Sent, ControlOK
  <2>2. post.items = IF PlainWhat = "text" THEN {} ELSE {job.item} \ {0}
      BY DEF Post
  <2>. HIDE DEF post
  <2>3. \A j : Seen(j)' <=> Seen(j) \/ j \in post.items
      BY <2>1, Constant, PostReads
  <2>4. ASSUME NEW j \in Candidates, j = Whole.item
        PROVE  Seen(j)' \/ GivesWayToText(j)
    <3>1. j # 0 /\ Whole.kind = attaches[j].kind /\ attaches[j] \in Attachment /\ Candidate(attaches[j])
        BY <2>4, WholeType, MessageType, MessageAssumption DEF TypeOK, MessageOK, Candidates
    <3>2. job.kind # "text" /\ job.text = text /\ text \in Nat
        BY <2>1, <3>1, WholeType, MessageType DEF Attachment, AttachKinds
    <3>3. path \in {"inbound", "backfill"}
        BY DEF TypeOK, MessageOK
    <3>4. PlainWhat # "text" \/ (text > 0 /\ path = "inbound" /\ job.kind # "document")
        BY <3>2, <3>3 DEF PlainWhat, Rendered, RenderMessage, RenderBackfill
    <3>5. j \notin urls /\ ~attaches[j].url
        BY <2>1, <2>4 DEF TypeOK, MessageOK, Items
    <3>6. job.kind = attaches[j].kind
        BY <2>1, <3>1
    <3>7. PlainWhat # "text" \/ GivesWayToText(j)
        BY <3>1, <3>4, <3>5, <3>6 DEF GivesWayToText, Candidate
    <3>. QED
        BY <2>1, <2>2, <2>3, <2>4, <3>1, <3>7
  <2>. QED
      BY <2>1, <2>4, Constant DEF ItemsOK, GivesWayToText
<1>16. CASE PlainTooLong
    BY <1>16, Constant, Silent
       DEF PlainTooLong, Fails, ItemsOK, ControlOK, ApartOK, AtItem, message, locals
<1>17. CASE SendFails
    BY <1>17, Constant, Silent
       DEF SendFails, Fails, Fault, ItemsOK, ControlOK, ApartOK, AtItem, message,
           locals
<1>18. CASE RetryTopicSend
    BY <1>18, Constant, Silent
       DEF RetryTopicSend, ItemsOK, ControlOK, ApartOK, AtItem, message, locals
<1>19. CASE TopicNotFound
    BY <1>19, Constant, Silent
       DEF TopicNotFound, Fails, ItemsOK, ControlOK, ApartOK, AtItem, message, locals
<1>20. CASE NextItem
  <2>1. Lowest(todo) \in todo /\ todo \subseteq Items
      BY <1>20, LowestIn, MessageType DEF NextItem, TypeOK, LocalsOK, Items
  <2>. QED
      BY <1>20, Constant, Silent, <2>1
         DEF NextItem, ItemsOK, ControlOK, ApartOK, AtItem, message, locals
<1>21. CASE UNCHANGED vars
    BY <1>21, Constant, Silent
       DEF vars, locals, ItemsOK, ControlOK, ApartOK, AtItem, message, locals
<1>. QED
    BY <1>1, <1>2, <1>3, <1>4, <1>5, <1>6, <1>7, <1>8, <1>9, <1>10, <1>11, <1>12,
       <1>13, <1>14, <1>15, <1>16, <1>17, <1>18, <1>19, <1>20, <1>21
       DEF Next

LEMMA CountStep == TypeOK /\ ControlOK /\ ApartOK /\ CountOK /\ [Next]_vars => CountOK'
<1>. SUFFICES ASSUME TypeOK, ControlOK, ApartOK, CountOK, [Next]_vars PROVE CountOK'
    OBVIOUS
<1>0. \A i : Times(i) \in Nat
    BY Finite
<1>1. CASE TopicReady
    BY <1>1, <1>0, Constant, Silent
       DEF TopicReady, CountOK, Awaits, ControlOK, ApartOK, AtItem, message, locals
<1>2. CASE ResolveMediaUrls
    BY <1>2, <1>0, Constant, Silent
       DEF ResolveMediaUrls, CountOK, Awaits, ControlOK, ApartOK, AtItem, message,
           locals
<1>3. CASE SendMessageToTelegram
    BY <1>3, <1>0, Constant, Silent
       DEF SendMessageToTelegram, Route, Branch, CountOK, Awaits, ControlOK, ApartOK,
           AtItem, message, locals
<1>4. CASE SendBackfillMessage
    BY <1>4, <1>0, Constant, Silent
       DEF SendBackfillMessage, Route, Branch, CountOK, Awaits, ControlOK, ApartOK,
           AtItem, message, locals
<1>5. CASE BuildInputMedia
    BY <1>5, <1>0, Constant, Silent, NothingShown
       DEF BuildInputMedia, CountOK, Awaits, ControlOK, ApartOK, AtItem, message,
           locals
<1>6. CASE PrepareFails
    BY <1>6, <1>0, Constant, Silent, NothingShown
       DEF PrepareFails, SendApart, Fault, CountOK, Awaits, ControlOK, ApartOK,
           AtItem, message, locals
<1>7. CASE SendMediaGroup
  <2>1. PICK k \in Nat : Show(Post("album", Chunk(todo), 1, k))
      BY <1>7, PieceType DEF SendMediaGroup
  <2>. DEFINE post == Post("album", Chunk(todo), 1, k)
  <2>2. /\ Show(post) /\ post \in PostType
        /\ post.items = Chunk(todo) /\ post.what = "album"
      BY <2>1, PostsType DEF Post
  <2>. HIDE DEF post
  <2>3. /\ pc = "chunks" /\ ~apart /\ todo' = todo \ Chunk(todo) /\ Chunk(todo) \subseteq todo
        /\ UNCHANGED <<pc, apart, job>>
      BY <1>7 DEF SendMediaGroup, ControlOK, Chunk
  <2>4. \A j : /\ Times(j)' = Times(j) + (IF j \in Chunk(todo) THEN 1 ELSE 0)
               /\ Grouped(j)' <=> Grouped(j) \/ j \in Chunk(todo)
      BY <2>2, Constant, PostReads, PostCounts
  <2>. SUFFICES ASSUME NEW j \in DOMAIN attaches
                PROVE  /\ Times(j)' <= 1
                       /\ Times(j)' <= IF Grouped(j)' /\ j \notin todo' THEN 1 ELSE 0
      BY <2>3, Constant DEF CountOK
  <2>5. Times(j) \in Nat /\ Times(j) <= IF Grouped(j) /\ j \notin todo THEN 1 ELSE 0
      BY <1>0, <2>3 DEF CountOK
  <2>6. CASE j \in Chunk(todo)
      BY <2>3, <2>4, <2>5, <2>6
  <2>7. CASE j \notin Chunk(todo)
      BY <2>3, <2>4, <2>5, <2>7
  <2>. QED
      BY <2>6, <2>7
<1>8. CASE MediaGroupRefused
    BY <1>8, <1>0, Constant, Silent
       DEF MediaGroupRefused, SendApart, Fault, CountOK, Awaits, ControlOK, ApartOK,
           AtItem, message, locals
<1>9. CASE EndMediaGroup
    BY <1>9, <1>0, Constant, Silent
       DEF EndMediaGroup, CountOK, Awaits, ControlOK, ApartOK, AtItem, message, locals
<1>10. CASE SendMedia
  <2>. DEFINE post == Post(job.kind, {job.item}, 1, Head1(job.text))
  <2>1. Show(post) /\ post \in PostType /\ post.items = {job.item}
      BY <1>10, PostsType DEF SendMedia, Post
  <2>. HIDE DEF post
  <2>2. \A j : /\ Times(j)' = Times(j) + (IF j = job.item THEN 1 ELSE 0)
               /\ Grouped(j) => Grouped(j)'
      BY <2>1, Constant, PostReads, PostCounts
  <2>3. ~apart => \A j : Times(j) = 0
      BY <1>10, NothingShown DEF SendMedia, ControlOK
  <2>4. /\ pc \in {"single", "link"} /\ pc' \in {"rest", "items", "linked"}
        /\ UNCHANGED <<job, apart, todo>>
      BY <1>10 DEF SendMedia, Sent
  <2>5. apart => job.item \notin todo
      BY <2>4 DEF ApartOK, AtItem, ControlOK
  <2>. SUFFICES ASSUME NEW j \in DOMAIN attaches
                PROVE  /\ ~apart => Times(j)' <= 1
                       /\ apart => Times(j)' <= (IF Grouped(j)' THEN 1 ELSE 0)
                                                + (IF Awaits(j)' THEN 0 ELSE 1)
      BY <2>4, Constant DEF CountOK
  <2>6. Times(j) \in Nat
      BY <1>0
  <2>7. CASE ~apart
      BY <2>2, <2>3, <2>7
  <2>8. CASE apart
    <3>1. Times(j) <= (IF Grouped(j) THEN 1 ELSE 0) + (IF Awaits(j) THEN 0 ELSE 1)
        BY <2>8 DEF CountOK
    <3>2. Awaits(j) <=> j \in todo \/ j = job.item
        BY <2>4, <2>8 DEF Awaits, AtItem
    <3>3. Awaits(j)' <=> j \in todo
        BY <2>4, <2>8 DEF Awaits, AtItem
    <3>. QED
        BY <2>2, <2>5, <2>6, <2>8, <3>1, <3>2, <3>3
  <2>. QED
      BY <2>7, <2>8
<1>11. CASE MediaRefused
    BY <1>11, <1>0, Constant, Silent
       DEF MediaRefused, Fault, CountOK, Awaits, ControlOK, ApartOK, AtItem, message,
           locals
<1>12. CASE SendContinuation
  <2>. DEFINE post == Post("text", {}, at + 1, Upto(job.text, at))
  <2>1. Show(post) /\ post \in PostType /\ post.items = {}
      BY <1>12, PostsType DEF SendContinuation, Post
  <2>. HIDE DEF post
  <2>2. \A j : Times(j)' = Times(j) /\ (Grouped(j) => Grouped(j)')
      BY <2>1, <1>0, Constant, PostReads, PostCounts
  <2>. QED
      BY <1>12, <2>2, <1>0, Constant
         DEF SendContinuation, CountOK, Awaits, ControlOK, ApartOK, AtItem, message,
             locals
<1>13. CASE EndSend
    BY <1>13, <1>0, Constant, Silent
       DEF EndSend, Sent, CountOK, Awaits, ControlOK, ApartOK, AtItem, message, locals
<1>14. CASE SendLink
  <2>. DEFINE post == Post("link", {job.item}, 1, PrefixLen)
  <2>1. Show(post) /\ post \in PostType /\ post.items = {job.item}
      BY <1>14, PostsType DEF SendLink, Post
  <2>. HIDE DEF post
  <2>2. \A j : /\ Times(j)' = Times(j) + (IF j = job.item THEN 1 ELSE 0)
               /\ Grouped(j) => Grouped(j)'
      BY <2>1, Constant, PostReads, PostCounts
  <2>3. ~apart => \A j : Times(j) = 0
      BY <1>14, NothingShown DEF SendLink, ControlOK
  <2>4. /\ pc \in {"single", "link"} /\ pc' \in {"rest", "items", "linked"}
        /\ UNCHANGED <<job, apart, todo>>
      BY <1>14 DEF SendLink, Sent
  <2>5. apart => job.item \notin todo
      BY <2>4 DEF ApartOK, AtItem, ControlOK
  <2>. SUFFICES ASSUME NEW j \in DOMAIN attaches
                PROVE  /\ ~apart => Times(j)' <= 1
                       /\ apart => Times(j)' <= (IF Grouped(j)' THEN 1 ELSE 0)
                                                + (IF Awaits(j)' THEN 0 ELSE 1)
      BY <2>4, Constant DEF CountOK
  <2>6. Times(j) \in Nat
      BY <1>0
  <2>7. CASE ~apart
      BY <2>2, <2>3, <2>7
  <2>8. CASE apart
    <3>1. Times(j) <= (IF Grouped(j) THEN 1 ELSE 0) + (IF Awaits(j) THEN 0 ELSE 1)
        BY <2>8 DEF CountOK
    <3>2. Awaits(j) <=> j \in todo \/ j = job.item
        BY <2>4, <2>8 DEF Awaits, AtItem
    <3>3. Awaits(j)' <=> j \in todo
        BY <2>4, <2>8 DEF Awaits, AtItem
    <3>. QED
        BY <2>2, <2>5, <2>6, <2>8, <3>1, <3>2, <3>3
  <2>. QED
      BY <2>7, <2>8
<1>15. CASE SendPlain
  <2>. DEFINE post == Post(PlainWhat, IF PlainWhat = "text" THEN {} ELSE {job.item} \ {0},
                           1, PlainTo)
  <2>1. /\ Show(post) /\ post \in PostType /\ pc' = "linked" /\ ~apart /\ apart' = apart
        /\ shown = <<>>
      BY <1>15, PostsType DEF SendPlain, Sent, ControlOK
  <2>. HIDE DEF post
  <2>2. \A j : Times(j)' <= 1
      BY <2>1, PostCounts, NothingShown
  <2>. QED
      BY <2>1, <2>2, Constant DEF CountOK
<1>16. CASE PlainTooLong
    BY <1>16, <1>0, Constant, Silent
       DEF PlainTooLong, Fails, CountOK, Awaits, ControlOK, ApartOK, AtItem, message,
           locals
<1>17. CASE SendFails
    BY <1>17, <1>0, Constant, Silent
       DEF SendFails, Fails, Fault, CountOK, Awaits, ControlOK, ApartOK, AtItem,
           message, locals
<1>18. CASE RetryTopicSend
    BY <1>18, <1>0, Constant, Silent, NothingShown
       DEF RetryTopicSend, CountOK, Awaits, ControlOK, ApartOK, AtItem, message,
           locals
<1>19. CASE TopicNotFound
    BY <1>19, <1>0, Constant, Silent
       DEF TopicNotFound, Fails, CountOK, Awaits, ControlOK, ApartOK, AtItem, message,
           locals
<1>20. CASE NextItem
  <2>1. Lowest(todo) \in todo /\ todo \subseteq Items
      BY <1>20, LowestIn, MessageType DEF NextItem, TypeOK, LocalsOK, Items
  <2>. QED
      BY <1>20, <1>0, Constant, Silent, <2>1
         DEF NextItem, CountOK, Awaits, ControlOK, ApartOK, AtItem, message, locals
<1>21. CASE UNCHANGED vars
    BY <1>21, <1>0, Constant, Silent
       DEF vars, locals, CountOK, Awaits, ControlOK, ApartOK, AtItem, message, locals
<1>. QED
    BY <1>1, <1>2, <1>3, <1>4, <1>5, <1>6, <1>7, <1>8, <1>9, <1>10, <1>11, <1>12,
       <1>13, <1>14, <1>15, <1>16, <1>17, <1>18, <1>19, <1>20, <1>21
       DEF Next

-----------------------------------------------------------------------------
(* OrderOK.                                                                *)

LEMMA OrderInit == Init => OrderOK
BY NothingShown DEF Init, OrderOK, AtItem

LEMMA OrderStep == TypeOK /\ ControlOK /\ ApartOK /\ OrderOK /\ [Next]_vars => OrderOK'
<1>. SUFFICES ASSUME TypeOK, ControlOK, ApartOK, OrderOK, [Next]_vars PROVE OrderOK'
    OBVIOUS
<1>1. CASE TopicReady
    BY <1>1, Constant, Silent
       DEF TopicReady, OrderOK, ControlOK, ApartOK, AtItem, message, locals
<1>2. CASE ResolveMediaUrls
    BY <1>2, Constant, Silent
       DEF ResolveMediaUrls, OrderOK, ControlOK, ApartOK, AtItem, message, locals
<1>3. CASE SendMessageToTelegram
    BY <1>3, Constant, Silent
       DEF SendMessageToTelegram, Route, Branch, OrderOK, ControlOK, ApartOK, AtItem,
           message, locals
<1>4. CASE SendBackfillMessage
    BY <1>4, Constant, Silent
       DEF SendBackfillMessage, Route, Branch, OrderOK, ControlOK, ApartOK, AtItem,
           message, locals
<1>5. CASE BuildInputMedia
    BY <1>5, Constant, Silent, NothingShown
       DEF BuildInputMedia, OrderOK, ControlOK, ApartOK, AtItem, message, locals
<1>6. CASE PrepareFails
  <2>1. ~apart /\ Cardinality(Starts) \in Nat
      BY <1>6, Finite DEF PrepareFails, ControlOK
  <2>. QED
      BY <1>6, Constant, Silent, <2>1
         DEF PrepareFails, SendApart, Fault, OrderOK, AtItem, message
<1>7. CASE SendMediaGroup
  <2>0. /\ pc = "chunks" /\ ~apart /\ pc' = pc /\ apart' = apart /\ job' = job
        /\ todo' = todo \ Chunk(todo) /\ todo # {} /\ todo \in SUBSET Nat /\ todo \subseteq Items
      BY <1>7, MessageType DEF SendMediaGroup, ControlOK, TypeOK, LocalsOK, Items
  <2>1. todo' # Items' /\ Items' = Items
      BY <2>0, ChunkType, Constant
  <2>2. CASE todo = Items
    <3>1. PICK post \in PostType :
              Show(post) /\ post.from = 1 /\ post.to = at' /\ at' = Head1(text)
        BY <1>7, <2>2, PostsType, PieceType DEF SendMediaGroup, Post
    <3>2. Cardinality(Starts) = 0 /\ Joined
        BY <2>0, <2>2, NothingShown DEF OrderOK
    <3>3. Cardinality(Starts)' <= 1 /\ Joined'
        BY <3>1, <3>2, PostStarts, PostJoins
    <3>4. Ended(at)'
        BY <3>1, PieceType, PostJoins DEF Ended
    <3>. QED
        BY <2>0, <2>1, <3>3, <3>4 DEF OrderOK, AtItem
  <2>3. CASE todo # Items
    <3>1. PICK post \in PostType : Show(post) /\ post.to = 0
        BY <1>7, <2>3, PostsType DEF SendMediaGroup, Post
    <3>2. ~Bears(post)
        BY <3>1, MessageAssumption DEF Bears
    <3>3. Cardinality(Starts)' = Cardinality(Starts) /\ Joined' /\ Cardinality(Starts) <= 1
        BY <2>0, <3>1, <3>2, Finite, PostStarts, PostJoins DEF OrderOK
    <3>4. at' = at /\ at \in Nat /\ Ended(at)
        BY <1>7, <2>0, <2>3 DEF SendMediaGroup, OrderOK, TypeOK, LocalsOK
    <3>5. Ended(at)'
        BY <3>1, <3>2, <3>4, PostJoins DEF Ended
    <3>. QED
        BY <2>0, <2>1, <3>3, <3>5 DEF OrderOK, AtItem
  <2>. QED
      BY <2>2, <2>3
<1>8. CASE MediaGroupRefused
  <2>1. ~apart /\ Cardinality(Starts) \in Nat
      BY <1>8, Finite DEF MediaGroupRefused, ControlOK
  <2>. QED
      BY <1>8, Constant, Silent, <2>1
         DEF MediaGroupRefused, SendApart, Fault, OrderOK, AtItem, message
<1>9. CASE EndMediaGroup
  <2>1. Items # {}
      BY <1>9, AlbumItems DEF EndMediaGroup, ControlOK
  <2>. QED
      BY <1>9, Constant, Silent, <2>1
         DEF EndMediaGroup, OrderOK, ControlOK, ApartOK, AtItem, message, locals
<1>10. CASE SendMedia
  <2>0. /\ pc = "single" /\ pc' = "rest" /\ UNCHANGED <<job, apart, todo>>
      BY <1>10 DEF SendMedia
  <2>1. PICK post \in PostType : Show(post) /\ post.from = 1 /\ post.to = at'
                                  /\ at' = Head1(job.text)
      BY <1>10, PostsType, PieceType DEF SendMedia, Post
  <2>2. Ended(at)'
      BY <2>1, PieceType, PostJoins DEF Ended
  <2>3. Joined'
      BY <2>1, PostJoins DEF OrderOK
  <2>4. ~apart => Cardinality(Starts) = 0
      BY <2>0, NothingShown DEF ControlOK
  <2>5. apart => Cardinality(Starts) <= IF job.text > 0 THEN 1 ELSE 2
      BY <2>0 DEF OrderOK, AtItem
  <2>6. job.text = 0 => ~Bears(post)
      BY <2>1, Lengths, MessageType DEF Bears
  <2>7. job.text \in Nat
      BY MessageType
  <2>8. Cardinality(Starts)' <= IF apart THEN 2 ELSE 1
      BY <2>1, <2>4, <2>5, <2>6, <2>7, Finite, PostStarts
  <2>. QED
      BY <2>0, <2>2, <2>3, <2>8 DEF OrderOK, AtItem
<1>11. CASE MediaRefused
    BY <1>11, Constant, Silent
       DEF MediaRefused, Fault, OrderOK, ControlOK, ApartOK, AtItem, message, locals
<1>12. CASE SendContinuation
  <2>0. /\ pc = "rest" /\ pc' = pc /\ UNCHANGED <<job, apart, todo>> /\ at \in Nat
        /\ at < Caption(job.text)
      BY <1>12 DEF SendContinuation, TypeOK, LocalsOK
  <2>1. PICK post \in PostType : Show(post) /\ post.from = at + 1 /\ post.to = at'
                                  /\ at' = Upto(job.text, at)
      BY <1>12, <2>0, PostsType, PieceType DEF SendContinuation, Post
  <2>2. Ended(at) /\ at > 0
      BY <2>0 DEF OrderOK, Ended
  <2>3. Ended(at)'
      BY <2>0, <2>1, PieceType, PostJoins DEF Ended
  <2>4. Joined'
    <3>1. post.from - 1 = at
        BY <2>0, <2>1
    <3>. QED
        BY <2>1, <2>2, <3>1, PostJoins DEF OrderOK
  <2>5. Cardinality(Starts)' = Cardinality(Starts)
      BY <2>0, <2>1, <2>2, Finite, PostStarts
  <2>. QED
      BY <2>0, <2>3, <2>4, <2>5 DEF OrderOK, AtItem
<1>13. CASE EndSend
    BY <1>13, Constant, Silent
       DEF EndSend, Sent, OrderOK, ControlOK, ApartOK, AtItem, message, locals
<1>14. CASE SendLink
  <2>0. /\ pc = "link" /\ Sent /\ UNCHANGED <<job, apart, todo>>
      BY <1>14 DEF SendLink
  <2>1. PICK post \in PostType : Show(post) /\ post.to = PrefixLen
      BY <1>14, PostsType DEF SendLink, Post
  <2>2. ~Bears(post)
      BY <2>1, MessageAssumption DEF Bears
  <2>3. Cardinality(Starts)' = Cardinality(Starts) /\ Joined'
      BY <2>1, <2>2, Finite, PostStarts, PostJoins DEF OrderOK
  <2>4. apart => job.item \in Items \ todo
      BY <2>0 DEF ApartOK, AtItem
  <2>. QED
      BY <2>0, <2>3, <2>4, Constant DEF OrderOK, AtItem, Sent
<1>15. CASE SendPlain
  <2>0. /\ pc = "plain" /\ Sent /\ UNCHANGED <<job, apart, todo>>
      BY <1>15 DEF SendPlain
  <2>1. PICK post \in PostType : Show(post) /\ post.from = 1
      BY <1>15, PostsType DEF SendPlain, Post
  <2>2. Cardinality(Starts) = 0 /\ Joined /\ ~apart
      BY <2>0, NothingShown DEF ControlOK
  <2>3. Cardinality(Starts)' <= 1 /\ Joined'
      BY <2>1, <2>2, PostStarts, PostJoins
  <2>. QED
      BY <2>0, <2>2, <2>3 DEF OrderOK, AtItem, Sent
<1>16. CASE PlainTooLong
    BY <1>16, Constant, Silent
       DEF PlainTooLong, Fails, OrderOK, ControlOK, ApartOK, AtItem, message, locals
<1>17. CASE SendFails
    BY <1>17, Constant, Silent
       DEF SendFails, Fails, Fault, OrderOK, ControlOK, ApartOK, AtItem, message,
           locals
<1>18. CASE RetryTopicSend
    BY <1>18, Constant, Silent, NothingShown
       DEF RetryTopicSend, OrderOK, ControlOK, ApartOK, AtItem, message, locals
<1>19. CASE TopicNotFound
    BY <1>19, Constant, Silent
       DEF TopicNotFound, Fails, OrderOK, ControlOK, ApartOK, AtItem, message, locals
<1>20. CASE NextItem
  <2>1. Lowest(todo) \in todo /\ todo \subseteq Items
      BY <1>20, LowestIn, MessageType DEF NextItem, TypeOK, LocalsOK, Items
  <2>. QED
      BY <1>20, Constant, Silent, <2>1
         DEF NextItem, OrderOK, ControlOK, ApartOK, AtItem, message, locals
<1>21. CASE UNCHANGED vars
    BY <1>21, Constant, Silent
       DEF vars, locals, OrderOK, ControlOK, ApartOK, AtItem, message, locals
<1>. QED
    BY <1>1, <1>2, <1>3, <1>4, <1>5, <1>6, <1>7, <1>8, <1>9, <1>10, <1>11, <1>12,
       <1>13, <1>14, <1>15, <1>16, <1>17, <1>18, <1>19, <1>20, <1>21
       DEF Next

-----------------------------------------------------------------------------
(* The theorems.                                                           *)

\* Every step of a delivery keeps the invariant: each of its conjuncts rests on the
\* type and on what each place of the delivery has in hand.
THEOREM Inductive == Spec => []IInv
<1>1. Init => IInv
    BY TypeInit, ControlInit, ReadInit, ItemsInit, OrderInit DEF IInv
<1>2. IInv /\ [Next]_vars => IInv'
    BY TypeStep, ControlStep, ReadStep, ItemsStep, CountStep, OrderStep DEF IInv
<1>. QED
    BY <1>1, <1>2, PTL DEF Spec

\* Whatever a message carries and however its delivery goes, the items still to be sent
\* are items of the message that have a URL, and a post is one the adapter can make.
THEOREM TypeCorrect == Spec => []TypeOK
<1>1. IInv => TypeOK
    BY DEF IInv
<1>. QED
    BY <1>1, Inductive, PTL

\* A delivered album has shown every item it has a URL for, whichever chunk was refused
\* and whichever item fell back to its link (_send_media_items_separately starts again
\* from the first item); another message has shown its first attachment, unless that was
\* a live video without a URL, which gives way to the text.
THEOREM DeliveryShowsItems == Spec => []DeliveredIsShown
<1>1. IInv => DeliveredIsShown
    <2>. SUFFICES ASSUME IInv, pc = "linked",
                         NEW i \in IF Album THEN Items ELSE Candidates \cap {Whole.item}
                  PROVE  Times(i) > 0 \/ GivesWayToText(i)
        BY DEF DeliveredIsShown
    <2>1. TypeOK /\ ControlOK /\ ApartOK /\ ItemsOK
        BY DEF IInv
    <2>2. CASE apart
        <3>1. i \in Items \ todo /\ ~AtItem
            BY <2>1, <2>2 DEF ApartOK, AtItem
        <3>2. Seen(i)
            BY <2>1, <2>2, <3>1 DEF ItemsOK
        <3>. QED
            BY <2>1, <3>2, Finite
    <2>3. CASE ~apart
        <3>1. Seen(i) \/ GivesWayToText(i)
            BY <2>1, <2>3 DEF ItemsOK, Items
        <3>. QED
            BY <2>1, <3>1, Finite
    <2>. QED
        BY <2>2, <2>3
<1>. QED
    BY <1>1, Inductive, PTL

\* No retry repeats an item: one is shown twice only when an accepted chunk had it and a
\* later chunk was refused, and never three times.
THEOREM RepeatsAreRefusals == Spec => []RepeatedOnlyAfterRefusal
<1>1. IInv => RepeatedOnlyAfterRefusal
    <2>. SUFFICES ASSUME IInv, NEW i \in DOMAIN attaches
                  PROVE  Times(i) <= IF apart /\ Grouped(i) THEN 2 ELSE 1
        BY DEF RepeatedOnlyAfterRefusal
    <2>1. TypeOK /\ CountOK
        BY DEF IInv
    <2>2. Times(i) \in Nat
        BY <2>1, Finite
    <2>3. CASE apart
        BY <2>1, <2>2, <2>3 DEF CountOK
    <2>4. CASE ~apart
        BY <2>1, <2>2, <2>4 DEF CountOK
    <2>. QED
        BY <2>3, <2>4
<1>. QED
    BY <1>1, Inductive, PTL

\* For every length of the text and every limit of Telegram the continuations follow the
\* caption piece by piece; only an album sent again begins the text again, once.
THEOREM PiecesAreInOrder == Spec => []TextInOrder
<1>1. IInv => TextInOrder
    BY Finite DEF IInv, OrderOK, TextInOrder
<1>. QED
    BY <1>1, Inductive, PTL

\* The split of a caption (_split_media_caption) loses no character for any length of the
\* text: what a delivered message lacks of it fell to a link, a file name or the
\* description of a backfilled attachment.
THEOREM LossIsFallback == Spec => []TextLostOnlyToFallback
<1>1. IInv => TextLostOnlyToFallback
    BY DEF IInv, ReadOK, TextDone, Excused, TextLostOnlyToFallback
<1>. QED
    BY <1>1, Inductive, PTL
-----------------------------------------------------------------------------
(* The end of a delivery.                                                  *)

LEMMA Lexicographic ==
    ASSUME NEW a1 \in Nat, NEW a2 \in Nat, NEW a3 \in Nat, NEW a4 \in Nat, NEW a5 \in Nat,
           NEW b1 \in Nat, NEW b2 \in Nat, NEW b3 \in Nat, NEW b4 \in Nat, NEW b5 \in Nat,
           \/ a1 < b1
           \/ a1 = b1 /\ a2 < b2
           \/ a1 = b1 /\ a2 = b2 /\ a3 < b3
           \/ a1 = b1 /\ a2 = b2 /\ a3 = b3 /\ a4 < b4
           \/ a1 = b1 /\ a2 = b2 /\ a3 = b3 /\ a4 = b4 /\ a5 < b5
    PROVE  Below(<<a1, a2, a3, a4, a5>>, <<b1, b2, b3, b4, b5>>)
<1>. DEFINE a == <<a1, a2, a3, a4, a5>>
            b == <<b1, b2, b3, b4, b5>>
            At(i) == a[i] < b[i] /\ \A j \in 1..(i - 1) : a[j] = b[j]
<1>0. /\ a[1] = a1 /\ a[2] = a2 /\ a[3] = a3 /\ a[4] = a4 /\ a[5] = a5
      /\ b[1] = b1 /\ b[2] = b2 /\ b[3] = b3 /\ b[4] = b4 /\ b[5] = b5
    OBVIOUS
<1>. HIDE DEF a, b
<1>1. CASE a1 < b1
    <2>1. At(1)
        BY <1>0, <1>1
    <2>. QED
        BY <2>1 DEF Below, a, b
<1>2. CASE a1 = b1 /\ a2 < b2
    <2>1. At(2)
        BY <1>0, <1>2
    <2>. QED
        BY <2>1 DEF Below, a, b
<1>3. CASE a1 = b1 /\ a2 = b2 /\ a3 < b3
    <2>1. At(3)
        BY <1>0, <1>3
    <2>. QED
        BY <2>1 DEF Below, a, b
<1>4. CASE a1 = b1 /\ a2 = b2 /\ a3 = b3 /\ a4 < b4
    <2>1. At(4)
        BY <1>0, <1>4
    <2>. QED
        BY <2>1 DEF Below, a, b
<1>5. CASE a1 = b1 /\ a2 = b2 /\ a3 = b3 /\ a4 = b4 /\ a5 < b5
    <2>1. At(5)
        BY <1>0, <1>5
    <2>. QED
        BY <2>1 DEF Below, a, b
<1>. QED
    BY <1>1, <1>2, <1>3, <1>4, <1>5

\* The measure is made of numbers: within a send it counts down from what the message
\* and the limits allow.
Rest    == IF apart THEN Cardinality(todo) ELSE 0
Retries == RetryLimit - attempts
AheadOK ==
    /\ Phase \in Nat /\ Rest \in Nat /\ Place \in Nat /\ Retries \in Nat /\ Parts \in Nat
    /\ IsFiniteSet(todo) /\ Cardinality(todo) \in 0..Len(attaches)

LEMMA AheadType == TypeOK /\ ControlOK => AheadOK
<1>. SUFFICES ASSUME TypeOK, ControlOK
              PROVE  AheadOK
    OBVIOUS
<1>1. IsFiniteSet(todo) /\ Cardinality(todo) \in 0..Len(attaches)
    <2>1. todo \subseteq 1..Len(attaches) /\ Len(attaches) \in Nat
        BY MessageType DEF TypeOK, LocalsOK, Items
    <2>2. IsFiniteSet(1..Len(attaches)) /\ Cardinality(1..Len(attaches)) = Len(attaches)
        BY <2>1, FS_Interval
    <2>3. IsFiniteSet(todo) /\ Cardinality(todo) <= Len(attaches)
        BY <2>1, <2>2, FS_Subset
    <2>. QED
        BY <2>1, <2>3, FS_CardinalityType
<1>2. Phase \in Nat
    BY DEF Phase
<1>3. Place \in Nat
    BY DEF Place
<1>4. Retries \in Nat
    BY LimitAssumption DEF TypeOK, LocalsOK, Retries
<1>5. Parts \in Nat
    <2>1. CASE pc = "rest"
        <3>1. at \in Nat /\ Caption(job.text) \in Nat /\ at <= Caption(job.text)
            BY <2>1, MessageType, Lengths DEF TypeOK, LocalsOK, ControlOK
        <3>. QED
            BY <2>1, <3>1 DEF Parts
    <2>2. CASE pc # "rest"
        BY <1>1, <2>2, MessageType DEF Parts
    <2>. QED
        BY <2>1, <2>2
<1>6. Rest \in Nat
    BY <1>1 DEF Rest
<1>. QED
    BY <1>1, <1>2, <1>3, <1>4, <1>5, <1>6 DEF AheadOK

LEMMA AheadTypeNext == TypeOK' /\ ControlOK' => AheadOK'
BY AheadType, PTL

\* A step that lets a part of the measure fall and keeps the parts before it.
Falls ==
    \/ Phase' < Phase
    \/ Phase' = Phase /\ Rest' < Rest
    \/ Phase' = Phase /\ Rest' = Rest /\ Place' < Place
    \/ Phase' = Phase /\ Rest' = Rest /\ Place' = Place /\ Retries' < Retries
    \/ Phase' = Phase /\ Rest' = Rest /\ Place' = Place /\ Retries' = Retries /\ Parts' < Parts

LEMMA AheadStep ==
    ASSUME AheadOK, AheadOK', Falls
    PROVE  Below(Ahead', Ahead)
<1>1. PICK b1 \in Nat, b2 \in Nat, b3 \in Nat, b4 \in Nat, b5 \in Nat :
        b1 = Phase /\ b2 = Rest /\ b3 = Place /\ b4 = Retries /\ b5 = Parts
    BY DEF AheadOK
<1>2. PICK a1 \in Nat, a2 \in Nat, a3 \in Nat, a4 \in Nat, a5 \in Nat :
        a1 = Phase' /\ a2 = Rest' /\ a3 = Place' /\ a4 = Retries' /\ a5 = Parts'
    BY DEF AheadOK
<1>3. Below(<<a1, a2, a3, a4, a5>>, <<b1, b2, b3, b4, b5>>)
    <2>1. \/ a1 < b1
          \/ a1 = b1 /\ a2 < b2
          \/ a1 = b1 /\ a2 = b2 /\ a3 < b3
          \/ a1 = b1 /\ a2 = b2 /\ a3 = b3 /\ a4 < b4
          \/ a1 = b1 /\ a2 = b2 /\ a3 = b3 /\ a4 = b4 /\ a5 < b5
        BY <1>1, <1>2 DEF Falls
    <2>. QED
        BY <2>1, Lexicographic
<1>4. Ahead = <<b1, b2, b3, b4, b5>>
    BY <1>1 DEF Ahead, Rest, Retries
<1>5. Ahead' = <<a1, a2, a3, a4, a5>>
    BY <1>2 DEF Ahead, Rest, Retries
<1>. QED
    BY <1>3, <1>4, <1>5

\* Fewer items are left when some of them are taken.
LEMMA FewerLeft ==
    ASSUME NEW S, IsFiniteSet(S), NEW T \in SUBSET S, T # {}
    PROVE  Cardinality(S \ T) < Cardinality(S)
<1>1. PICK x : x \in T
    OBVIOUS
<1>2. x \in S /\ x \notin S \ T /\ S \ T \subseteq S
    BY <1>1
<1>3. IsFiniteSet(S \ T) /\ Cardinality(S \ T) <= Cardinality(S)
    BY FS_Subset
<1>4. Cardinality(S \ T) # Cardinality(S)
    BY <1>2, FS_Subset
<1>. QED
    BY <1>3, <1>4, FS_CardinalityType

\* A delivery that gives up, and an album that falls apart.
LEMMA FailsFalls ==
    ASSUME Fails, pc \in Pcs \ {"linked", "failed"}
    PROVE  Falls
<1>1. Phase \in 1..3
    BY DEF Phase
<1>2. Phase' = 0
    BY DEF Fails, Phase
<1>. QED
    BY <1>1, <1>2 DEF Falls

LEMMA ApartFalls ==
    ASSUME SendApart, ~apart, pc \in {"album", "chunks"}
    PROVE  Falls
<1>1. Phase = 2
    BY DEF Phase
<1>2. Phase' = 1
    BY DEF SendApart, Phase
<1>. QED
    BY <1>1, <1>2 DEF Falls

\* The end of a send: the next item, or the end of the message.
LEMMA SentFalls ==
    ASSUME Sent, pc \in {"rest", "link", "plain"}, UNCHANGED <<apart, todo>>
    PROVE  Falls
<1>1. Phase \in 1..2 /\ Place \in 1..2
    BY DEF Phase, Place
<1>2. CASE apart /\ todo # {}
    <2>1. Phase' = Phase /\ Rest' = Rest /\ Place' = 0
        BY <1>2 DEF Sent, Phase, Rest, Place
    <2>. QED
        BY <1>1, <2>1 DEF Falls
<1>3. CASE ~(apart /\ todo # {})
    <2>1. Phase' = 0
        BY <1>3 DEF Sent, Phase
    <2>. QED
        BY <1>1, <2>1 DEF Falls
<1>. QED
    BY <1>2, <1>3

LEMMA StepFalls ==
    ASSUME TypeOK, ControlOK, AheadOK, AheadOK', Next, ~TopicReady
    PROVE  Falls
<1>1. CASE ResolveMediaUrls
    <2>1. Phase = 3 /\ Phase' \in 1..2
        BY <1>1 DEF ResolveMediaUrls, Phase
    <2>. QED
        BY <2>1 DEF Falls
<1>2. CASE SendMessageToTelegram \/ SendBackfillMessage
    <2>1. Route /\ pc = "send" /\ pc' \in {"album", "single", "plain"}
        BY <1>2 DEF SendMessageToTelegram, SendBackfillMessage, Route, Branch
    <2>2. Phase' = Phase /\ Rest' = Rest /\ Place = 4 /\ Place' \in 2..3
        BY <2>1 DEF Route, Phase, Rest, Place
    <2>. QED
        BY <2>2 DEF Falls
<1>3. CASE BuildInputMedia
    <2>1. Phase' = Phase /\ Rest' = Rest /\ Place' = Place /\ Retries' = Retries
        BY <1>3 DEF BuildInputMedia, ControlOK, Phase, Rest, Place, Retries
    <2>2. Parts = Len(attaches) + 1 /\ Parts' = Cardinality(todo')
        BY <1>3 DEF BuildInputMedia, Parts
    <2>3. Cardinality(todo') \in 0..Len(attaches) /\ Len(attaches) \in Nat
        BY <1>3, MessageType DEF AheadOK, BuildInputMedia, message
    <2>. QED
        BY <2>1, <2>2, <2>3 DEF Falls
<1>4. CASE PrepareFails
    BY <1>4, ApartFalls DEF PrepareFails, ControlOK
<1>5. CASE SendMediaGroup
    <2>1. Phase' = Phase /\ Rest' = Rest /\ Place' = Place /\ Retries' = Retries
        BY <1>5 DEF SendMediaGroup, ControlOK, Phase, Rest, Place, Retries
    <2>2. Parts = Cardinality(todo) /\ Parts' = Cardinality(todo \ Chunk(todo))
        BY <1>5 DEF SendMediaGroup, Parts
    <2>3. todo \in SUBSET Nat
        BY MessageType DEF TypeOK, LocalsOK, Items
    <2>4. Chunk(todo) \in SUBSET todo /\ Chunk(todo) # {}
        BY <1>5, <2>3, ChunkType DEF SendMediaGroup
    <2>5. Cardinality(todo \ Chunk(todo)) < Cardinality(todo)
        BY <2>4, FewerLeft DEF AheadOK
    <2>. QED
        BY <2>1, <2>2, <2>5 DEF Falls
<1>6. CASE MediaGroupRefused
    BY <1>6, ApartFalls DEF MediaGroupRefused, ControlOK
<1>7. CASE EndMediaGroup
    <2>1. Phase' = Phase /\ Rest' = Rest /\ Place = 3 /\ Place' = 1
        BY <1>7 DEF EndMediaGroup, Phase, Rest, Place
    <2>. QED
        BY <2>1 DEF Falls
<1>8. CASE SendMedia \/ MediaRefused
    <2>1. Phase' = Phase /\ Rest' = Rest /\ Place = 2 /\ Place' = 1
        BY <1>8 DEF SendMedia, MediaRefused, Phase, Rest, Place
    <2>. QED
        BY <2>1 DEF Falls
<1>9. CASE SendContinuation
    <2>1. /\ Phase' = Phase /\ Rest' = Rest /\ Place' = Place /\ Retries' = Retries
        BY <1>9 DEF SendContinuation, Phase, Rest, Place, Retries
    <2>2. Parts = Caption(job.text) - at /\ Parts' = Caption(job.text) - Upto(job.text, at)
        BY <1>9 DEF SendContinuation, Parts, Caption
    <2>3. at \in Nat /\ Caption(job.text) \in Nat /\ at < Caption(job.text)
        BY <1>9, MessageType, Lengths DEF SendContinuation, TypeOK, LocalsOK
    <2>4. Upto(job.text, at) \in (at + 1)..Caption(job.text)
        BY <2>3, MessageType, Lengths
    <2>5. Parts' < Parts
        BY <2>2, <2>3, <2>4
    <2>. QED
        BY <2>1, <2>5 DEF Falls
<1>10. CASE EndSend \/ SendLink \/ SendPlain
    BY <1>10, SentFalls DEF EndSend, SendLink, SendPlain
<1>11. CASE PlainTooLong \/ SendFails \/ TopicNotFound
    BY <1>11, FailsFalls DEF PlainTooLong, SendFails, TopicNotFound, Pcs
<1>12. CASE RetryTopicSend
    <2>1. Phase' = Phase /\ Rest' = Rest /\ Place' = Place
        BY <1>12 DEF RetryTopicSend, Phase, Rest, Place
    <2>2. Retries' < Retries
        BY <1>12, LimitAssumption DEF RetryTopicSend, TypeOK, LocalsOK, Retries
    <2>. QED
        BY <2>1, <2>2 DEF Falls
<1>13. CASE NextItem
    <2>1. apart /\ apart' = apart /\ Phase' = Phase
        BY <1>13 DEF NextItem, ControlOK, Phase
    <2>2. todo' = todo \ {Lowest(todo)} /\ todo # {} /\ todo \in SUBSET Nat
        BY <1>13, MessageType DEF NextItem, TypeOK, LocalsOK, Items
    <2>3. {Lowest(todo)} \in SUBSET todo
        BY <2>2, LowestIn
    <2>4. Cardinality(todo') < Cardinality(todo)
        BY <2>2, <2>3, FewerLeft DEF AheadOK
    <2>5. Rest' < Rest
        BY <2>1, <2>4 DEF Rest
    <2>. QED
        BY <2>1, <2>5 DEF Falls
<1>. QED
    BY <1>1, <1>2, <1>3, <1>4, <1>5, <1>6, <1>7, <1>8, <1>9, <1>10, <1>11, <1>12, <1>13
    DEF Next

\* No answer of Telegram sends a delivery round in a circle: for every message and every
\* limit each of its steps, a retry and a fallback among them, lowers a tuple of natural
\* numbers (_retry_topic_send, _send_media_items_separately, _split_media_caption).
THEOREM DeliveryComesNearer == Spec => []AheadOK /\ AlwaysNearer
<1>1. IInv => TypeOK /\ ControlOK
    BY DEF IInv
<1>2. TypeOK /\ ControlOK => AheadOK
    BY AheadType
<1>3. TypeOK /\ ControlOK /\ TypeOK' /\ ControlOK' /\ [Next]_vars
        => [TopicReady \/ Below(Ahead', Ahead)]_vars
    BY AheadType, AheadTypeNext, AheadStep, StepFalls
<1>. QED
    BY <1>1, <1>2, <1>3, Inductive, PTL DEF Spec, AlwaysNearer

=============================================================================
