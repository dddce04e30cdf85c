--------------------------- MODULE DeliveryProofs ---------------------------
(***************************************************************************)
(* Proofs about notifications and their delivery, for any number of        *)
(* processes and streams and queues of any size: browsers see events in    *)
(* order and no more of them than were published; what was read stays      *)
(* read, what waits for an answer can be given one, and nobody is sent an  *)
(* event without a notification of theirs.                                 *)
(***************************************************************************)
EXTENDS Notifications, FiniteSetTheorems, TLAPS

-----------------------------------------------------------------------------
NoticeInv == notice \in Seq(NoticeRow) /\ WaitingIsAnswerable

LEMMA NoticesStart == NoticeInit => NoticeInv
  BY DEF NoticeInit, NoticeInv, WaitingIsAnswerable

\* A notification is created waiting only if it can be answered.
LEMMA CreateKeeps ==
  ASSUME NoticeInv, NEW u, NEW v \in User, NEW kind \in Kind, CreateNotification(u, v, kind)
  PROVE  NoticeInv'
<1> DEFINE new == [to |-> v, kind |-> kind, response |-> InitialResponse(kind), status |-> "UNREAD"]
<1>1. new \in NoticeRow
  BY DEF NoticeRow, InitialResponse, Kind, Response, NoticeStatus
<1>2. new.response = "WAITING" => new.kind \in Actionable
  BY DEF InitialResponse, Actionable
<1>3. notice' = Append(notice, new) /\ notice \in Seq(NoticeRow)
  BY DEF CreateNotification, NoticeInv
<1> HIDE DEF new
<1>4. /\ notice' \in Seq(NoticeRow)
      /\ DOMAIN notice' = DOMAIN notice \cup {Len(notice) + 1}
      /\ \A i \in DOMAIN notice : notice'[i] = notice[i]
      /\ notice'[Len(notice) + 1] = new
  BY <1>1, <1>3
<1> QED
  BY <1>2, <1>4 DEF NoticeInv, WaitingIsAnswerable

\* What the user's own calls do to one row: it is read, and answered if it can be.
LEMMA RequestKeeps ==
  ASSUME NoticeInv, NEW u \in User, NoticeRequest(u)
  PROVE  /\ NoticeInv'
         /\ \A i \in DOMAIN notice : notice'[i] = notice[i] \/ notice'[i].status = "READ"
<1>0. ASSUME NEW i \in DOMAIN notice, NEW new \in NoticeRow, notice' = [notice EXCEPT ![i] = new],
             new.status = "READ", new.response = "WAITING" => new.kind \in Actionable
      PROVE  NoticeInv' /\ \A j \in DOMAIN notice : notice'[j] = notice[j] \/ notice'[j].status = "READ"
  <2>1. /\ notice' \in Seq(NoticeRow) /\ DOMAIN notice' = DOMAIN notice
        /\ notice'[i] = new /\ \A j \in DOMAIN notice \ {i} : notice'[j] = notice[j]
    BY <1>0 DEF NoticeInv
  <2> QED
    BY <1>0, <2>1 DEF NoticeInv, WaitingIsAnswerable
<1>1. ASSUME NEW i \in DOMAIN notice, MarkRead(u, i)
      PROVE  NoticeInv' /\ \A j \in DOMAIN notice : notice'[j] = notice[j] \/ notice'[j].status = "READ"
  <2> DEFINE new == [notice[i] EXCEPT !.status = "READ"]
  <2>1. new \in NoticeRow /\ new.status = "READ" /\ (new.response = "WAITING" => new.kind \in Actionable)
    <3>1. notice[i] \in NoticeRow /\ (notice[i].response = "WAITING" => notice[i].kind \in Actionable)
      BY DEF NoticeInv, WaitingIsAnswerable
    <3> QED
      BY <3>1 DEF NoticeRow, NoticeStatus
  <2>2. notice' = [notice EXCEPT ![i] = new]
    BY <1>1 DEF MarkRead
  <2> HIDE DEF new
  <2> QED
    BY <1>0, <2>1, <2>2
<1>2. ASSUME NEW i \in DOMAIN notice, NEW r \in Response, RespondToNotification(u, i, r)
      PROVE  NoticeInv' /\ \A j \in DOMAIN notice : notice'[j] = notice[j] \/ notice'[j].status = "READ"
  <2> DEFINE new == [notice[i] EXCEPT !.response = r, !.status = "READ"]
  <2>1. new \in NoticeRow /\ new.status = "READ" /\ (new.response = "WAITING" => new.kind \in Actionable)
    <3>1. notice[i] \in NoticeRow /\ notice[i].kind \in Actionable
      BY <1>2 DEF RespondToNotification, NoticeInv
    <3> QED
      BY <3>1 DEF NoticeRow, NoticeStatus
  <2>2. notice' = [notice EXCEPT ![i] = new]
    BY <1>2 DEF RespondToNotification, NoticeInv
  <2> HIDE DEF new
  <2> QED
    BY <1>0, <2>1, <2>2
<1>3. CASE UNCHANGED notice
  BY <1>3 DEF NoticeInv, WaitingIsAnswerable
<1>4. \/ UNCHANGED notice
      \/ \E i \in DOMAIN notice : MarkRead(u, i)
      \/ \E i \in DOMAIN notice, r \in Response : RespondToNotification(u, i, r)
  BY DEF NoticeRequest, GetMyNotification, MarkAsRead, GetNotification, MarkAllAsRead,
         GetNotifications, GetMyNotifications, GetUnreadCount
<1> QED
  BY <1>1, <1>2, <1>3, <1>4

\* What ReadStaysRead says of one step.
ReadKept ==
  \A i \in DOMAIN notice :
    /\ notice[i].status = "READ" => notice'[i].status = "READ"
    /\ notice'[i].response # notice[i].response => notice'[i].status = "READ"

LEMMA NoticeStep ==
  NoticeInv /\ [NoticeNext]_<<noticeVars, sseVars>> => NoticeInv' /\ ReadKept
<1> SUFFICES ASSUME NoticeInv, [NoticeNext]_<<noticeVars, sseVars>>
             PROVE  NoticeInv' /\ ReadKept
  OBVIOUS
<1>1. ASSUME NEW u \in User, NEW v \in User, Notify(u, v) PROVE NoticeInv' /\ ReadKept
  <2>1. PICK kind \in Kind : CreateNotification(u, v, kind)
    BY <1>1 DEF Notify, NotifyGroupInvite, NotifyGroupJoinRequest, NotifyTaskInvite, NotifyComment,
                NotifyMention, NotifyFollow, NotifyRating, NotifyGroupJoin, NotifyJoinRequestCreated,
                NotifyJoinRequestApproved, NotifyJoinRequestRejected, Kind
  <2>2. \A i \in DOMAIN notice : notice'[i] = notice[i]
    BY <2>1 DEF CreateNotification, NoticeInv, NoticeRow
  <2> QED
    BY <2>1, <2>2, CreateKeeps DEF ReadKept
<1>2. ASSUME NEW u \in User, NoticeRequest(u) PROVE NoticeInv' /\ ReadKept
  BY <1>2, RequestKeeps DEF ReadKept
<1>3. CASE UNCHANGED notice
  BY <1>3 DEF NoticeInv, WaitingIsAnswerable, ReadKept
<1>4. \/ UNCHANGED notice
      \/ \E u, v \in User : Notify(u, v)
      \/ \E u \in User : NoticeRequest(u)
  BY DEF NoticeNext, NotifyLevelUp, IndexNotice, SendNotification, noticeVars
<1> QED
  BY <1>1, <1>2, <1>3, <1>4

(* Nothing is created or left waiting for an answer that would be refused.  *)
THEOREM WaitingCanEnd == NoticeSpec => []WaitingIsAnswerable
<1>1. NoticeInv => WaitingIsAnswerable
  BY DEF NoticeInv
<1> QED
  BY NoticesStart, NoticeStep, <1>1, PTL DEF NoticeSpec

(* What is read or answered never becomes unread, whatever the calls.       *)
THEOREM ReadForGood == NoticeSpec => ReadStaysRead
<1>1. NoticeInv /\ [NoticeNext]_<<noticeVars, sseVars>> => [ReadKept]_noticeVars
  BY NoticeStep
<1> QED
  BY NoticesStart, NoticeStep, <1>1, PTL DEF NoticeSpec, ReadStaysRead, ReadKept

-----------------------------------------------------------------------------
(* Events and rows are counted against each other: one event goes out for   *)
(* each notification that is marked sent, and it is stored and indexed by   *)
(* then.                                                                    *)

Told(u) == {n \in DOMAIN published : published[n].to = u}
SentTo(u) == {i \in DOMAIN notice : progress[i] = "sent" /\ notice[i].to = u}

TellInv ==
  /\ published \in Seq([to : User, at : Process])
  /\ progress \in [DOMAIN notice -> {"stored", "indexed", "sent", "failed"}]
  /\ \A i \in DOMAIN notice : progress[i] \in {"indexed", "sent"} => i \in noticeDoc
  /\ \A u \in User : Cardinality(Told(u)) <= Cardinality(SentTo(u))

LEMMA TellStart == SseInit /\ NoticeInit => TellInv
<1> SUFFICES ASSUME SseInit, NoticeInit PROVE TellInv
  OBVIOUS
<1>1. notice = <<>> /\ progress = <<>> /\ published = <<>>
  BY DEF SseInit, NoticeInit
<1>2. \A u : Told(u) = {} /\ SentTo(u) = {}
  BY <1>1 DEF Told, SentTo
<1>3. \A u \in User : Cardinality(Told(u)) <= Cardinality(SentTo(u))
  BY <1>2, FS_EmptySet
<1> QED
  BY <1>1, <1>3 DEF TellInv

LEMMA CountsAreNumbers ==
  ASSUME NoticeInv, TellInv, NEW u \in User
  PROVE  /\ IsFiniteSet(Told(u)) /\ Cardinality(Told(u)) \in Nat
         /\ IsFiniteSet(SentTo(u)) /\ Cardinality(SentTo(u)) \in Nat
<1>1. /\ DOMAIN published = 1..Len(published) /\ Len(published) \in Nat
      /\ DOMAIN notice = 1..Len(notice) /\ Len(notice) \in Nat
  BY DEF NoticeInv, TellInv
<1>2. Told(u) \subseteq DOMAIN published /\ SentTo(u) \subseteq DOMAIN notice
  BY DEF Told, SentTo
<1>3. IsFiniteSet(1..Len(published)) /\ IsFiniteSet(1..Len(notice))
  BY <1>1, FS_Interval
<1> QED
  BY <1>1, <1>2, <1>3, FS_Subset, FS_CardinalityType

\* A step that sends nothing, and forgets nothing that was sent.
LEMMA NothingSent ==
  ASSUME TellInv, UNCHANGED published,
         progress' \in [DOMAIN notice' -> {"stored", "indexed", "sent", "failed"}],
         DOMAIN notice \subseteq DOMAIN notice',
         \A i \in DOMAIN notice : /\ notice'[i].to = notice[i].to
                                  /\ progress'[i] = "sent" <=> progress[i] = "sent",
         \A i \in DOMAIN notice' \ DOMAIN notice : progress'[i] # "sent",
         \A i \in DOMAIN notice' : progress'[i] \in {"indexed", "sent"} => i \in noticeDoc'
  PROVE  TellInv'
<1>1. ASSUME NEW u PROVE SentTo(u)' = SentTo(u) /\ Told(u)' = Told(u)
  BY DEF SentTo, Told
<1>2. published' \in Seq([to : User, at : Process])
  BY DEF TellInv
<1>3. \A u \in User : Cardinality(Told(u)') <= Cardinality(SentTo(u)')
  BY <1>1 DEF TellInv
<1> QED
  BY <1>2, <1>3 DEF TellInv

LEMMA CreateTells ==
  ASSUME NoticeInv, TellInv, NEW u, NEW v \in User, NEW kind \in Kind,
         CreateNotification(u, v, kind)
  PROVE  TellInv'
<1> DEFINE new == [to |-> v, kind |-> kind, response |-> InitialResponse(kind), status |-> "UNREAD"]
<1> PICK last : last = Len(notice) + 1
  OBVIOUS
<1>1. new \in NoticeRow
  BY DEF NoticeRow, InitialResponse, Kind, Response, NoticeStatus
<1>2. /\ notice' = Append(notice, new) /\ notice \in Seq(NoticeRow)
      /\ progress' = Append(progress, "stored")
      /\ UNCHANGED <<published, noticeDoc>>
  BY DEF CreateNotification, NoticeInv, sseVars
<1> HIDE DEF new
<1>3. /\ DOMAIN notice' = DOMAIN notice \cup {last} /\ last \notin DOMAIN notice
      /\ \A i \in DOMAIN notice : notice'[i] = notice[i]
  BY <1>1, <1>2
<1>4. /\ DOMAIN progress' = DOMAIN notice'
      /\ \A i \in DOMAIN notice : progress'[i] = progress[i]
      /\ progress'[last] = "stored"
  <2>1. progress \in Seq({"stored", "indexed", "sent", "failed"}) /\ Len(progress) = Len(notice)
    BY <1>2 DEF TellInv
  <2> QED
    BY <1>2, <1>3, <2>1
<1>5. progress' \in [DOMAIN notice' -> {"stored", "indexed", "sent", "failed"}]
  <2>1. progress' \in Seq({"stored", "indexed", "sent", "failed"})
    BY <1>2 DEF TellInv
  <2> QED
    BY <1>4, <2>1
<1>6. \A i \in DOMAIN notice' : progress'[i] \in {"indexed", "sent"} => i \in noticeDoc'
  BY <1>2, <1>3, <1>4 DEF TellInv
<1> QED
  BY <1>2, <1>3, <1>4, <1>5, <1>6, NothingSent

LEMMA RequestTells ==
  ASSUME NoticeInv, TellInv, NEW u \in User, NoticeRequest(u)
  PROVE  TellInv'
<1>1. UNCHANGED <<progress, noticeDoc, published>>
  BY DEF NoticeRequest, GetMyNotification, MarkAsRead, MarkRead, RespondToNotification,
         GetNotification, MarkAllAsRead, GetNotifications, GetMyNotifications, GetUnreadCount,
         sseVars
<1>2. /\ DOMAIN notice' = DOMAIN notice
      /\ \A i \in DOMAIN notice : notice'[i].to = notice[i].to
  <2>1. \/ UNCHANGED notice
        \/ \E i \in DOMAIN notice : MarkRead(u, i)
        \/ \E i \in DOMAIN notice, r \in Response : RespondToNotification(u, i, r)
    BY DEF NoticeRequest, GetMyNotification, MarkAsRead, GetNotification, MarkAllAsRead,
           GetNotifications, GetMyNotifications, GetUnreadCount
  <2>2. \A i \in DOMAIN notice : notice[i] \in NoticeRow
    BY DEF NoticeInv
  <2>3. ASSUME NEW i \in DOMAIN notice, MarkRead(u, i) PROVE <1>2!:
    BY <2>2, <2>3 DEF MarkRead, NoticeRow
  <2>4. ASSUME NEW i \in DOMAIN notice, NEW r \in Response, RespondToNotification(u, i, r)
        PROVE  <1>2!:
    BY <2>2, <2>4 DEF RespondToNotification, NoticeRow
  <2> QED
    BY <2>1, <2>3, <2>4
<1> QED
  BY <1>1, <1>2, NothingSent DEF TellInv

LEMMA IndexTells ==
  ASSUME NoticeInv, TellInv, NEW i \in DOMAIN notice, IndexNotice(i)
  PROVE  TellInv'
<1>1. UNCHANGED <<notice, published>> /\ progress[i] = "stored"
  BY DEF IndexNotice, sseVars
<1>2. \/ progress' = [progress EXCEPT ![i] = "indexed"] /\ i \in noticeDoc'
      \/ progress' = [progress EXCEPT ![i] = "failed"]
  BY DEF IndexNotice
<1>3. noticeDoc \subseteq noticeDoc'
  BY DEF IndexNotice
<1>4. /\ progress' \in [DOMAIN notice -> {"stored", "indexed", "sent", "failed"}]
      /\ \A j \in DOMAIN notice \ {i} : progress'[j] = progress[j]
      /\ \/ progress'[i] = "indexed" /\ i \in noticeDoc'
         \/ progress'[i] = "failed"
  BY <1>2 DEF TellInv
<1>5. \A j \in DOMAIN notice' : progress'[j] \in {"indexed", "sent"} => j \in noticeDoc'
  BY <1>1, <1>3, <1>4 DEF TellInv
<1>6. \A j \in DOMAIN notice : progress'[j] = "sent" <=> progress[j] = "sent"
  BY <1>1, <1>4
<1> QED
  BY <1>1, <1>4, <1>5, <1>6, NothingSent

\* One event more, and one notification sent more, to the same user.
LEMMA SendTells ==
  ASSUME NoticeInv, TellInv, NEW i \in DOMAIN notice, SendNotification(i)
  PROVE  TellInv'
<1> DEFINE v == notice[i].to
<1>1. v \in User
  <2>1. notice[i] \in NoticeRow
    BY DEF NoticeInv
  <2> QED
    BY <2>1 DEF NoticeRow
<1>2. PICK p \in Process : Publish(p, v)
  BY DEF SendNotification
<1> PICK last : last = Len(published) + 1
  OBVIOUS
<1>3. /\ published' = Append(published, [to |-> v, at |-> p])
      /\ published \in Seq([to : User, at : Process])
  BY <1>2 DEF Publish, TellInv
<1>4. /\ published' \in Seq([to : User, at : Process])
      /\ DOMAIN published' = DOMAIN published \cup {last} /\ last \notin DOMAIN published
      /\ \A n \in DOMAIN published : published'[n] = published[n]
      /\ published'[last] = [to |-> v, at |-> p]
  BY <1>1, <1>3
<1>5. /\ UNCHANGED <<notice, noticeDoc>> /\ progress[i] = "indexed"
      /\ progress' = [progress EXCEPT ![i] = "sent"]
  BY DEF SendNotification
<1>6. /\ progress' \in [DOMAIN notice -> {"stored", "indexed", "sent", "failed"}]
      /\ progress'[i] = "sent" /\ \A j \in DOMAIN notice \ {i} : progress'[j] = progress[j]
  BY <1>5 DEF TellInv
<1>7. \A j \in DOMAIN notice' : progress'[j] \in {"indexed", "sent"} => j \in noticeDoc'
  BY <1>5, <1>6 DEF TellInv
<1>8. ASSUME NEW u \in User PROVE Cardinality(Told(u)') <= Cardinality(SentTo(u)')
  <2>1. /\ IsFiniteSet(Told(u)) /\ Cardinality(Told(u)) \in Nat
        /\ IsFiniteSet(SentTo(u)) /\ Cardinality(SentTo(u)) \in Nat
        /\ Cardinality(Told(u)) <= Cardinality(SentTo(u))
    BY CountsAreNumbers DEF TellInv
  <2>2. CASE u = v
    <3>1. Told(u)' = Told(u) \cup {last} /\ last \notin Told(u)
      BY <1>4, <2>2 DEF Told
    <3>2. SentTo(u)' = SentTo(u) \cup {i} /\ i \notin SentTo(u)
      BY <1>5, <1>6, <2>2 DEF SentTo
    <3>3. /\ Cardinality(Told(u) \cup {last}) = Cardinality(Told(u)) + 1
          /\ Cardinality(SentTo(u) \cup {i}) = Cardinality(SentTo(u)) + 1
      BY <2>1, <3>1, <3>2, FS_AddElement
    <3> QED
      BY <2>1, <3>1, <3>2, <3>3
  <2>3. CASE u # v
    <3>1. Told(u)' = Told(u)
      BY <1>4, <2>3 DEF Told
    <3>2. SentTo(u)' = SentTo(u)
      BY <1>5, <1>6, <2>3 DEF SentTo
    <3> QED
      BY <2>1, <3>1, <3>2
  <2> QED
    BY <2>2, <2>3
<1> QED
  BY <1>4, <1>5, <1>6, <1>7, <1>8 DEF TellInv

LEMMA TellStep ==
  NoticeInv /\ TellInv /\ [NoticeNext]_<<noticeVars, sseVars>> => TellInv'
<1> SUFFICES ASSUME NoticeInv, TellInv, [NoticeNext]_<<noticeVars, sseVars>> PROVE TellInv'
  OBVIOUS
<1>1. ASSUME NEW u \in User, NEW v \in User, Notify(u, v) PROVE TellInv'
  <2>1. PICK kind \in Kind : CreateNotification(u, v, kind)
    BY <1>1 DEF Notify, NotifyGroupInvite, NotifyGroupJoinRequest, NotifyTaskInvite, NotifyComment,
                NotifyMention, NotifyFollow, NotifyRating, NotifyGroupJoin, NotifyJoinRequestCreated,
                NotifyJoinRequestApproved, NotifyJoinRequestRejected, Kind
  <2> QED
    BY <2>1, CreateTells
<1>2. CASE UNCHANGED <<notice, progress, noticeDoc, published>>
  BY <1>2, NothingSent DEF TellInv
<1>3. \/ UNCHANGED <<notice, progress, noticeDoc, published>>
      \/ \E u, v \in User : Notify(u, v)
      \/ \E u \in User : NoticeRequest(u)
      \/ \E i \in DOMAIN notice : IndexNotice(i) \/ SendNotification(i)
  BY DEF NoticeNext, NotifyLevelUp, noticeVars, sseVars
<1> QED
  BY <1>1, <1>2, <1>3, RequestTells, IndexTells, SendTells

(* No event without a stored and indexed notification to the same user, and *)
(* none twice, whatever fails and however many requests overlap.            *)
THEOREM EventsHaveRows == NoticeSpec => []EventsTellRows
<1>1. NoticeInv /\ TellInv => EventsTellRows
  <2> SUFFICES ASSUME NoticeInv, TellInv, NEW u \in User
               PROVE  Cardinality(Told(u)) <= Cardinality(NoticesOf(u, NoticeStatus) \cap noticeDoc)
    BY DEF EventsTellRows, Told
  <2> DEFINE ready == NoticesOf(u, NoticeStatus) \cap noticeDoc
  <2>1. SentTo(u) \subseteq ready
    <3>1. \A i \in DOMAIN notice : notice[i] \in NoticeRow
      BY DEF NoticeInv
    <3>2. \A i \in DOMAIN notice : notice[i].status \in NoticeStatus
      BY <3>1 DEF NoticeRow
    <3>3. \A i \in DOMAIN notice : progress[i] = "sent" => i \in noticeDoc
      BY DEF TellInv
    <3> HIDE DEF SentTo
    <3> SUFFICES ASSUME NEW i \in SentTo(u) PROVE i \in ready
      OBVIOUS
    <3>4. i \in DOMAIN notice /\ progress[i] = "sent" /\ notice[i].to = u
      BY DEF SentTo
    <3> QED
      BY <3>2, <3>3, <3>4 DEF NoticesOf
  <2>2. IsFiniteSet(ready)
    <3>1. ready \subseteq DOMAIN notice /\ DOMAIN notice = 1..Len(notice) /\ Len(notice) \in Nat
      BY DEF NoticesOf, NoticeInv
    <3>2. IsFiniteSet(DOMAIN notice)
      BY <3>1, FS_Interval
    <3> HIDE DEF ready
    <3> QED
      BY <3>1, <3>2, FS_Subset
  <2> HIDE DEF ready
  <2>3. Cardinality(SentTo(u)) <= Cardinality(ready) /\ Cardinality(ready) \in Nat
    BY <2>1, <2>2, FS_Subset, FS_CardinalityType
  <2>4. /\ Cardinality(Told(u)) \in Nat /\ Cardinality(SentTo(u)) \in Nat
        /\ Cardinality(Told(u)) <= Cardinality(SentTo(u))
    BY CountsAreNumbers DEF TellInv
  <2>5. Cardinality(Told(u)) <= Cardinality(ready)
    BY <2>3, <2>4
  <2> QED
    BY <2>5 DEF ready
<1> QED
  BY NoticesStart, NoticeStep, TellStart, TellStep, <1>1, PTL DEF NoticeSpec

-----------------------------------------------------------------------------
\* What is not in NoticeInv and TellInv of the types.
AnswerRow == [of : User, op : {"list", "count", "read-all", "error"}, count : 0..MaxNotices]
AnswerOK == answer = None \/ answer \in AnswerRow

NoticeTypesInv ==
  /\ NoticeInv /\ TellInv
  /\ Len(notice) <= MaxNotices
  /\ noticeDoc \in SUBSET DOMAIN notice
  /\ AnswerOK

LEMMA NoticeTypesStart == SseInit /\ NoticeInit => NoticeTypesInv
  BY NoticesStart, TellStart, NoticeAssumption DEF NoticeInit, NoticeTypesInv, AnswerOK

\* A listing of notifications has at most as many as may be created.
LEMMA RowsCounted ==
  ASSUME NoticeTypesInv, NEW ids \in SUBSET DOMAIN notice
  PROVE  Cardinality(ids) \in 0..MaxNotices
<1>1. DOMAIN notice = 1..Len(notice) /\ Len(notice) \in Nat /\ Len(notice) <= MaxNotices
  BY DEF NoticeTypesInv, NoticeInv
<1>2. IsFiniteSet(1..Len(notice)) /\ Cardinality(1..Len(notice)) = Len(notice)
  BY <1>1, FS_Interval
<1>3. Cardinality(ids) \in Nat /\ Cardinality(ids) <= Len(notice)
  BY <1>1, <1>2, FS_Subset, FS_CardinalityType
<1> QED
  BY <1>1, <1>3, NoticeAssumption

LEMMA MinOfTwo ==
  ASSUME NEW a \in Nat, NEW b \in Nat
  PROVE  Min({a, b}) = IF a <= b THEN a ELSE b
<1> DEFINE Least(z) == z \in {a, b} /\ \A y \in {a, b} : z <= y
           least == IF a <= b THEN a ELSE b
<1>1. Min({a, b}) = CHOOSE z : Least(z)
  BY Zenon DEF Min
<1>2. Least(least)
  OBVIOUS
<1>3. \A z : Least(z) => z = least
  OBVIOUS
<1> HIDE DEF Least, least
<1>4. Min({a, b}) = least
  BY <1>1, <1>2, <1>3
<1> QED
  BY <1>4 DEF least

LEMMA PageCounted ==
  ASSUME NoticeTypesInv, NEW ids \in SUBSET DOMAIN notice
  PROVE  PageSize(ids) \in 0..MaxNotices
<1>1. Cardinality(ids) \in 0..MaxNotices /\ PageLimit \in Nat
  BY RowsCounted, NoticeAssumption
<1>2. PageSize(ids) = IF PageLimit <= Cardinality(ids) THEN PageLimit ELSE Cardinality(ids)
  BY <1>1, MinOfTwo DEF PageSize
<1> QED
  BY <1>1, <1>2, NoticeAssumption

\* Every read answers with a number that fits.
LEMMA RequestAnswers ==
  ASSUME NoticeTypesInv, NEW u \in User, NoticeRequest(u)
  PROVE  AnswerOK'
<1>1. \A statuses : NoticesOf(u, statuses) \in SUBSET DOMAIN notice
  BY DEF NoticesOf
<1>2. ASSUME NEW o \in {"list", "count", "read-all", "error"}, NEW n \in 0..MaxNotices,
             answer' = [of |-> u, op |-> o, count |-> n]
      PROVE  AnswerOK'
  BY <1>2 DEF AnswerOK, AnswerRow
<1>3. ASSUME answer' = None PROVE AnswerOK'
  BY <1>3 DEF AnswerOK
<1>4. CASE \E i \in DOMAIN notice : GetNotification(u, i)
  <2>1. 1 \in 0..MaxNotices
    BY <1>4, NoticeAssumption DEF NoticeTypesInv, NoticeInv
  <2>2. answer' = [of |-> u, op |-> "list", count |-> 1]
    BY <1>4 DEF GetNotification
  <2> QED
    BY <1>2, <2>1, <2>2
<1>5. CASE \E i \in DOMAIN notice : \/ MarkRead(u, i)
                                    \/ \E r \in Response : RespondToNotification(u, i, r)
  BY <1>3, <1>5 DEF MarkRead, RespondToNotification
<1>6. CASE MarkAllAsRead(u)
  <2>1. Cardinality(NoticesOf(u, {"UNREAD"})) \in 0..MaxNotices
    BY <1>1, RowsCounted
  <2> QED
    BY <1>2, <1>6, <2>1 DEF MarkAllAsRead
<1>7. CASE GetMyNotifications(u)
  <2>1. Cardinality(NoticesOf(u, NoticeStatus)) \in 0..MaxNotices
    BY <1>1, RowsCounted
  <2> QED
    BY <1>2, <1>7, <2>1 DEF GetMyNotifications
<1>8. CASE GetNotifications(u, NoticeStatus)
  <2>1. PageSize(NoticesOf(u, NoticeStatus)) \in 0..MaxNotices
    BY <1>1, PageCounted
  <2> QED
    BY <1>2, <1>8, <2>1 DEF GetNotifications
<1>9. CASE GetUnreadCount(u)
  <2>1. PageSize(NoticesOf(u, {"UNREAD"})) \in 0..MaxNotices
    BY <1>1, PageCounted
  <2> QED
    BY <1>2, <1>9, <2>1 DEF GetUnreadCount
<1> QED
  BY <1>4, <1>5, <1>6, <1>7, <1>8, <1>9 DEF NoticeRequest, GetMyNotification, MarkAsRead

LEMMA NoticeTypesStep ==
  NoticeTypesInv /\ [NoticeNext]_<<noticeVars, sseVars>> => NoticeTypesInv'
<1> SUFFICES ASSUME NoticeTypesInv, [NoticeNext]_<<noticeVars, sseVars>> PROVE NoticeTypesInv'
  OBVIOUS
<1>1. NoticeInv' /\ TellInv'
  BY NoticeStep, TellStep DEF NoticeTypesInv
<1>2. ASSUME Len(notice') <= MaxNotices, DOMAIN notice \subseteq DOMAIN notice',
             noticeDoc' \in SUBSET DOMAIN notice', AnswerOK'
      PROVE  NoticeTypesInv'
  BY <1>1, <1>2 DEF NoticeTypesInv
<1>3. notice \in Seq(NoticeRow) /\ Len(notice) <= MaxNotices /\ noticeDoc \in SUBSET DOMAIN notice
  BY DEF NoticeTypesInv, NoticeInv
<1>4. ASSUME NEW u \in User, NEW v \in User, Notify(u, v) PROVE NoticeTypesInv'
  <2>1. PICK kind \in Kind : CreateNotification(u, v, kind)
    BY <1>4 DEF Notify, NotifyGroupInvite, NotifyGroupJoinRequest, NotifyTaskInvite, NotifyComment,
                NotifyMention, NotifyFollow, NotifyRating, NotifyGroupJoin, NotifyJoinRequestCreated,
                NotifyJoinRequestApproved, NotifyJoinRequestRejected, Kind
  <2> DEFINE new == [to |-> v, kind |-> kind, response |-> InitialResponse(kind), status |-> "UNREAD"]
  <2>2. notice' = Append(notice, new) /\ Len(notice) < MaxNotices /\ UNCHANGED noticeDoc /\ answer' = None
    BY <2>1 DEF CreateNotification
  <2>3. new \in NoticeRow
    BY DEF NoticeRow, InitialResponse, Kind, Response, NoticeStatus
  <2> HIDE DEF new
  <2>4. Len(notice') = Len(notice) + 1 /\ DOMAIN notice \subseteq DOMAIN notice'
    BY <1>3, <2>2, <2>3
  <2> QED
    BY <1>2, <1>3, <2>2, <2>4, NoticeAssumption DEF AnswerOK
<1>5. ASSUME NEW u \in User, NoticeRequest(u) PROVE NoticeTypesInv'
  <2>1. UNCHANGED noticeDoc
    BY <1>5 DEF NoticeRequest, GetMyNotification, MarkAsRead, MarkRead, RespondToNotification,
                GetNotification, MarkAllAsRead, GetNotifications, GetMyNotifications, GetUnreadCount
  <2>2. DOMAIN notice' = DOMAIN notice
    BY <1>5 DEF NoticeRequest, GetMyNotification, MarkAsRead, MarkRead, RespondToNotification,
                GetNotification, MarkAllAsRead, GetNotifications, GetMyNotifications, GetUnreadCount
  <2>3. Len(notice') = Len(notice)
    BY <1>1, <1>3, <2>2 DEF NoticeInv
  <2> QED
    BY <1>2, <1>3, <1>5, <2>1, <2>2, <2>3, RequestAnswers
<1>6. ASSUME NEW u \in User, NotifyLevelUp(u) PROVE NoticeTypesInv'
  BY <1>2, <1>3, <1>6, NoticeAssumption DEF NotifyLevelUp, AnswerOK, AnswerRow
<1>7. ASSUME NEW i \in DOMAIN notice, IndexNotice(i) \/ SendNotification(i) PROVE NoticeTypesInv'
  BY <1>2, <1>3, <1>7 DEF IndexNotice, SendNotification, AnswerOK
<1>8. CASE UNCHANGED noticeVars
  BY <1>2, <1>3, <1>8 DEF noticeVars, NoticeTypesInv, AnswerOK
<1> QED
  BY <1>4, <1>5, <1>6, <1>7, <1>8 DEF NoticeNext

(* Notifications, the progress of their requests and the answers keep their *)
(* types; no listing is longer than what was created.                       *)
THEOREM NoticeTypes == NoticeSpec => []NoticeTypeOK
<1>1. NoticeTypesInv => NoticeTypeOK
  BY DEF NoticeTypesInv, NoticeInv, TellInv, AnswerOK, AnswerRow, NoticeTypeOK
<1> QED
  BY NoticeTypesStart, NoticeTypesStep, <1>1, PTL DEF NoticeSpec

-----------------------------------------------------------------------------
(* Copies of events                                                         *)

Flag(b) == IF b THEN 1 ELSE 0

\* What is found in boxes, each item with its box.
Items(found) == UNION {{b} \X found[b] : b \in DOMAIN found}

LEMMA DisjointUnion ==
  ASSUME NEW S, NEW T, IsFiniteSet(S), IsFiniteSet(T), S \cap T = {}
  PROVE  /\ IsFiniteSet(S \cup T)
         /\ Cardinality(S \cup T) = Cardinality(S) + Cardinality(T)
<1>1. Cardinality(S) \in Nat /\ Cardinality(T) \in Nat
  BY FS_CardinalityType
<1>2. Cardinality(S \cap T) = 0
  BY FS_EmptySet, Zenon
<1>3. /\ IsFiniteSet(S \cup T)
      /\ Cardinality(S \cup T) = Cardinality(S) + Cardinality(T) - Cardinality(S \cap T)
  BY FS_Union, Zenon
<1> QED
  BY <1>1, <1>2, <1>3

\* Two boxes change: the number of items changes by what they gain and lose.
LEMMA TwoBoxes ==
  ASSUME NEW before, NEW after, NEW Boxes, NEW b1 \in Boxes, NEW b2 \in Boxes, b1 # b2,
         DOMAIN before = Boxes, DOMAIN after = Boxes,
         \A b \in Boxes \ {b1, b2} : after[b] = before[b],
         IsFiniteSet(Items(before)),
         IsFiniteSet(before[b1]), IsFiniteSet(before[b2]),
         IsFiniteSet(after[b1]), IsFiniteSet(after[b2])
  PROVE  /\ IsFiniteSet(Items(after))
         /\ Cardinality(Items(before)) \in Nat /\ Cardinality(Items(after)) \in Nat
         /\ Cardinality(Items(after)) + Cardinality(before[b1]) + Cardinality(before[b2])
              = Cardinality(Items(before)) + Cardinality(after[b1]) + Cardinality(after[b2])
<1> DEFINE rest == UNION {{b} \X before[b] : b \in Boxes \ {b1, b2}}
           Part(b, found) == {b} \X found
<1>1. ASSUME NEW b, NEW S, IsFiniteSet(S)
      PROVE  IsFiniteSet(Part(b, S)) /\ Cardinality(Part(b, S)) = Cardinality(S)
  <2>1. IsFiniteSet({b}) /\ Cardinality({b}) = 1
    BY FS_Singleton
  <2>2. IsFiniteSet({b} \X S) /\ Cardinality({b} \X S) = 1 * Cardinality(S)
    BY <1>1, <2>1, FS_Product
  <2>3. Cardinality(S) \in Nat
    BY <1>1, FS_CardinalityType
  <2> QED
    BY <2>2, <2>3
<1>2. ASSUME NEW found, DOMAIN found = Boxes,
             \A b \in Boxes \ {b1, b2} : found[b] = before[b]
      PROVE  Items(found) = rest \cup (Part(b1, found[b1]) \cup Part(b2, found[b2]))
  <2>1. Items(found) \subseteq rest \cup (Part(b1, found[b1]) \cup Part(b2, found[b2]))
    <3> SUFFICES ASSUME NEW b \in Boxes, NEW x \in {b} \X found[b]
                 PROVE  x \in rest \cup (Part(b1, found[b1]) \cup Part(b2, found[b2]))
      BY <1>2 DEF Items
    <3>1. CASE b \in {b1, b2}
      BY <3>1
    <3>2. CASE b \notin {b1, b2}
      BY <1>2, <3>2
    <3> QED
      BY <3>1, <3>2
  <2>2. rest \cup (Part(b1, found[b1]) \cup Part(b2, found[b2])) \subseteq Items(found)
    BY <1>2 DEF Items
  <2> QED
    BY <2>1, <2>2
<1>3. \A S, T : rest \cap (Part(b1, S) \cup Part(b2, T)) = {} /\ Part(b1, S) \cap Part(b2, T) = {}
  OBVIOUS
<1>4. IsFiniteSet(rest)
  <2>1. rest \in SUBSET Items(before)
    BY DEF Items
  <2> HIDE DEF rest
  <2> QED
    BY <2>1, FS_Subset
<1>5. ASSUME NEW S, NEW T, IsFiniteSet(S), IsFiniteSet(T)
      PROVE  /\ IsFiniteSet(rest \cup (Part(b1, S) \cup Part(b2, T)))
             /\ Cardinality(rest \cup (Part(b1, S) \cup Part(b2, T)))
                  = Cardinality(rest) + Cardinality(S) + Cardinality(T)
  <2>1. /\ IsFiniteSet(Part(b1, S)) /\ Cardinality(Part(b1, S)) = Cardinality(S)
        /\ IsFiniteSet(Part(b2, T)) /\ Cardinality(Part(b2, T)) = Cardinality(T)
    BY <1>1, <1>5
  <2>2. /\ rest \cap (Part(b1, S) \cup Part(b2, T)) = {}
        /\ Part(b1, S) \cap Part(b2, T) = {}
    BY <1>3
  <2>3. Cardinality(rest) \in Nat /\ Cardinality(S) \in Nat /\ Cardinality(T) \in Nat
    BY <1>4, <1>5, FS_CardinalityType
  <2> HIDE DEF rest, Part
  <2>5. /\ IsFiniteSet(Part(b1, S) \cup Part(b2, T))
        /\ Cardinality(Part(b1, S) \cup Part(b2, T)) = Cardinality(S) + Cardinality(T)
    BY <2>1, <2>2, <2>3, DisjointUnion
  <2>6. /\ IsFiniteSet(rest \cup (Part(b1, S) \cup Part(b2, T)))
        /\ Cardinality(rest \cup (Part(b1, S) \cup Part(b2, T)))
             = Cardinality(rest) + (Cardinality(S) + Cardinality(T))
    BY <1>4, <2>2, <2>5, DisjointUnion
  <2> QED
    BY <2>3, <2>6
<1>6. /\ Items(before) = rest \cup (Part(b1, before[b1]) \cup Part(b2, before[b2]))
      /\ Items(after) = rest \cup (Part(b1, after[b1]) \cup Part(b2, after[b2]))
  BY <1>2
<1> HIDE DEF rest, Part
<1>7. Cardinality(rest) \in Nat
  BY <1>4, FS_CardinalityType
<1>8. /\ Cardinality(before[b1]) \in Nat /\ Cardinality(before[b2]) \in Nat
      /\ Cardinality(after[b1]) \in Nat /\ Cardinality(after[b2]) \in Nat
  BY FS_CardinalityType
<1>9. Cardinality(Items(before)) = Cardinality(rest) + Cardinality(before[b1]) + Cardinality(before[b2])
  BY <1>5, <1>6, Zenon
<1>10. IsFiniteSet(Items(after))
  <2> DEFINE all == rest \cup (Part(b1, after[b1]) \cup Part(b2, after[b2]))
  <2>1. IsFiniteSet(all)
    BY <1>5
  <2>2. Items(after) = all
    BY <1>6
  <2> HIDE DEF all
  <2> QED
    BY <2>1, <2>2
<1>11. Cardinality(Items(after)) = Cardinality(rest) + Cardinality(after[b1]) + Cardinality(after[b2])
  BY <1>5, <1>6, Zenon
<1> QED
  BY <1>7, <1>8, <1>9, <1>10, <1>11

\* The places of an event when the sequence grows at its end or loses its head.
LEMMA PositionsFinite ==
  ASSUME NEW events \in Seq(Nat), NEW n
  PROVE  IsFiniteSet(Positions(n, events)) /\ Cardinality(Positions(n, events)) \in Nat
<1>1. IsFiniteSet(1..Len(events)) /\ Positions(n, events) \in SUBSET (1..Len(events))
  <2>1. Len(events) \in Int
    OBVIOUS
  <2> QED
    BY <2>1, FS_Interval DEF Positions
<1>2. IsFiniteSet(Positions(n, events))
  BY <1>1, FS_Subset
<1> QED
  BY <1>2, FS_CardinalityType

LEMMA PositionsAppend ==
  ASSUME NEW events \in Seq(Nat), NEW n, NEW m \in Nat
  PROVE  /\ Append(events, m) \in Seq(Nat)
         /\ m # n => Positions(n, Append(events, m)) = Positions(n, events)
         /\ IsFiniteSet(Positions(n, Append(events, m)))
         /\ Cardinality(Positions(n, Append(events, m))) \in Nat
         /\ Cardinality(Positions(n, Append(events, m))) <= Cardinality(Positions(n, events)) + 1
<1> DEFINE last == Len(events) + 1
           old == Positions(n, events)
           new == Positions(n, Append(events, m))
<1>1. IsFiniteSet(old) /\ Cardinality(old) \in Nat
  BY PositionsFinite
<1>2. new = IF m = n THEN old \cup {last} ELSE old
  BY DEF Positions
<1>3. Append(events, m) \in Seq(Nat)
  OBVIOUS
<1> HIDE DEF old, last, new
<1>4. IsFiniteSet(old \cup {last}) /\ Cardinality(old \cup {last}) <= Cardinality(old) + 1
  <2>1. /\ IsFiniteSet(old \cup {last})
        /\ Cardinality(old \cup {last}) = IF last \in old THEN Cardinality(old) ELSE Cardinality(old) + 1
    BY <1>1, FS_AddElement, Zenon
  <2> QED
    BY <1>1, <2>1
<1>5. IsFiniteSet(new) /\ Cardinality(new) <= Cardinality(old) + 1 /\ (m # n => new = old)
  BY <1>1, <1>2, <1>4
<1>6. Cardinality(new) \in Nat
  BY <1>5, FS_CardinalityType
<1> QED
  BY <1>3, <1>5, <1>6 DEF new, old

LEMMA PositionsTail ==
  ASSUME NEW events \in Seq(Nat), NEW n, events # <<>>
  PROVE  /\ Head(events) \in Nat /\ Tail(events) \in Seq(Nat)
         /\ IsFiniteSet(Positions(n, Tail(events)))
         /\ Cardinality(Positions(n, Tail(events))) \in Nat
         /\ Cardinality(Positions(n, Tail(events))) + Flag(Head(events) = n)
              <= Cardinality(Positions(n, events))
<1> DEFINE old == Positions(n, events)
           new == Positions(n, Tail(events))
           moved == old \ {1}
           f == [i \in moved |-> i - 1]
<1>1. IsFiniteSet(old) /\ Cardinality(old) \in Nat
  BY PositionsFinite
<1>2. Head(events) \in Nat /\ Tail(events) \in Seq(Nat)
  OBVIOUS
<1>3. f \in Surjection(moved, new)
  <2>1. /\ DOMAIN Tail(events) = 1..Len(events) - 1 /\ Len(events) \in Nat
        /\ DOMAIN events = 1..Len(events)
        /\ \A j \in DOMAIN Tail(events) : Tail(events)[j] = events[j + 1]
    OBVIOUS
  <2>2. \A i \in moved : i - 1 \in new
    BY <2>1 DEF Positions
  <2>3. \A j \in new : j + 1 \in moved /\ f[j + 1] = j
    BY <2>1 DEF Positions
  <2> QED
    BY <2>2, <2>3 DEF Surjection
<1>4. (1 \in old) = (Head(events) = n)
  BY DEF Positions
<1> HIDE DEF old, new, f
<1>5. IsFiniteSet(moved) /\ Cardinality(moved) = IF 1 \in old THEN Cardinality(old) - 1 ELSE Cardinality(old)
  BY <1>1, FS_RemoveElement
<1>6. IsFiniteSet(new) /\ Cardinality(new) <= Cardinality(moved)
  <2> HIDE DEF moved
  <2> QED
    BY <1>3, <1>5, FS_Surjection
<1>7. Cardinality(new) \in Nat
  BY <1>6, FS_CardinalityType
<1>8. Cardinality(new) + Flag(Head(events) = n) <= Cardinality(old)
  BY <1>1, <1>4, <1>5, <1>6, <1>7 DEF Flag
<1> QED
  BY <1>2, <1>6, <1>7, <1>8 DEF old, new

-----------------------------------------------------------------------------
StreamState == [state : {"new", "open", "closed"}, process : Process \cup {None},
                user : User \cup {None}, queue : Stream \cup {None}]
WaitState == [queue : Stream, event : DOMAIN published] \cup {None}

\* Queue q was made for a stream of user u in process p.
InHome(q, p, u) ==
  /\ q \in Stream /\ stream[q].state # "new"
  /\ stream[q].process = p /\ stream[q].user = u

\* All that refers to a queue does so in its process and for its user, and
\* every event in it is for that user.
Homes ==
  /\ \A s \in Stream :
       stream[s].state # "new" => /\ stream[s].process \in Process /\ stream[s].user \in User
                                  /\ InHome(stream[s].queue, stream[s].process, stream[s].user)
  /\ \A p \in Process, u \in User :
       connections[p][u] # None => InHome(connections[p][u], p, u)
  /\ \A p \in Process :
       listener[p] # None => InHome(listener[p].queue, p, published[listener[p].event].to)

ForUser(s, events) ==
  \A i \in DOMAIN events : stream[s].state # "new" /\ stream[s].user = published[events[i]].to

Addressed == \A s \in Stream : ForUser(s, inbox[s]) /\ ForUser(s, seen[s])

HomeInv == SseTypeOK /\ Homes /\ Addressed

LEMMA HomesStart == SseInit => HomeInv
<1> SUFFICES ASSUME SseInit PROVE HomeInv
  OBVIOUS
<1>1. DOMAIN published = {} /\ published \in Seq([to : User, at : Process])
  BY DEF SseInit
<1>2. \A S : <<>> \in Seq(S) /\ DOMAIN <<>> = {} /\ Len(<<>>) = 0
  OBVIOUS
<1> QED
  BY <1>1, <1>2, SseAssumption DEF SseInit, HomeInv, SseTypeOK, Homes, Addressed, ForUser, InHome

LEMMA SequenceGrows ==
  ASSUME NEW S, NEW T, S \subseteq T, NEW events \in Seq(S)
  PROVE  events \in Seq(T)
  OBVIOUS

LEMMA ElementOf ==
  ASSUME NEW S, NEW events \in Seq(S), NEW i \in DOMAIN events
  PROVE  events[i] \in S
  OBVIOUS

LEMMA PutTypes ==
  ASSUME HomeInv, NEW q \in Stream \cup {None}, NEW m, PutNoWait(q, m),
         NEW D, m \in D, DOMAIN published \subseteq D
  PROVE  /\ inbox' \in [Stream -> Seq(D)]
         /\ \A r \in Stream : Len(inbox'[r]) <= MaxQueue
         /\ \A r \in Stream : inbox'[r] = inbox[r] \/ (r = q /\ inbox'[r] = Append(inbox[r], m))
<1>1. /\ inbox \in [Stream -> Seq(D)]
      /\ \A r \in Stream : Len(inbox[r]) <= MaxQueue
  BY SequenceGrows DEF HomeInv, SseTypeOK
<1>2. CASE q # None /\ Room(q)
  <2>1. inbox' = [inbox EXCEPT ![q] = Append(inbox[q], m)]
    BY <1>2 DEF PutNoWait
  <2>2. q \in Stream
    BY <1>2
  <2>3. Append(inbox[q], m) \in Seq(D) /\ Len(Append(inbox[q], m)) <= MaxQueue
    BY <1>1, <1>2, <2>2, SseAssumption DEF Room
  <2> QED
    BY <1>1, <2>1, <2>2, <2>3
<1>3. CASE ~(q # None /\ Room(q))
  BY <1>1, <1>3 DEF PutNoWait
<1> QED
  BY <1>2, <1>3

\* An event put into the queue of a process for its user changes nothing else.
LEMMA PutAddressed ==
  ASSUME HomeInv, NEW q \in Stream \cup {None}, NEW m \in DOMAIN published, PutNoWait(q, m),
         NEW p, q # None => InHome(q, p, published[m].to),
         UNCHANGED <<published, stream, seen>>
  PROVE  Addressed' /\ inbox' \in [Stream -> Seq(DOMAIN published)]
         /\ \A r \in Stream : Len(inbox'[r]) <= MaxQueue
<1>1. /\ inbox' \in [Stream -> Seq(DOMAIN published)]
      /\ \A r \in Stream : Len(inbox'[r]) <= MaxQueue
      /\ \A r \in Stream : inbox'[r] = inbox[r] \/ (r = q /\ inbox'[r] = Append(inbox[r], m))
  BY PutTypes
<1>2. ASSUME NEW s \in Stream
      PROVE  ForUser(s, inbox[s])' /\ ForUser(s, seen[s])'
  <2>1. ForUser(s, inbox[s]) /\ ForUser(s, seen[s])
    BY DEF HomeInv, Addressed
  <2>2. CASE inbox'[s] = inbox[s]
    BY <2>1, <2>2 DEF ForUser
  <2>3. CASE s = q /\ inbox'[s] = Append(inbox[s], m)
    <3>1. /\ DOMAIN inbox'[s] = DOMAIN inbox[s] \cup {Len(inbox[s]) + 1}
          /\ \A i \in DOMAIN inbox[s] : inbox'[s][i] = inbox[s][i]
          /\ inbox'[s][Len(inbox[s]) + 1] = m
      <4>1. inbox[s] \in Seq(DOMAIN published)
        BY DEF HomeInv, SseTypeOK
      <4> QED
        BY <2>3, <4>1
    <3>2. stream[s].state # "new" /\ stream[s].user = published[m].to
      BY <2>3, SseAssumption DEF InHome
    <3> QED
      BY <2>1, <3>1, <3>2 DEF ForUser
  <2> QED
    BY <1>1, <2>2, <2>3
<1> QED
  BY <1>1, <1>2 DEF Addressed

LEMMA ConnectHomes ==
  ASSUME HomeInv, NEW s \in Stream, NEW p \in Process, NEW u \in User, Connect(s, p, u)
  PROVE  HomeInv'
<1>0. PICK q : q = IF connections[p][u] = None THEN s ELSE connections[p][u]
  OBVIOUS
<1> DEFINE new == [state |-> "open", process |-> p, user |-> u, queue |-> q]
<1>1. /\ stream' = [stream EXCEPT ![s] = new]
      /\ connections' = [connections EXCEPT ![p][u] = q]
      /\ stream[s].state = "new"
      /\ UNCHANGED <<relay, published, inbox, seen, sending, bus, listener>>
  BY <1>0 DEF Connect
<1>2. /\ stream \in [Stream -> StreamState]
      /\ connections \in [Process -> [User -> Stream \cup {None}]]
  BY DEF HomeInv, SseTypeOK, StreamState
<1>3. q \in Stream /\ (q = s \/ InHome(q, p, u))
  BY <1>0, <1>2 DEF HomeInv, Homes
<1>4. new \in StreamState /\ new.state # "new" /\ new.process = p /\ new.user = u /\ new.queue = q
  BY <1>3 DEF StreamState
<1> HIDE DEF new
<1>5. /\ stream'[s] = new
      /\ \A r \in Stream \ {s} : stream'[r] = stream[r]
      /\ stream' \in [Stream -> StreamState]
      /\ connections' \in [Process -> [User -> Stream \cup {None}]]
      /\ \A r \in Process, v \in User : connections'[r][v] = connections[r][v]
                                        \/ (r = p /\ v = u /\ connections'[r][v] = q)
  BY <1>1, <1>2, <1>3, <1>4
\* What was in its home is so still: stream s had none.
<1>6. \A r, v, w : InHome(r, v, w) => InHome(r, v, w)'
  BY <1>1, <1>5 DEF InHome
<1>7. InHome(s, p, u)' /\ InHome(q, p, u)'
  BY <1>3, <1>4, <1>5, <1>6 DEF InHome
<1>8. Homes'
  <2>1. \A r \in Stream : stream'[r].state # "new" =>
          /\ stream'[r].process \in Process /\ stream'[r].user \in User
          /\ InHome(stream[r].queue, stream[r].process, stream[r].user)'
    <3> SUFFICES ASSUME NEW r \in Stream, stream'[r].state # "new"
                 PROVE  /\ stream'[r].process \in Process /\ stream'[r].user \in User
                        /\ InHome(stream[r].queue, stream[r].process, stream[r].user)'
      OBVIOUS
    <3>1. CASE r = s
      BY <1>4, <1>5, <1>7, <3>1 DEF InHome
    <3>2. CASE r # s
      <4>1. /\ stream'[r] = stream[r]
            /\ stream[r].process \in Process /\ stream[r].user \in User
            /\ InHome(stream[r].queue, stream[r].process, stream[r].user)
        BY <1>5, <3>2 DEF HomeInv, Homes
      <4>2. InHome(stream[r].queue, stream[r].process, stream[r].user) =>
              /\ stream[r].queue \in Stream
              /\ stream'[stream[r].queue].state # "new"
              /\ stream'[stream[r].queue].process = stream[r].process
              /\ stream'[stream[r].queue].user = stream[r].user
        BY <1>1, <1>5 DEF InHome
      <4> QED
        BY <4>1, <4>2 DEF InHome
    <3> QED
      BY <3>1, <3>2
  <2>2. \A r \in Process, v \in User :
          connections'[r][v] # None => InHome(connections[r][v], r, v)'
    <3> SUFFICES ASSUME NEW r \in Process, NEW v \in User, connections'[r][v] # None
                 PROVE  InHome(connections[r][v], r, v)'
      OBVIOUS
    <3>1. CASE connections'[r][v] = connections[r][v]
      <4>1. InHome(connections[r][v], r, v)
        BY <3>1 DEF HomeInv, Homes
      <4> QED
        BY <1>1, <1>5, <3>1, <4>1 DEF InHome
    <3>2. CASE r = p /\ v = u /\ connections'[r][v] = q
      BY <1>7, <3>2 DEF InHome
    <3> QED
      BY <1>5, <3>1, <3>2
  <2>3. \A r \in Process : listener'[r] # None =>
          InHome(listener[r].queue, r, published[listener[r].event].to)'
    <3> SUFFICES ASSUME NEW r \in Process, listener'[r] # None
                 PROVE  InHome(listener[r].queue, r, published[listener[r].event].to)'
      OBVIOUS
    <3>1. listener' = listener /\ published' = published
      BY <1>1
    <3>2. InHome(listener[r].queue, r, published[listener[r].event].to)
      BY <3>1 DEF HomeInv, Homes
    <3> QED
      BY <1>1, <1>5, <3>1, <3>2 DEF InHome
  <2> QED
    BY <2>1, <2>2, <2>3 DEF Homes
<1>9. Addressed'
  <2> SUFFICES ASSUME NEW r \in Stream PROVE ForUser(r, inbox[r])' /\ ForUser(r, seen[r])'
    BY DEF Addressed
  <2>1. ForUser(r, inbox[r]) /\ ForUser(r, seen[r])
    BY DEF HomeInv, Addressed
  <2> QED
    BY <1>1, <1>5, <2>1 DEF ForUser
<1> QED
  BY <1>1, <1>5, <1>8, <1>9 DEF HomeInv, SseTypeOK, StreamState

\* Streams may close, and what the manager and the listeners know may go.
LEMMA ClosedHomes ==
  ASSUME HomeInv, UNCHANGED <<relay, published, inbox, seen>>,
         stream' \in [Stream -> StreamState],
         \A s \in Stream : stream'[s] = stream[s]
                           \/ (stream[s].state = "open" /\ stream'[s] = [stream[s] EXCEPT !.state = "closed"]),
         connections' \in [Process -> [User -> Stream \cup {None}]],
         \A p \in Process, u \in User : connections'[p][u] \in {connections[p][u], None},
         \A p \in Process : listener'[p] \in {listener[p], None},
         listener' \in [Process -> WaitState],
         sending' \subseteq sending, bus' \in [Process -> Seq(DOMAIN published)]
  PROVE  HomeInv'
<1>1. stream \in [Stream -> StreamState]
  BY DEF HomeInv, SseTypeOK, StreamState
<1>2. \A s \in Stream : /\ stream'[s].process = stream[s].process
                        /\ stream'[s].user = stream[s].user
                        /\ stream'[s].queue = stream[s].queue
                        /\ stream'[s].state = "new" <=> stream[s].state = "new"
  BY <1>1 DEF StreamState
<1>3. Homes'
  <2>1. \A s \in Stream : stream'[s].state # "new" =>
          /\ stream'[s].process \in Process /\ stream'[s].user \in User
          /\ InHome(stream[s].queue, stream[s].process, stream[s].user)'
    BY <1>2 DEF HomeInv, Homes, InHome
  <2>2. \A p \in Process, u \in User :
          connections'[p][u] # None => InHome(connections[p][u], p, u)'
    <3> SUFFICES ASSUME NEW p \in Process, NEW u \in User, connections'[p][u] # None
                 PROVE  InHome(connections[p][u], p, u)'
      OBVIOUS
    <3>1. connections'[p][u] = connections[p][u] /\ InHome(connections[p][u], p, u)
      BY DEF HomeInv, Homes
    <3> QED
      BY <1>2, <3>1 DEF InHome
  <2>3. \A p \in Process : listener'[p] # None =>
          InHome(listener[p].queue, p, published[listener[p].event].to)'
    <3> SUFFICES ASSUME NEW p \in Process, listener'[p] # None
                 PROVE  InHome(listener[p].queue, p, published[listener[p].event].to)'
      OBVIOUS
    <3>1. /\ listener'[p] = listener[p] /\ published' = published
          /\ InHome(listener[p].queue, p, published[listener[p].event].to)
      BY DEF HomeInv, Homes
    <3> QED
      BY <1>2, <3>1 DEF InHome
  <2> QED
    BY <2>1, <2>2, <2>3 DEF Homes
<1>4. Addressed'
  <2> SUFFICES ASSUME NEW r \in Stream PROVE ForUser(r, inbox[r])' /\ ForUser(r, seen[r])'
    BY DEF Addressed
  <2>1. ForUser(r, inbox[r]) /\ ForUser(r, seen[r])
    BY DEF HomeInv, Addressed
  <2> QED
    BY <1>2, <2>1 DEF ForUser
<1> QED
  BY <1>3, <1>4 DEF HomeInv, SseTypeOK, StreamState, WaitState

LEMMA DisconnectHomes ==
  ASSUME HomeInv, NEW s \in Stream, Disconnect(s)
  PROVE  HomeInv'
<1>1. /\ stream \in [Stream -> StreamState] /\ stream[s] \in StreamState
      /\ connections \in [Process -> [User -> Stream \cup {None}]]
      /\ listener \in [Process -> WaitState]
      /\ bus \in [Process -> Seq(DOMAIN published)]
  BY DEF HomeInv, SseTypeOK, StreamState, WaitState
<1>2. /\ stream' = [stream EXCEPT ![s].state = "closed"]
      /\ stream[s].state = "open"
      /\ connections' = [connections EXCEPT ![stream[s].process][stream[s].user] = None]
      /\ UNCHANGED <<relay, published, inbox, seen, sending, bus, listener>>
  BY DEF Disconnect
<1>3. [stream[s] EXCEPT !.state = "closed"] \in StreamState
  BY <1>1 DEF StreamState
<1>4. /\ stream' \in [Stream -> StreamState]
      /\ \A r \in Stream : stream'[r] = stream[r]
           \/ (stream[r].state = "open" /\ stream'[r] = [stream[r] EXCEPT !.state = "closed"])
  BY <1>1, <1>2, <1>3
<1>5. /\ connections' \in [Process -> [User -> Stream \cup {None}]]
      /\ \A p \in Process, u \in User : connections'[p][u] \in {connections[p][u], None}
  BY <1>1, <1>2
<1> QED
  BY <1>1, <1>2, <1>4, <1>5, ClosedHomes

LEMMA RestartHomes ==
  ASSUME HomeInv, NEW p \in Process, RestartProcess(p)
  PROVE  HomeInv'
<1>1. /\ stream \in [Stream -> StreamState]
      /\ connections \in [Process -> [User -> Stream \cup {None}]]
      /\ listener \in [Process -> WaitState]
      /\ bus \in [Process -> Seq(DOMAIN published)]
  BY DEF HomeInv, SseTypeOK, StreamState, WaitState
<1>2. /\ UNCHANGED <<relay, published, inbox, seen>>
      /\ connections' = [connections EXCEPT ![p] = [u \in User |-> None]]
      /\ bus' = [bus EXCEPT ![p] = <<>>]
      /\ listener' = [listener EXCEPT ![p] = None]
      /\ sending' \subseteq sending
  BY DEF RestartProcess
<1>3. /\ stream' \in [Stream -> StreamState]
      /\ \A r \in Stream : stream'[r] = stream[r]
           \/ (stream[r].state = "open" /\ stream'[r] = [stream[r] EXCEPT !.state = "closed"])
  <2> DEFINE lost == {s \in Stream : stream[s].state = "open" /\ stream[s].process = p}
  <2>1. stream' = [s \in Stream |-> IF s \in lost THEN [stream[s] EXCEPT !.state = "closed"]
                                                  ELSE stream[s]]
    BY DEF RestartProcess
  <2>2. \A s \in Stream : [stream[s] EXCEPT !.state = "closed"] \in StreamState
    BY <1>1 DEF StreamState
  <2> QED
    BY <1>1, <2>1, <2>2
<1>4. /\ connections' \in [Process -> [User -> Stream \cup {None}]]
      /\ \A r \in Process, u \in User : connections'[r][u] \in {connections[r][u], None}
  BY <1>1, <1>2
<1>5. /\ \A r \in Process : listener'[r] \in {listener[r], None}
      /\ listener' \in [Process -> WaitState]
      /\ bus' \in [Process -> Seq(DOMAIN published)]
  <2>1. None \in WaitState /\ <<>> \in Seq(DOMAIN published)
    BY DEF WaitState
  <2> QED
    BY <1>1, <1>2, <2>1
<1> QED
  BY <1>2, <1>3, <1>4, <1>5, ClosedHomes

\* What is sent was in a queue of the same user.
LEMMA YieldHomes ==
  ASSUME HomeInv, NEW s \in Stream, Yield(s)
  PROVE  HomeInv'
<1> DEFINE q == stream[s].queue
<1>1. /\ q \in Stream /\ inbox[q] # <<>>
      /\ stream[q].user = stream[s].user /\ stream[s].state = "open"
  BY DEF Yield, HomeInv, Homes, InHome
<1>2. /\ seen' = [seen EXCEPT ![s] = Append(seen[s], Head(inbox[q]))]
      /\ inbox' = [inbox EXCEPT ![q] = Tail(inbox[q])]
      /\ UNCHANGED <<relay, published, connections, stream, sending, bus, listener>>
  BY DEF Yield
<1>3. /\ inbox \in [Stream -> Seq(DOMAIN published)] /\ seen \in [Stream -> Seq(DOMAIN published)]
      /\ \A r \in Stream : Len(inbox[r]) <= MaxQueue
      /\ ForUser(q, inbox[q]) /\ ForUser(s, seen[s])
  BY <1>1 DEF HomeInv, SseTypeOK, Addressed
<1> HIDE DEF q
<1> DEFINE n == Head(inbox[q])
<1>4. /\ n \in DOMAIN published /\ Tail(inbox[q]) \in Seq(DOMAIN published)
      /\ Len(Tail(inbox[q])) <= MaxQueue
      /\ 1 \in DOMAIN inbox[q] /\ n = inbox[q][1]
      /\ \A i \in DOMAIN Tail(inbox[q]) : i + 1 \in DOMAIN inbox[q] /\ Tail(inbox[q])[i] = inbox[q][i + 1]
  BY <1>1, <1>3, SseAssumption
<1>5. published[n].to = stream[s].user
  BY <1>1, <1>3, <1>4 DEF ForUser
<1> HIDE DEF n
<1>6. /\ Append(seen[s], n) \in Seq(DOMAIN published)
      /\ \A i \in DOMAIN Append(seen[s], n) :
           Append(seen[s], n)[i] = n \/ (i \in DOMAIN seen[s] /\ Append(seen[s], n)[i] = seen[s][i])
  BY <1>3, <1>4
<1>7. ForUser(q, Tail(inbox[q])) /\ ForUser(s, Append(seen[s], n))
  BY <1>1, <1>3, <1>4, <1>5, <1>6 DEF ForUser
<1>8. /\ inbox' \in [Stream -> Seq(DOMAIN published)] /\ seen' \in [Stream -> Seq(DOMAIN published)]
      /\ \A r \in Stream : Len(inbox'[r]) <= MaxQueue
      /\ inbox'[q] = Tail(inbox[q]) /\ \A r \in Stream \ {q} : inbox'[r] = inbox[r]
      /\ seen'[s] = Append(seen[s], n) /\ \A r \in Stream \ {s} : seen'[r] = seen[r]
  BY <1>1, <1>2, <1>3, <1>4, <1>6 DEF n
<1>9. Addressed'
  <2> SUFFICES ASSUME NEW r \in Stream PROVE ForUser(r, inbox[r])' /\ ForUser(r, seen[r])'
    BY DEF Addressed
  <2>1. ForUser(r, inbox[r]) /\ ForUser(r, seen[r])
    BY DEF HomeInv, Addressed
  <2>2. ForUser(r, inbox'[r]) /\ ForUser(r, seen'[r])
    BY <1>7, <1>8, <2>1
  <2> QED
    BY <1>2, <2>2 DEF ForUser
<1>10. Homes'
  BY <1>2 DEF HomeInv, Homes, InHome
<1> QED
  BY <1>2, <1>8, <1>9, <1>10 DEF HomeInv, SseTypeOK

LEMMA PutLocallyHomes ==
  ASSUME HomeInv, NEW n, PutLocally(n)
  PROVE  HomeInv'
<1> DEFINE p == published[n].at
           q == QueueOf(n, p)
<1>1. n \in DOMAIN published /\ p \in Process /\ published[n].to \in User
  <2>1. n \in DOMAIN published /\ published \in Seq([to : User, at : Process])
    BY DEF PutLocally, HomeInv, SseTypeOK
  <2>2. published[n] \in [to : User, at : Process]
    BY <2>1, ElementOf
  <2> QED
    BY <2>1, <2>2
<1>2. q \in Stream \cup {None} /\ (q # None => InHome(q, p, published[n].to))
  BY <1>1 DEF QueueOf, HomeInv, SseTypeOK, Homes
<1>3. /\ PutNoWait(q, n) /\ sending' = sending \ {n}
      /\ UNCHANGED <<relay, published, connections, stream, seen, bus, listener>>
  BY DEF PutLocally
<1> HIDE DEF p, q
<1>4. Addressed' /\ inbox' \in [Stream -> Seq(DOMAIN published)]
      /\ \A r \in Stream : Len(inbox'[r]) <= MaxQueue
  BY <1>1, <1>2, <1>3, PutAddressed
<1>5. Homes'
  BY <1>3 DEF HomeInv, Homes, InHome
<1> QED
  BY <1>3, <1>4, <1>5 DEF HomeInv, SseTypeOK

LEMMA ListenHomes ==
  ASSUME HomeInv, NEW p \in Process, Listen(p)
  PROVE  HomeInv'
<1> DEFINE n == Head(bus[p])
           q == QueueOf(n, p)
           wait == [queue |-> q, event |-> n]
<1>1. /\ n \in DOMAIN published /\ published[n].to \in User
      /\ Tail(bus[p]) \in Seq(DOMAIN published)
      /\ bus \in [Process -> Seq(DOMAIN published)]
      /\ listener \in [Process -> WaitState]
  <2>1. bus \in [Process -> Seq(DOMAIN published)] /\ bus[p] # <<>>
    BY DEF Listen, HomeInv, SseTypeOK
  <2>2. n \in DOMAIN published /\ published \in Seq([to : User, at : Process])
    BY <2>1 DEF HomeInv, SseTypeOK
  <2>3. published[n] \in [to : User, at : Process]
    BY <2>2, ElementOf
  <2> QED
    BY <2>1, <2>2, <2>3 DEF HomeInv, SseTypeOK, WaitState
<1>2. /\ PutNoWait(q, n)
      /\ bus' = [bus EXCEPT ![p] = Tail(bus[p])]
      /\ listener' = IF q # None /\ ~Room(q) THEN [listener EXCEPT ![p] = wait] ELSE listener
      /\ UNCHANGED <<relay, published, connections, stream, seen, sending>>
  BY DEF Listen
<1> HIDE DEF n
<1>3. q \in Stream \cup {None} /\ (q # None => InHome(q, p, published[n].to))
  BY <1>1 DEF QueueOf, HomeInv, SseTypeOK, Homes
<1> HIDE DEF q
<1>4. q # None => wait \in WaitState /\ wait.queue = q /\ wait.event = n
  BY <1>1, <1>3 DEF WaitState
<1> HIDE DEF wait
<1>5. /\ listener' \in [Process -> WaitState]
      /\ \A r \in Process : listener'[r] = listener[r]
                            \/ (r = p /\ q # None /\ listener'[r] = wait)
  BY <1>1, <1>2, <1>4
<1>6. Addressed' /\ inbox' \in [Stream -> Seq(DOMAIN published)]
      /\ \A r \in Stream : Len(inbox'[r]) <= MaxQueue
  BY <1>1, <1>2, <1>3, PutAddressed
<1>7. bus' \in [Process -> Seq(DOMAIN published)]
  BY <1>1, <1>2
<1>8. Homes'
  <2>1. \A r \in Process : listener'[r] # None =>
          InHome(listener'[r].queue, r, published[listener'[r].event].to)
    BY <1>3, <1>4, <1>5 DEF HomeInv, Homes
  <2> QED
    BY <1>2, <2>1 DEF HomeInv, Homes, InHome
<1> QED
  BY <1>2, <1>5, <1>6, <1>7, <1>8 DEF HomeInv, SseTypeOK, WaitState

LEMMA ResumeHomes ==
  ASSUME HomeInv, NEW p \in Process, ResumeListener(p)
  PROVE  HomeInv'
<1> DEFINE n == listener[p].event
           q == listener[p].queue
<1>1. listener \in [Process -> WaitState] /\ listener[p] # None
  BY DEF ResumeListener, HomeInv, SseTypeOK, WaitState
<1>2. n \in DOMAIN published /\ q \in Stream \cup {None} /\ InHome(q, p, published[n].to)
  BY <1>1 DEF WaitState, HomeInv, Homes
<1>3. /\ PutNoWait(q, n) /\ listener' = [listener EXCEPT ![p] = None]
      /\ UNCHANGED <<relay, published, connections, stream, seen, sending, bus>>
  BY DEF ResumeListener
<1> HIDE DEF n, q
<1>4. Addressed' /\ inbox' \in [Stream -> Seq(DOMAIN published)]
      /\ \A r \in Stream : Len(inbox'[r]) <= MaxQueue
  BY <1>2, <1>3, PutAddressed
<1>5. /\ listener' \in [Process -> WaitState]
      /\ \A r \in Process : listener'[r] \in {listener[r], None}
  <2>1. None \in WaitState
    BY DEF WaitState
  <2> QED
    BY <1>1, <1>3, <2>1
<1>6. Homes'
  BY <1>3, <1>5 DEF HomeInv, Homes, InHome
<1> QED
  BY <1>3, <1>4, <1>5, <1>6 DEF HomeInv, SseTypeOK, WaitState

\* A new event is for the user whose queue it is put in.
LEMMA PublishHomes ==
  ASSUME HomeInv, NEW p \in Process, NEW u \in User, Publish(p, u)
  PROVE  HomeInv'
<1>1. PICK n : n = Len(published) + 1
  OBVIOUS
<1>2. PICK D : D = DOMAIN published'
  OBVIOUS
<1>3. /\ published' = Append(published, [to |-> u, at |-> p])
      /\ n \in Event
      /\ UNCHANGED <<relay, connections, stream, seen, listener>>
  BY <1>1 DEF Publish
<1>4. /\ published \in Seq([to : User, at : Process])
      /\ connections \in [Process -> [User -> Stream \cup {None}]]
      /\ bus \in [Process -> Seq(DOMAIN published)]
  BY DEF HomeInv, SseTypeOK
<1>5. /\ published' \in Seq([to : User, at : Process]) /\ Len(published') <= MaxPublished
      /\ D = DOMAIN published \cup {n} /\ n \in D /\ DOMAIN published \subseteq D
      /\ \A i \in DOMAIN published : published'[i] = published[i]
      /\ published'[n].to = u
  BY <1>1, <1>2, <1>3, <1>4, SseAssumption DEF Event
<1>6. /\ bus' \in [Process -> Seq(D)] /\ sending' \subseteq D
      /\ inbox' \in [Stream -> Seq(D)]
      /\ \A r \in Stream : Len(inbox'[r]) <= MaxQueue
      /\ \A r \in Stream : inbox'[r] = inbox[r]
           \/ (r = connections[p][u] /\ inbox'[r] = Append(inbox[r], n))
  <2>1. \A r \in Process : bus[r] \in Seq(D) /\ Append(bus[r], n) \in Seq(D)
    <3> SUFFICES ASSUME NEW r \in Process PROVE bus[r] \in Seq(D) /\ Append(bus[r], n) \in Seq(D)
      OBVIOUS
    <3>1. bus[r] \in Seq(D)
      BY <1>4, <1>5, SequenceGrows
    <3> QED
      BY <1>5, <3>1
  <2>2. CASE relay
    <3>1. /\ bus' = [r \in Process |-> Append(bus[r], n)]
          /\ sending' = sending \cup {n} /\ UNCHANGED inbox
      BY <1>1, <2>2 DEF Publish
    <3>2. inbox \in [Stream -> Seq(D)] /\ \A r \in Stream : Len(inbox[r]) <= MaxQueue
      BY <1>5, SequenceGrows DEF HomeInv, SseTypeOK
    <3> QED
      BY <1>5, <2>1, <3>1, <3>2 DEF HomeInv, SseTypeOK
  <2>3. CASE ~relay
    <3>1. PutNoWait(connections[p][u], n) /\ UNCHANGED <<bus, sending>>
      BY <1>1, <2>3 DEF Publish
    <3>2. connections[p][u] \in Stream \cup {None}
      BY <1>4
    <3>3. /\ inbox' \in [Stream -> Seq(D)]
          /\ \A r \in Stream : Len(inbox'[r]) <= MaxQueue
          /\ \A r \in Stream : inbox'[r] = inbox[r]
               \/ (r = connections[p][u] /\ inbox'[r] = Append(inbox[r], n))
      BY <1>5, <3>1, <3>2, PutTypes
    <3>4. bus' \in [Process -> Seq(D)] /\ sending' \subseteq D
      BY <1>4, <1>5, <2>1, <3>1 DEF HomeInv, SseTypeOK
    <3> QED
      BY <3>3, <3>4
  <2> QED
    BY <2>2, <2>3
<1>7. seen' \in [Stream -> Seq(D)]
  BY <1>3, <1>5, SequenceGrows DEF HomeInv, SseTypeOK
<1>8. listener' \in [Process -> [queue : Stream, event : D] \cup {None}]
  <2>1. listener \in [Process -> [queue : Stream, event : DOMAIN published] \cup {None}]
    BY DEF HomeInv, SseTypeOK
  <2>2. [queue : Stream, event : DOMAIN published] \subseteq [queue : Stream, event : D]
    BY <1>5
  <2> QED
    BY <1>3, <2>1, <2>2
<1>9. Addressed'
  <2> SUFFICES ASSUME NEW s \in Stream PROVE ForUser(s, inbox[s])' /\ ForUser(s, seen[s])'
    BY DEF Addressed
  <2>1. ForUser(s, inbox[s]) /\ ForUser(s, seen[s])
    BY DEF HomeInv, Addressed
  <2>2. inbox[s] \in Seq(DOMAIN published) /\ seen[s] \in Seq(DOMAIN published)
    BY DEF HomeInv, SseTypeOK
  <2>3. ForUser(s, seen[s])'
    BY <1>3, <1>5, <2>1, <2>2 DEF ForUser
  <2>4. CASE inbox'[s] = inbox[s]
    BY <1>3, <1>5, <2>1, <2>2, <2>3, <2>4 DEF ForUser
  <2>5. CASE s = connections[p][u] /\ inbox'[s] = Append(inbox[s], n)
    <3>1. /\ DOMAIN inbox'[s] = DOMAIN inbox[s] \cup {Len(inbox[s]) + 1}
          /\ \A i \in DOMAIN inbox[s] : inbox'[s][i] = inbox[s][i] /\ inbox[s][i] \in DOMAIN published
          /\ inbox'[s][Len(inbox[s]) + 1] = n
      BY <2>2, <2>5
    <3>2. stream[s].state # "new" /\ stream[s].user = u
      BY <2>5, SseAssumption DEF HomeInv, Homes, InHome
    <3>3. \A i \in DOMAIN inbox'[s] : stream[s].user = published'[inbox'[s][i]].to
      <4>1. ASSUME NEW i \in DOMAIN inbox[s]
            PROVE  stream[s].user = published'[inbox'[s][i]].to
        BY <1>5, <2>1, <3>1, <4>1 DEF ForUser
      <4> QED
        BY <1>5, <3>1, <3>2, <4>1
    <3>4. ForUser(s, inbox[s])'
      BY <1>3, <3>2, <3>3 DEF ForUser
    <3> QED
      BY <2>3, <3>4
  <2> QED
    BY <1>6, <2>4, <2>5
<1>10. Homes'
  <2>1. \A r \in Process : listener[r] # None => published'[listener[r].event] = published[listener[r].event]
    <3> SUFFICES ASSUME NEW r \in Process, listener[r] # None
                 PROVE  published'[listener[r].event] = published[listener[r].event]
      OBVIOUS
    <3>1. listener[r].event \in DOMAIN published
      BY DEF HomeInv, SseTypeOK
    <3> QED
      BY <1>5, <3>1
  <2>2. \A r \in Process :
          listener'[r] # None => InHome(listener'[r].queue, r, published'[listener'[r].event].to)
    BY <1>3, <2>1 DEF HomeInv, Homes
  <2>3. /\ \A s \in Stream :
             stream'[s].state # "new" => /\ stream'[s].process \in Process /\ stream'[s].user \in User
                                         /\ InHome(stream'[s].queue, stream'[s].process, stream'[s].user)
        /\ \A r \in Process, v \in User :
             connections'[r][v] # None => InHome(connections'[r][v], r, v)
    BY <1>3 DEF HomeInv, Homes
  <2>4. stream' = stream
    BY <1>3
  <2> QED
    BY <2>2, <2>3, <2>4 DEF Homes, InHome
<1> QED
  BY <1>2, <1>3, <1>5, <1>6, <1>7, <1>8, <1>9, <1>10 DEF HomeInv, SseTypeOK

LEMMA HomesStep == HomeInv /\ [SseNext]_sseVars => HomeInv'
<1> SUFFICES ASSUME HomeInv, [SseNext]_sseVars PROVE HomeInv'
  OBVIOUS
<1>1. CASE UNCHANGED sseVars
  BY <1>1 DEF sseVars, HomeInv, SseTypeOK, Homes, InHome, Addressed, ForUser
<1> QED
  BY <1>1, ConnectHomes, DisconnectHomes, RestartHomes, YieldHomes, PutLocallyHomes,
     ListenHomes, ResumeHomes, PublishHomes
     DEF SseNext, Carry, Come, Go, Restart

(* Queues, streams, what Redis holds and what listeners wait with keep      *)
(* their types: no queue is fuller than it may be, and nothing in it was    *)
(* not published.                                                           *)
THEOREM StreamTypes == SseSpec => []SseTypeOK
<1>1. HomeInv => SseTypeOK
  BY DEF HomeInv
<1> QED
  BY HomesStart, HomesStep, <1>1, PTL DEF SseSpec

-----------------------------------------------------------------------------
(* The order of events *)

\* The numbers of a sequence that are in W rise; those in W come before n.
Rises(events, W) ==
  \A i, j \in DOMAIN events :
    i < j /\ events[i] \in W /\ events[j] \in W => events[i] < events[j]
Later(n, events, W) == \A i \in DOMAIN events : events[i] \in W => events[i] < n

\* The events that process p gets on one way, and those Redis still has for it.
Single(p) == {n \in DOMAIN published : OneWay(n, p)}
Coming(p) == {n \in DOMAIN published : \/ \E j \in DOMAIN bus[p] : bus[p][j] = n
                                       \/ listener[p] # None /\ listener[p].event = n}

\* Redis delivers in order, and the listener waits with an earlier one.
BusInOrder(p) ==
  /\ \A i, j \in DOMAIN bus[p] : i < j => bus[p][i] < bus[p][j]
  /\ listener[p] # None => \A j \in DOMAIN bus[p] : listener[p].event < bus[p][j]

\* What has got so far is in order, and comes before what is still to come.
Passed(events, p) ==
  Rises(events, Single(p)) /\ \A n \in Coming(p) : Later(n, events, Single(p))

\* What a stream has sent comes before all that is left in the queue it reads.
Ahead(s, q, p) ==
  \A j \in DOMAIN inbox[q] : inbox[q][j] \in Single(p) => Later(inbox[q][j], seen[s], Single(p))

Ordered(s) ==
  /\ Passed(inbox[s], stream[s].process) /\ Passed(seen[s], stream[s].process)
  /\ stream[s].state = "open" => Ahead(s, stream[s].queue, stream[s].process)

OrderInv ==
  /\ ~relay => sending = {} /\ \A p \in Process : bus[p] = <<>> /\ listener[p] = None
  /\ \A p \in Process : BusInOrder(p)
  /\ \A s \in Stream : stream[s].state # "new" => Ordered(s)

LEMMA AppendRises ==
  ASSUME NEW events \in Seq(Nat), NEW n \in Nat, NEW W, Rises(events, W),
         n \in W => Later(n, events, W)
  PROVE  /\ Rises(Append(events, n), W)
         /\ \A m : Later(m, events, W) /\ (n \in W => n < m) => Later(m, Append(events, n), W)
         /\ \A i \in DOMAIN Append(events, n) :
              Append(events, n)[i] = n \/ (i \in DOMAIN events /\ Append(events, n)[i] = events[i])
<1> DEFINE longer == Append(events, n)
           last == Len(events) + 1
<1>1. /\ DOMAIN longer = DOMAIN events \cup {last} /\ last \in Nat
      /\ \A i \in DOMAIN events : longer[i] = events[i] /\ i \in Nat /\ i < last
      /\ longer[last] = n
  OBVIOUS
<1> HIDE DEF longer, last
<1>2. \A i \in DOMAIN longer : longer[i] = n \/ (i \in DOMAIN events /\ longer[i] = events[i])
  BY <1>1
<1>3. Rises(longer, W)
  BY <1>1 DEF Rises, Later
<1>4. \A m : Later(m, events, W) /\ (n \in W => n < m) => Later(m, longer, W)
  BY <1>2 DEF Later
<1> QED
  BY <1>2, <1>3, <1>4 DEF longer

LEMMA TailRises ==
  ASSUME NEW events \in Seq(Nat), events # <<>>, NEW W, Rises(events, W)
  PROVE  /\ Rises(Tail(events), W) /\ Head(events) \in Nat
         /\ 1 \in DOMAIN events /\ Head(events) = events[1]
         /\ \A j \in DOMAIN Tail(events) :
              /\ j + 1 \in DOMAIN events /\ Tail(events)[j] = events[j + 1]
              /\ Head(events) \in W /\ Tail(events)[j] \in W => Head(events) < Tail(events)[j]
  BY DEF Rises

\* Events published later do not change what is said of those there are.
LEMMA SameOrder ==
  ASSUME NEW events \in Seq(DOMAIN published), NEW p,
         \A n \in DOMAIN published : n \in Single(p)' <=> n \in Single(p)
  PROVE  /\ Rises(events, Single(p)') <=> Rises(events, Single(p))
         /\ \A n : Later(n, events, Single(p)') <=> Later(n, events, Single(p))
<1>1. \A i \in DOMAIN events : events[i] \in Single(p)' <=> events[i] \in Single(p)
  BY ElementOf
<1> QED
  BY <1>1 DEF Rises, Later

LEMMA OrderTypes ==
  ASSUME HomeInv
  PROVE  /\ DOMAIN published \subseteq Nat /\ Len(published) \in Nat
         /\ DOMAIN published = 1..Len(published)
         /\ \A s \in Stream : /\ inbox[s] \in Seq(DOMAIN published) /\ inbox[s] \in Seq(Nat)
                              /\ seen[s] \in Seq(DOMAIN published) /\ seen[s] \in Seq(Nat)
         /\ \A p \in Process : bus[p] \in Seq(DOMAIN published) /\ bus[p] \in Seq(Nat)
         /\ \A s \in Stream : stream[s].state # "new" => stream[s].process \in Process
         /\ \A s \in Stream : stream[s].state = "new" => DOMAIN inbox[s] = {} /\ DOMAIN seen[s] = {}
         /\ \A s \in Stream : stream[s].state = "open" =>
              InHome(stream[s].queue, stream[s].process, stream[s].user)
<1>1. published \in Seq([to : User, at : Process])
  BY DEF HomeInv, SseTypeOK
<1>2. /\ DOMAIN published \subseteq Nat /\ Len(published) \in Nat
      /\ DOMAIN published = 1..Len(published)
  BY <1>1
<1>3. /\ \A s \in Stream : inbox[s] \in Seq(DOMAIN published) /\ seen[s] \in Seq(DOMAIN published)
      /\ \A p \in Process : bus[p] \in Seq(DOMAIN published)
  BY DEF HomeInv, SseTypeOK
<1>4. \A s \in Stream : stream[s].state = "new" => DOMAIN inbox[s] = {} /\ DOMAIN seen[s] = {}
  BY DEF HomeInv, Addressed, ForUser
<1> QED
  BY <1>2, <1>3, <1>4, SequenceGrows DEF HomeInv, Homes

\* The queues and the browsers stay as they are, streams may close, and what
\* comes in addition comes after all events there are.
LEMMA StayOrder ==
  ASSUME HomeInv, OrderInv, UNCHANGED <<relay, inbox, seen>>,
         \A s \in Stream : \/ stream'[s] = stream[s]
                           \/ /\ stream'[s].state = "closed" /\ stream[s].state # "new"
                              /\ stream'[s].process = stream[s].process,
         \A p \in Process, n \in DOMAIN published : n \in Single(p)' <=> n \in Single(p),
         \A p \in Process : \A n \in Coming(p)' : n \in Coming(p) \/ \A m \in DOMAIN published : m < n,
         ~relay => sending' = {} /\ \A p \in Process : bus'[p] = <<>> /\ listener'[p] = None,
         \A p \in Process : BusInOrder(p)'
  PROVE  OrderInv'
<1>1. ASSUME NEW s \in Stream, stream'[s].state # "new" PROVE Ordered(s)'
  <2>1. stream[s].state # "new" /\ Ordered(s)
    BY <1>1 DEF OrderInv
  <2>2. PICK p \in Process :
          /\ stream[s].process = p /\ stream'[s].process = p
          /\ stream'[s].state = "open" => stream'[s] = stream[s] /\ stream[s].state = "open"
    BY <2>1, OrderTypes
  <2>3. ASSUME NEW events, events \in Seq(DOMAIN published), Passed(events, p)
        PROVE  Rises(events, Single(p)') /\ \A n \in Coming(p)' : Later(n, events, Single(p)')
    <3>1. Rises(events, Single(p)') /\ \A n : Later(n, events, Single(p)') <=> Later(n, events, Single(p))
      <4>1. \A n \in DOMAIN published : n \in Single(p)' <=> n \in Single(p)
        BY <2>2
      <4> QED
        BY <2>3, <4>1, SameOrder DEF Passed
    <3>2. \A i \in DOMAIN events : events[i] \in DOMAIN published
      BY <2>3, ElementOf
    <3>3. ASSUME NEW n \in Coming(p)' PROVE Later(n, events, Single(p))
      <4>1. n \in Coming(p) \/ \A m \in DOMAIN published : m < n
        BY <2>2
      <4> QED
        BY <2>3, <3>2, <4>1 DEF Passed, Later
    <3> QED
      BY <3>1, <3>3
  <2>4. inbox[s] \in Seq(DOMAIN published) /\ seen[s] \in Seq(DOMAIN published)
    BY OrderTypes
  <2>5. Passed(inbox[s], p) /\ Passed(seen[s], p)
    BY <2>1, <2>2 DEF Ordered
  <2>6. Passed(inbox[s], stream[s].process)' /\ Passed(seen[s], stream[s].process)'
    BY <2>2, <2>3, <2>4, <2>5 DEF Passed
  <2>7. ASSUME stream'[s].state = "open"
        PROVE  Ahead(s, stream[s].queue, stream[s].process)'
    <3>1. PICK q \in Stream : Ahead(s, q, p) /\ stream'[s].queue = q
      BY <2>1, <2>2, <2>7, OrderTypes DEF InHome, Ordered
    <3>2. \A n : Later(n, seen[s], Single(p)') <=> Later(n, seen[s], Single(p))
      <4>1. \A n \in DOMAIN published : n \in Single(p)' <=> n \in Single(p)
        BY <2>2
      <4> QED
        BY <2>4, <4>1, SameOrder
    <3>3. \A j \in DOMAIN inbox[q] : inbox[q][j] \in Single(p)' <=> inbox[q][j] \in Single(p)
      <4>1. \A n \in DOMAIN published : n \in Single(p)' <=> n \in Single(p)
        BY <2>2
      <4>2. \A j \in DOMAIN inbox[q] : inbox[q][j] \in DOMAIN published
        BY <3>1, OrderTypes, ElementOf
      <4> QED
        BY <4>1, <4>2
    <3> QED
      BY <2>2, <3>1, <3>2, <3>3 DEF Ahead
  <2> QED
    BY <2>6, <2>7 DEF Ordered
<1> QED
  BY <1>1 DEF OrderInv

\* An event is put in a queue: if it came on one way, it comes after all that
\* is there in the process and before all that is still to come.
LEMMA PutOrder ==
  ASSUME HomeInv, OrderInv, NEW p \in Process, NEW q \in Stream \cup {None}, NEW n \in Nat,
         q # None => stream[q].process = p /\ stream[q].state # "new", PutNoWait(q, n),
         UNCHANGED <<relay, stream, seen>>,
         \A r \in Process, m \in DOMAIN published : m \in Single(r)' <=> m \in Single(r),
         \A r \in Process : Coming(r)' \subseteq Coming(r),
         n \in Single(p)' =>
           /\ \A s \in Stream : stream[s].state # "new" /\ stream[s].process = p =>
                Later(n, inbox[s], Single(p)) /\ Later(n, seen[s], Single(p))
           /\ \A m \in Coming(p)' : n < m,
         ~relay => sending' = {} /\ \A r \in Process : bus'[r] = <<>> /\ listener'[r] = None,
         \A r \in Process : BusInOrder(r)'
  PROVE  OrderInv'
<1>1. CASE inbox' = inbox
  BY <1>1, StayOrder
<1>2. CASE q \in Stream /\ inbox' = [inbox EXCEPT ![q] = Append(inbox[q], n)]
  <2> DEFINE W == Single(p)'
             longer == Append(inbox[q], n)
  <2>1. \A s \in Stream : /\ inbox[s] \in Seq(DOMAIN published) /\ inbox[s] \in Seq(Nat)
                          /\ seen[s] \in Seq(DOMAIN published)
    BY OrderTypes
  <2>2. q \in Stream /\ stream[q].process = p /\ stream[q].state # "new"
    BY <1>2, SseAssumption
  <2>3. inbox'[q] = longer /\ \A s \in Stream \ {q} : inbox'[s] = inbox[s]
    <3>1. inbox \in [Stream -> Seq(DOMAIN published)]
      BY DEF HomeInv, SseTypeOK
    <3> QED
      BY <1>2, <3>1
  <2>4. ASSUME NEW r \in Process, NEW events, events \in Seq(DOMAIN published), Passed(events, r)
        PROVE  Rises(events, Single(r)') /\ \A m \in Coming(r)' : Later(m, events, Single(r)')
    <3>1. \A m \in DOMAIN published : m \in Single(r)' <=> m \in Single(r)
      OBVIOUS
    <3>2. /\ Rises(events, Single(r)') <=> Rises(events, Single(r))
          /\ \A m : Later(m, events, Single(r)') <=> Later(m, events, Single(r))
      BY <2>4, <3>1, SameOrder, SMTT(30)
    <3>3. Rises(events, Single(r)) /\ \A m \in Coming(r) : Later(m, events, Single(r))
      BY <2>4 DEF Passed
    <3>4. Coming(r)' \subseteq Coming(r)
      BY <2>4
    <3> QED
      BY <3>2, <3>3, <3>4
  <2>5. n \in W => \A s \in Stream : stream[s].state # "new" /\ stream[s].process = p =>
                     Later(n, inbox[s], W) /\ Later(n, seen[s], W)
    <3> SUFFICES ASSUME n \in Single(p)', NEW s \in Stream,
                        stream[s].state # "new", stream[s].process = p
                 PROVE  Later(n, inbox[s], Single(p)') /\ Later(n, seen[s], Single(p)')
      OBVIOUS
    <3>1. \A m \in DOMAIN published : m \in Single(p)' <=> m \in Single(p)
      OBVIOUS
    <3>2. Later(n, inbox[s], Single(p)) /\ Later(n, seen[s], Single(p))
      OBVIOUS
    <3>3. Later(n, inbox[s], Single(p)')
      BY <2>1, <3>1, <3>2, SameOrder
    <3>4. Later(n, seen[s], Single(p)')
      BY <2>1, <3>1, <3>2, SameOrder
    <3> QED
      BY <3>3, <3>4
  <2>6. \A s \in Stream : stream[s].state # "new" => Ordered(s) /\ stream[s].process \in Process
    BY OrderTypes DEF OrderInv
  <2>7. /\ Rises(longer, W) /\ \A m \in Coming(p)' : Later(m, longer, W)
        /\ \A i \in DOMAIN longer :
             longer[i] = n \/ (i \in DOMAIN inbox[q] /\ longer[i] = inbox[q][i])
    <3>1. Rises(inbox[q], W) /\ \A m \in Coming(p)' : Later(m, inbox[q], W)
      BY <2>1, <2>2, <2>4, <2>6 DEF Ordered
    <3>2. /\ n \in W => Later(n, inbox[q], W)
          /\ n \in W => \A m \in Coming(p)' : n < m
      BY <2>2, <2>5
    <3>3. inbox[q] \in Seq(Nat)
      BY <2>1, <2>2
    <3> HIDE DEF W
    <3> QED
      BY <3>1, <3>2, <3>3, AppendRises
  <2> HIDE DEF longer
  <2>8. ASSUME NEW s \in Stream, stream[s].state # "new" PROVE Ordered(s)'
    <3>1. PICK r \in Process :
            stream[s].process = r /\ Ordered(s) /\ stream'[s] = stream[s]
      BY <2>6, <2>8
    <3>2. Passed(seen[s], r)'
      <4>1. Passed(seen[s], r)
        BY <3>1 DEF Ordered
      <4> QED
        BY <2>1, <2>4, <3>1, <4>1 DEF Passed
    <3>3. Passed(inbox[s], r)'
      <4>1. CASE s = q
        BY <2>2, <2>3, <2>7, <3>1, <4>1 DEF Passed
      <4>2. CASE s # q
        <5>1. Passed(inbox[s], r) /\ inbox'[s] = inbox[s]
          BY <2>3, <3>1, <4>2 DEF Ordered
        <5> QED
          BY <2>1, <2>4, <3>1, <5>1 DEF Passed
      <4> QED
        BY <4>1, <4>2
    <3>4. ASSUME stream[s].state = "open" PROVE Ahead(s, stream[s].queue, r)'
      <4>1. PICK k \in Stream :
              Ahead(s, k, r) /\ stream[s].queue = k /\ stream[k].process = r
        BY <3>1, <3>4, OrderTypes DEF Ordered, InHome
      <4>2. \A m : Later(m, seen[s], Single(r)') <=> Later(m, seen[s], Single(r))
        <5>1. \A m \in DOMAIN published : m \in Single(r)' <=> m \in Single(r)
          BY <3>1
        <5> QED
          BY <2>1, <5>1, SameOrder
      <4>3. \A j \in DOMAIN inbox[k] : inbox[k][j] \in Single(r)' => Later(inbox[k][j], seen[s], Single(r)')
        <5>1. \A j \in DOMAIN inbox[k] : inbox[k][j] \in DOMAIN published
          BY <2>1, <4>1, ElementOf
        <5>2. \A m \in DOMAIN published : m \in Single(r)' <=> m \in Single(r)
          BY <3>1
        <5> QED
          BY <4>1, <4>2, <5>1, <5>2 DEF Ahead
      <4>4. CASE k # q
        <5>1. inbox'[k] = inbox[k]
          BY <2>3, <4>1, <4>4
        <5> QED
          BY <3>1, <4>1, <4>3, <5>1 DEF Ahead
      <4>5. CASE k = q
        <5>1. r = p
          BY <2>2, <4>1, <4>5
        <5>2. n \in W => Later(n, seen[s], W)
          BY <2>5, <2>8, <3>1, <5>1
        <5>3. \A j \in DOMAIN longer : longer[j] \in W => Later(longer[j], seen[s], W)
          BY <2>7, <4>3, <4>5, <5>1, <5>2
        <5> QED
          BY <2>3, <3>1, <4>1, <4>5, <5>1, <5>3 DEF Ahead
      <4> QED
        BY <4>4, <4>5
    <3> QED
      BY <3>1, <3>2, <3>3, <3>4 DEF Ordered
  <2> QED
    BY <2>8 DEF OrderInv
<1> QED
  BY <1>1, <1>2 DEF PutNoWait

\* A stream that opens has sent nothing, and a queue of its own is empty.
LEMMA ConnectOrder ==
  ASSUME HomeInv, HomeInv', OrderInv, NEW s \in Stream, NEW p \in Process, NEW u \in User,
         Connect(s, p, u)
  PROVE  OrderInv'
<1> DEFINE new == [state |-> "open", process |-> p, user |-> u,
                   queue |-> IF connections[p][u] = None THEN s ELSE connections[p][u]]
<1>1. /\ stream[s].state = "new" /\ stream' = [stream EXCEPT ![s] = new]
      /\ UNCHANGED <<relay, published, inbox, seen, sending, bus, listener>>
  BY DEF Connect
<1>2. new.state = "open"
  OBVIOUS
<1> HIDE DEF new
<1>3. stream'[s] = new /\ \A r \in Stream \ {s} : stream'[r] = stream[r]
  <2>1. stream \in [Stream -> StreamState]
    BY DEF HomeInv, SseTypeOK, StreamState
  <2> QED
    BY <1>1, <2>1
<1>4. DOMAIN inbox[s] = {} /\ DOMAIN seen[s] = {}
  BY <1>1, OrderTypes
<1>5. Ordered(s)'
  BY <1>1, <1>4 DEF Ordered, Passed, Ahead, Rises, Later
<1>6. ASSUME NEW r \in Stream \ {s}, stream[r].state # "new" PROVE Ordered(r)'
  <2>1. Ordered(r) /\ stream'[r] = stream[r]
    BY <1>3, <1>6 DEF OrderInv
  <2> QED
    BY <1>1, <2>1 DEF Ordered, Passed, Ahead, Single, OneWay, Coming
<1> QED
  BY <1>1, <1>3, <1>5, <1>6 DEF OrderInv, BusInOrder

\* Streams that close, and what a process that stops leaves behind.
LEMMA LeaveOrder ==
  ASSUME HomeInv, OrderInv, Go \/ Restart
  PROVE  OrderInv'
<1>1. stream \in [Stream -> StreamState] /\ bus \in [Process -> Seq(DOMAIN published)]
      /\ listener \in [Process -> WaitState]
  BY DEF HomeInv, SseTypeOK, StreamState, WaitState
<1>2. ASSUME NEW s \in Stream, Disconnect(s) PROVE OrderInv'
  <2>1. /\ UNCHANGED <<relay, published, inbox, seen, sending, bus, listener>>
        /\ stream[s].state = "open" /\ stream' = [stream EXCEPT ![s].state = "closed"]
    BY <1>2 DEF Disconnect
  <2>2. \A r \in Stream : \/ stream'[r] = stream[r]
                          \/ /\ stream'[r].state = "closed" /\ stream[r].state # "new"
                             /\ stream'[r].process = stream[r].process
    BY <1>1, <2>1 DEF StreamState
  <2>3. \A r \in Process : /\ Single(r)' = Single(r) /\ Coming(r)' = Coming(r)
                           /\ BusInOrder(r)'
    BY <2>1 DEF Single, OneWay, Coming, OrderInv, BusInOrder
  <2>4. ~relay => sending' = {} /\ \A r \in Process : bus'[r] = <<>> /\ listener'[r] = None
    BY <2>1 DEF OrderInv
  <2> QED
    BY <2>1, <2>2, <2>3, <2>4, StayOrder
<1>3. ASSUME NEW p \in Process, RestartProcess(p) PROVE OrderInv'
  <2> DEFINE Lost(s) == stream[s].state = "open" /\ stream[s].process = p
  <2>1. /\ UNCHANGED <<relay, published, inbox, seen>>
        /\ stream' = [s \in Stream |-> IF Lost(s) THEN [stream[s] EXCEPT !.state = "closed"]
                                                  ELSE stream[s]]
        /\ sending' \subseteq sending
        /\ bus' = [bus EXCEPT ![p] = <<>>] /\ listener' = [listener EXCEPT ![p] = None]
    BY <1>3 DEF RestartProcess
  <2>2. \A r \in Stream : \/ stream'[r] = stream[r]
                          \/ /\ stream'[r].state = "closed" /\ stream[r].state # "new"
                             /\ stream'[r].process = stream[r].process
    BY <1>1, <2>1 DEF StreamState
  <2>3. \A r \in Process : \/ bus'[r] = bus[r] /\ listener'[r] = listener[r]
                           \/ bus'[r] = <<>> /\ listener'[r] = None
    BY <1>1, <2>1
  <2>4. \A r \in Process : /\ Single(r)' = Single(r) /\ Coming(r)' \subseteq Coming(r)
                           /\ BusInOrder(r)'
    BY <2>1, <2>3 DEF Single, OneWay, Coming, OrderInv, BusInOrder
  <2>5. ~relay => sending' = {} /\ \A r \in Process : bus'[r] = <<>> /\ listener'[r] = None
    BY <2>1, <2>3 DEF OrderInv
  <2> HIDE DEF Lost
  <2> QED
    BY <2>1, <2>2, <2>4, <2>5, StayOrder
<1> QED
  BY <1>2, <1>3 DEF Go, Restart

\* A stream sends the head of its queue, which comes after all it has sent.
LEMMA YieldOrder ==
  ASSUME HomeInv, OrderInv, NEW s \in Stream, Yield(s)
  PROVE  OrderInv'
<1> DEFINE q == stream[s].queue
           p == stream[s].process
           W == Single(p)
           head == Head(inbox[q])
           sent == Append(seen[s], head)
           rest == Tail(inbox[q])
<1>1. /\ stream[s].state = "open" /\ inbox[q] # <<>>
      /\ seen' = [seen EXCEPT ![s] = sent] /\ inbox' = [inbox EXCEPT ![q] = rest]
      /\ UNCHANGED <<relay, published, connections, stream, sending, bus, listener>>
  BY DEF Yield
<1>2. /\ q \in Stream /\ stream[q].process = p /\ stream[q].state # "new"
      /\ p \in Process /\ Ordered(s) /\ Ordered(q)
  BY <1>1, OrderTypes DEF InHome, OrderInv
<1>3. inbox[q] \in Seq(Nat) /\ seen[s] \in Seq(Nat)
  BY <1>2, OrderTypes
<1>4. Passed(inbox[q], p) /\ Passed(seen[s], p) /\ Ahead(s, q, p)
  BY <1>1, <1>2 DEF Ordered
<1>5. \A r \in Process : Single(r)' = Single(r) /\ Coming(r)' = Coming(r) /\ BusInOrder(r)'
  BY <1>1 DEF Single, OneWay, Coming, OrderInv, BusInOrder
<1>6. /\ seen'[s] = sent /\ \A r \in Stream \ {s} : seen'[r] = seen[r]
      /\ inbox'[q] = rest /\ \A r \in Stream \ {q} : inbox'[r] = inbox[r]
  <2>1. inbox \in [Stream -> Seq(DOMAIN published)] /\ seen \in [Stream -> Seq(DOMAIN published)]
    BY DEF HomeInv, SseTypeOK
  <2> QED
    BY <1>1, <1>2, <2>1
<1> HIDE DEF W, q, p
<1>7. /\ Rises(rest, W) /\ head \in Nat /\ 1 \in DOMAIN inbox[q] /\ head = inbox[q][1]
      /\ \A j \in DOMAIN rest :
           /\ j + 1 \in DOMAIN inbox[q] /\ rest[j] = inbox[q][j + 1]
           /\ head \in W /\ rest[j] \in W => head < rest[j]
  BY <1>1, <1>3, <1>4, TailRises DEF Passed, W
<1>8. head \in W => Later(head, seen[s], W)
  BY <1>4, <1>7 DEF Ahead, W
<1> HIDE DEF head
<1>9. /\ Rises(sent, W)
      /\ \A m : Later(m, seen[s], W) /\ (head \in W => head < m) => Later(m, sent, W)
      /\ \A i \in DOMAIN sent : sent[i] = head \/ (i \in DOMAIN seen[s] /\ sent[i] = seen[s][i])
  BY <1>3, <1>4, <1>7, <1>8, AppendRises DEF Passed, W
<1> HIDE DEF sent, rest
<1>10. \A m \in Coming(p) : head \in W => head < m
  BY <1>4, <1>7 DEF Passed, Later, W
<1>11. Passed(sent, p)
  BY <1>4, <1>9, <1>10 DEF Passed, W
<1>12. Passed(rest, p)
  <2>1. \A m \in Coming(p) : Later(m, rest, W)
    BY <1>4, <1>7 DEF Passed, Later, W
  <2> QED
    BY <1>7, <2>1 DEF Passed, W
<1>13. ASSUME NEW r \in Stream, stream[r].state # "new" PROVE Ordered(r)'
  <2>1. PICK o \in Process :
          stream[r].process = o /\ Ordered(r) /\ stream'[r] = stream[r]
    BY <1>1, <1>13, OrderTypes DEF OrderInv
  <2>2. Passed(inbox[r], o)'
    <3>1. Passed(inbox'[r], o)
      BY <1>2, <1>6, <1>12, <2>1 DEF Ordered
    <3> QED
      BY <1>1, <1>5, <2>1, <3>1 DEF Passed
  <2>3. Passed(seen[r], o)'
    <3>1. Passed(seen'[r], o)
      BY <1>6, <1>11, <2>1 DEF Ordered, p
    <3> QED
      BY <1>1, <1>5, <2>1, <3>1 DEF Passed
  <2>4. ASSUME stream[r].state = "open" PROVE Ahead(r, stream[r].queue, o)'
    <3>1. PICK k \in Stream :
            stream[r].queue = k /\ stream[k].process = o /\ Ahead(r, k, o)
      BY <2>1, <2>4, OrderTypes DEF InHome, Ordered
    <3>2. \A j \in DOMAIN inbox'[k] : \E i \in DOMAIN inbox[k] : inbox'[k][j] = inbox[k][i]
      BY <1>6, <1>7, <3>1
    <3>3. \A j \in DOMAIN inbox'[k] : inbox'[k][j] \in Single(o) => Later(inbox'[k][j], seen[r], Single(o))
      BY <3>1, <3>2 DEF Ahead
    <3>4. \A j \in DOMAIN inbox'[k] : inbox'[k][j] \in Single(o) => Later(inbox'[k][j], seen'[r], Single(o))
      <4>1. CASE r # s
        BY <1>6, <3>3, <4>1
      <4>2. CASE r = s
        <5>1. k = q /\ o = p /\ seen'[r] = sent /\ inbox'[k] = rest
          BY <1>6, <2>1, <3>1, <4>2 DEF q, p
        <5>2. \A j \in DOMAIN rest : rest[j] \in W => Later(rest[j], sent, W)
          BY <1>7, <1>9, <3>3, <4>2, <5>1 DEF W
        <5> QED
          BY <5>1, <5>2 DEF W
      <4> QED
        BY <4>1, <4>2
    <3> QED
      BY <1>5, <2>1, <3>1, <3>4 DEF Ahead
  <2> QED
    BY <2>1, <2>2, <2>3, <2>4 DEF Ordered
<1> QED
  BY <1>1, <1>5, <1>13 DEF OrderInv

\* What is put locally with Redis also comes by Redis, and is not asked about.
LEMMA PutLocallyOrder ==
  ASSUME HomeInv, OrderInv, NEW n \in Event, PutLocally(n)
  PROVE  OrderInv'
<1>1. /\ n \in sending /\ PutNoWait(QueueOf(n, published[n].at), n)
      /\ sending' \subseteq sending
      /\ UNCHANGED <<relay, published, connections, stream, seen, bus, listener>>
  BY DEF PutLocally
<1>2. n \in DOMAIN published /\ n \in Nat /\ published[n] \in [to : User, at : Process]
  <2>1. n \in DOMAIN published /\ published \in Seq([to : User, at : Process])
    BY <1>1 DEF HomeInv, SseTypeOK
  <2>2. published[n] \in [to : User, at : Process]
    BY <2>1, ElementOf
  <2> QED
    BY <2>1, <2>2, OrderTypes
<1>3. PICK p \in Process, q \in Stream \cup {None} :
        /\ p = published[n].at /\ q = QueueOf(n, p)
        /\ q # None => stream[q].process = p /\ stream[q].state # "new"
  <2>1. published[n].at \in Process /\ published[n].to \in User
    BY <1>2
  <2> QED
    BY <2>1 DEF QueueOf, HomeInv, SseTypeOK, Homes, InHome
<1>4. n \notin Single(p)'
  BY <1>1, <1>3 DEF OrderInv, Single, OneWay
<1>5. \A r \in Process : Single(r)' = Single(r) /\ Coming(r)' = Coming(r) /\ BusInOrder(r)'
  BY <1>1 DEF Single, OneWay, Coming, OrderInv, BusInOrder
<1>6. ~relay => sending' = {} /\ \A r \in Process : bus'[r] = <<>> /\ listener'[r] = None
  BY <1>1 DEF OrderInv
<1> QED
  BY <1>1, <1>2, <1>3, <1>4, <1>5, <1>6, PutOrder

\* What was still to come for a process comes after all it has got.
LEMMA ComesLater ==
  ASSUME HomeInv, OrderInv, NEW p \in Process, NEW n \in Coming(p), NEW s \in Stream,
         stream[s].state # "new", stream[s].process = p
  PROVE  Later(n, inbox[s], Single(p)) /\ Later(n, seen[s], Single(p))
  BY DEF OrderInv, Ordered, Passed

\* The listener puts what is first on the bus, or waits with it.
LEMMA ListenOrder ==
  ASSUME HomeInv, OrderInv, NEW p \in Process, Listen(p)
  PROVE  OrderInv'
<1> DEFINE n == Head(bus[p])
           q == QueueOf(n, p)
           wait == [queue |-> q, event |-> n]
           rest == Tail(bus[p])
<1>1. /\ listener[p] = None /\ bus[p] # <<>> /\ PutNoWait(q, n)
      /\ bus' = [bus EXCEPT ![p] = rest]
      /\ listener' = IF q # None /\ ~Room(q) THEN [listener EXCEPT ![p] = wait] ELSE listener
      /\ UNCHANGED <<relay, published, connections, stream, seen, sending>>
  BY DEF Listen
<1>2. /\ bus \in [Process -> Seq(DOMAIN published)] /\ listener \in [Process -> WaitState]
      /\ bus[p] \in Seq(DOMAIN published) /\ bus[p] \in Seq(Nat)
  BY OrderTypes DEF HomeInv, SseTypeOK, WaitState
<1>3. /\ n \in DOMAIN published /\ n \in Nat /\ 1 \in DOMAIN bus[p] /\ n = bus[p][1]
      /\ \A j \in DOMAIN rest : j + 1 \in DOMAIN bus[p] /\ rest[j] = bus[p][j + 1] /\ j \in Nat /\ j > 0
  <2>1. n \in DOMAIN published
    BY <1>1, <1>2
  <2> QED
    BY <1>1, <1>2, <2>1, OrderTypes
<1>4. /\ q \in Stream \cup {None}
      /\ q # None => stream[q].process = p /\ stream[q].state # "new"
  <2>1. published[n] \in [to : User, at : Process]
    BY <1>3, ElementOf DEF HomeInv, SseTypeOK
  <2> QED
    BY <2>1 DEF QueueOf, HomeInv, SseTypeOK, Homes, InHome
<1>5. wait.event = n
  OBVIOUS
<1>6. bus'[p] = rest /\ \A r \in Process \ {p} : bus'[r] = bus[r]
  BY <1>1, <1>2
<1> HIDE DEF n, q, rest, wait
<1>7. /\ \A r \in Process \ {p} : listener'[r] = listener[r]
      /\ listener'[p] = None \/ (listener'[p] = wait /\ inbox' = inbox)
  BY <1>1, <1>2 DEF PutNoWait
<1>8. BusInOrder(p)
  BY DEF OrderInv
<1>9. \A j \in DOMAIN rest : n < rest[j]
  BY <1>3, <1>8 DEF BusInOrder
<1>10. \A i, j \in DOMAIN rest : i < j => rest[i] < rest[j]
  <2> SUFFICES ASSUME NEW i \in DOMAIN rest, NEW j \in DOMAIN rest, i < j PROVE rest[i] < rest[j]
    OBVIOUS
  <2>1. i + 1 \in DOMAIN bus[p] /\ j + 1 \in DOMAIN bus[p] /\ i + 1 < j + 1
    BY <1>3
  <2> QED
    BY <1>3, <1>8, <2>1 DEF BusInOrder
<1>11. BusInOrder(p)'
  BY <1>5, <1>6, <1>7, <1>9, <1>10 DEF BusInOrder
<1>12. \A r \in Process : BusInOrder(r)'
  BY <1>6, <1>7, <1>11 DEF OrderInv, BusInOrder
<1>13. \A r \in Process : Single(r)' = Single(r)
  BY <1>1 DEF Single, OneWay
<1>14. Coming(p)' \subseteq Coming(p) /\ n \in Coming(p)
  BY <1>1, <1>3, <1>5, <1>6, <1>7 DEF Coming
<1>15. \A r \in Process : Coming(r)' \subseteq Coming(r)
  BY <1>1, <1>6, <1>7, <1>14 DEF Coming
<1>16. relay
  BY <1>1 DEF OrderInv
<1>17. CASE inbox' = inbox
  BY <1>1, <1>12, <1>13, <1>15, <1>16, <1>17, StayOrder
<1>18. CASE listener'[p] = None
  <2>1. \A m \in Coming(p)' : n < m
    BY <1>6, <1>9, <1>18 DEF Coming
  <2>2. \A s \in Stream : stream[s].state # "new" /\ stream[s].process = p =>
          Later(n, inbox[s], Single(p)) /\ Later(n, seen[s], Single(p))
    BY <1>14, ComesLater
  <2> QED
    BY <1>1, <1>3, <1>4, <1>12, <1>13, <1>15, <1>16, <2>1, <2>2, PutOrder
<1> QED
  BY <1>7, <1>17, <1>18

\* What the listener waited with comes before what is on the bus.
LEMMA ResumeOrder ==
  ASSUME HomeInv, OrderInv, NEW p \in Process, ResumeListener(p)
  PROVE  OrderInv'
<1> DEFINE n == listener[p].event
           q == listener[p].queue
<1>1. /\ listener[p] # None /\ PutNoWait(q, n) /\ listener' = [listener EXCEPT ![p] = None]
      /\ UNCHANGED <<relay, published, connections, stream, seen, sending, bus>>
  BY DEF ResumeListener
<1>2. listener \in [Process -> WaitState]
  BY DEF HomeInv, SseTypeOK, WaitState
<1>3. /\ n \in DOMAIN published /\ n \in Nat /\ q \in Stream \cup {None}
      /\ stream[q].process = p /\ stream[q].state # "new"
  BY <1>1, <1>2, OrderTypes DEF WaitState, HomeInv, Homes, InHome
<1>4. listener'[p] = None /\ \A r \in Process \ {p} : listener'[r] = listener[r]
  BY <1>1, <1>2
<1>5. \A r \in Process : /\ Single(r)' = Single(r) /\ Coming(r)' \subseteq Coming(r)
                         /\ BusInOrder(r)'
  BY <1>1, <1>4 DEF Single, OneWay, Coming, OrderInv, BusInOrder
<1>6. \A m \in Coming(p)' : n < m
  BY <1>1, <1>4 DEF Coming, OrderInv, BusInOrder
<1>7. n \in Coming(p)
  BY <1>1, <1>3 DEF Coming
<1>8. relay
  BY <1>1 DEF OrderInv
<1> HIDE DEF n, q
<1>9. \A s \in Stream : stream[s].state # "new" /\ stream[s].process = p =>
        Later(n, inbox[s], Single(p)) /\ Later(n, seen[s], Single(p))
  BY <1>7, ComesLater
<1> QED
  BY <1>1, <1>3, <1>5, <1>6, <1>8, <1>9, PutOrder

\* A new event is the last of all.
LEMMA PublishOrder ==
  ASSUME HomeInv, OrderInv, NEW p \in Process, NEW u \in User, Publish(p, u)
  PROVE  OrderInv'
<1> DEFINE n == Len(published) + 1
           q == connections[p][u]
<1>1. /\ published' = Append(published, [to |-> u, at |-> p])
      /\ UNCHANGED <<relay, connections, stream, seen, listener>>
      /\ relay => /\ bus' = [r \in Process |-> Append(bus[r], n)] /\ UNCHANGED inbox
      /\ ~relay => PutNoWait(q, n) /\ UNCHANGED <<bus, sending>>
  BY DEF Publish
<1>2. /\ Len(published) \in Nat /\ n \in Nat /\ DOMAIN published = 1..Len(published)
      /\ \A m \in DOMAIN published : m < n /\ m \in Nat
  BY OrderTypes
<1>3. /\ DOMAIN published' = DOMAIN published \cup {n}
      /\ \A m \in DOMAIN published : published'[m] = published[m]
  BY <1>1, <1>2 DEF HomeInv, SseTypeOK
<1>4. \A r \in Process, m \in DOMAIN published : m \in Single(r)' <=> m \in Single(r)
  BY <1>1, <1>3 DEF Single, OneWay
<1>5. /\ q \in Stream \cup {None}
      /\ q # None => stream[q].process = p /\ stream[q].state # "new"
  BY DEF HomeInv, SseTypeOK, Homes, InHome
<1>6. \A s \in Stream : Later(n, inbox[s], Single(p)) /\ Later(n, seen[s], Single(p))
  <2>1. \A s \in Stream : /\ \A i \in DOMAIN inbox[s] : inbox[s][i] \in DOMAIN published
                          /\ \A i \in DOMAIN seen[s] : seen[s][i] \in DOMAIN published
    BY OrderTypes, ElementOf
  <2> QED
    BY <1>2, <2>1 DEF Later
<1> HIDE DEF n, q
<1>7. CASE relay
  <2>1. ASSUME NEW r \in Process
        PROVE  /\ DOMAIN bus'[r] = DOMAIN bus[r] \cup {Len(bus[r]) + 1}
               /\ \A j \in DOMAIN bus[r] : /\ bus'[r][j] = bus[r][j] /\ j < Len(bus[r]) + 1
                                           /\ bus[r][j] \in DOMAIN published /\ j \in Nat
               /\ bus'[r][Len(bus[r]) + 1] = n /\ Len(bus[r]) \in Nat
    <3>1. bus[r] \in Seq(DOMAIN published) /\ bus'[r] = Append(bus[r], n)
      BY <1>1, <1>7, OrderTypes
    <3>2. \A j \in DOMAIN bus[r] : bus[r][j] \in DOMAIN published
      BY <3>1, ElementOf
    <3> QED
      BY <3>1, <3>2
  <2>2. ASSUME NEW r \in Process, listener[r] # None PROVE listener[r].event \in DOMAIN published
    BY <2>2 DEF HomeInv, SseTypeOK
  <2>3. ASSUME NEW r \in Process PROVE BusInOrder(r)'
    <3>1. BusInOrder(r)
      BY DEF OrderInv
    <3>2. \A i, j \in DOMAIN bus'[r] : i < j => bus'[r][i] < bus'[r][j]
      BY <1>2, <2>1, <3>1 DEF BusInOrder
    <3>3. listener'[r] # None => \A j \in DOMAIN bus'[r] : listener'[r].event < bus'[r][j]
      BY <1>1, <1>2, <2>1, <2>2, <3>1 DEF BusInOrder
    <3> QED
      BY <3>2, <3>3 DEF BusInOrder
  <2>4. ASSUME NEW r \in Process, NEW m \in Coming(r)' PROVE m \in Coming(r) \/ m = n
    BY <1>1, <1>3, <2>1, <2>4 DEF Coming
  <2>5. \A r \in Process : \A m \in Coming(r)' : m \in Coming(r) \/ \A k \in DOMAIN published : k < m
    BY <1>2, <2>4
  <2> QED
    BY <1>1, <1>4, <1>7, <2>3, <2>5, StayOrder
<1>8. CASE ~relay
  <2>1. sending' = {} /\ \A r \in Process : bus'[r] = <<>> /\ listener'[r] = None
    BY <1>1, <1>8 DEF OrderInv
  <2>2. \A r \in Process : Coming(r)' = {} /\ BusInOrder(r)'
    BY <2>1 DEF Coming, BusInOrder
  <2>3. PutNoWait(q, n) /\ UNCHANGED <<relay, stream, seen>>
    BY <1>1, <1>8
  <2> QED
    BY <1>2, <1>4, <1>5, <1>6, <2>1, <2>2, <2>3, PutOrder
<1> QED
  BY <1>7, <1>8

LEMMA OrderStart == SseInit => OrderInv
  BY DEF SseInit, OrderInv, BusInOrder

LEMMA OrderStep == HomeInv /\ HomeInv' /\ OrderInv /\ [SseNext]_sseVars => OrderInv'
<1> SUFFICES ASSUME HomeInv, HomeInv', OrderInv, [SseNext]_sseVars PROVE OrderInv'
  OBVIOUS
<1>1. CASE UNCHANGED sseVars
  BY <1>1 DEF sseVars, OrderInv, BusInOrder, Ordered, Passed, Ahead, Single, OneWay, Coming
<1>2. CASE Carry
  BY <1>2, YieldOrder, PutLocallyOrder, ListenOrder, ResumeOrder DEF Carry
<1> QED
  BY <1>1, <1>2, ConnectOrder, LeaveOrder, PublishOrder DEF SseNext, Come

(* However many streams share or inherit a queue and whatever processes     *)
(* restart, every browser sees the events that reach its process on one way *)
(* in the order of their publication: all without Redis, and with it those  *)
(* that were published in other processes.                                  *)
THEOREM EventsInOrder == SseSpec => []InOrder
<1>1. HomeInv /\ OrderInv => InOrder
  <2> SUFFICES ASSUME HomeInv, OrderInv, NEW s \in Stream,
                      NEW i \in DOMAIN seen[s], NEW j \in DOMAIN seen[s], i < j,
                      OneWay(seen[s][i], stream[s].process), OneWay(seen[s][j], stream[s].process)
               PROVE  seen[s][i] < seen[s][j]
    BY DEF InOrder
  <2>1. stream[s].state # "new"
    BY OrderTypes
  <2>2. seen[s][i] \in DOMAIN published /\ seen[s][j] \in DOMAIN published
    BY OrderTypes, ElementOf
  <2>3. Rises(seen[s], Single(stream[s].process))
    BY <2>1 DEF OrderInv, Ordered, Passed
  <2> QED
    BY <2>2, <2>3 DEF Rises, Single
<1> QED
  BY <1>1, HomesStart, HomesStep, OrderStart, OrderStep, PTL DEF SseSpec

-----------------------------------------------------------------------------
\* The boxes an event can be in on its way through process p, its browsers
\* included, and what is there of event n.
Box(p) == ({"queue", "seen"} \X Stream) \cup {<<"bus", p>>, <<"listener", p>>, <<"sending", p>>}

Queued(n, p, s) == IF stream[s].process = p THEN Positions(n, inbox[s]) ELSE {}
Sent(n, p, s) == IF stream[s].process = p THEN Positions(n, seen[s]) ELSE {}
Waiting(n, p) == {x \in {1} : listener[p] # None /\ listener[p].event = n}
Leaving(n, p) == {x \in {1} : n \in sending /\ published[n].at = p}

Held(n, p) ==
  [b \in Box(p) |-> CASE b[1] = "queue" -> Queued(n, p, b[2])
                      [] b[1] = "seen" -> Sent(n, p, b[2])
                      [] b[1] = "bus" -> Positions(n, bus[p])
                      [] b[1] = "listener" -> Waiting(n, p)
                      [] OTHER -> Leaving(n, p)]

MostCopies(n, p) ==
  IF n \in DOMAIN published THEN Flag(relay) + Flag(published[n].at = p) ELSE 0

Bounded(n, p) == /\ IsFiniteSet(Items(Held(n, p)))
                 /\ Cardinality(Items(Held(n, p))) <= MostCopies(n, p)

CopyInv == \A n \in Nat, p \in Process : Bounded(n, p)

LEMMA HeldIs ==
  ASSUME NEW n, NEW p
  PROVE  /\ DOMAIN Held(n, p) = Box(p)
         /\ \A s \in Stream : /\ <<"queue", s>> \in Box(p) /\ <<"seen", s>> \in Box(p)
                              /\ Held(n, p)[<<"queue", s>>] = Queued(n, p, s)
                              /\ Held(n, p)[<<"seen", s>>] = Sent(n, p, s)
         /\ <<"bus", p>> \in Box(p) /\ Held(n, p)[<<"bus", p>>] = Positions(n, bus[p])
         /\ <<"listener", p>> \in Box(p) /\ Held(n, p)[<<"listener", p>>] = Waiting(n, p)
         /\ <<"sending", p>> \in Box(p) /\ Held(n, p)[<<"sending", p>>] = Leaving(n, p)
         /\ \A b \in Box(p) : \/ \E s \in Stream : b = <<"queue", s>> \/ b = <<"seen", s>>
                              \/ b = <<"bus", p>> \/ b = <<"listener", p>> \/ b = <<"sending", p>>
  BY DEF Held, Box

LEMMA HeldThen ==
  ASSUME NEW n, NEW p
  PROVE  /\ DOMAIN Held(n, p)' = Box(p)
         /\ \A s \in Stream : /\ Held(n, p)'[<<"queue", s>>] = Queued(n, p, s)'
                              /\ Held(n, p)'[<<"seen", s>>] = Sent(n, p, s)'
         /\ Held(n, p)'[<<"bus", p>>] = Positions(n, bus'[p])
         /\ Held(n, p)'[<<"listener", p>>] = Waiting(n, p)'
         /\ Held(n, p)'[<<"sending", p>>] = Leaving(n, p)'
  BY DEF Held, Box, Positions

LEMMA AllowedIs ==
  ASSUME NEW n, NEW p
  PROVE  /\ MostCopies(n, p) \in Nat /\ MostCopies(n, p)' \in Nat
         /\ UNCHANGED <<relay, published>> => MostCopies(n, p)' = MostCopies(n, p)
  BY DEF MostCopies, Flag

\* The sets of places are finite, and numbers can be compared.
LEMMA HeldFinite ==
  ASSUME HomeInv, HomeInv', NEW n, NEW p \in Process
  PROVE  /\ \A s \in Stream :
              /\ inbox[s] \in Seq(Nat) /\ seen[s] \in Seq(Nat)
              /\ IsFiniteSet(Queued(n, p, s)) /\ Cardinality(Queued(n, p, s)) \in Nat
              /\ IsFiniteSet(Sent(n, p, s)) /\ Cardinality(Sent(n, p, s)) \in Nat
              /\ IsFiniteSet(Queued(n, p, s)') /\ Cardinality(Queued(n, p, s)') \in Nat
              /\ IsFiniteSet(Sent(n, p, s)') /\ Cardinality(Sent(n, p, s)') \in Nat
         /\ bus[p] \in Seq(Nat)
         /\ IsFiniteSet(Positions(n, bus[p])) /\ Cardinality(Positions(n, bus[p])) \in Nat
         /\ IsFiniteSet(Positions(n, bus'[p])) /\ Cardinality(Positions(n, bus'[p])) \in Nat
<1>1. /\ \A s \in Stream : inbox[s] \in Seq(Nat) /\ seen[s] \in Seq(Nat)
      /\ bus[p] \in Seq(Nat)
  <2>1. /\ \A s \in Stream : inbox[s] \in Seq(DOMAIN published) /\ seen[s] \in Seq(DOMAIN published)
        /\ bus[p] \in Seq(DOMAIN published)
        /\ published \in Seq([to : User, at : Process])
    BY DEF HomeInv, SseTypeOK
  <2>2. DOMAIN published \subseteq Nat
    BY <2>1
  <2> QED
    BY <2>1, <2>2, SequenceGrows
<1>2. /\ \A s \in Stream : inbox'[s] \in Seq(Nat) /\ seen'[s] \in Seq(Nat)
      /\ bus'[p] \in Seq(Nat)
  <2>1. /\ \A s \in Stream : inbox'[s] \in Seq(DOMAIN published') /\ seen'[s] \in Seq(DOMAIN published')
        /\ bus'[p] \in Seq(DOMAIN published')
        /\ published' \in Seq([to : User, at : Process])
    BY DEF HomeInv, SseTypeOK
  <2>2. DOMAIN published' \subseteq Nat
    BY <2>1
  <2> QED
    BY <2>1, <2>2, SequenceGrows
<1>3. /\ \A s \in Stream :
           /\ Queued(n, p, s) \in {Positions(n, inbox[s]), {}}
           /\ Sent(n, p, s) \in {Positions(n, seen[s]), {}}
           /\ Queued(n, p, s)' \in {Positions(n, inbox'[s]), {}}
           /\ Sent(n, p, s)' \in {Positions(n, seen'[s]), {}}
  BY DEF Queued, Sent, Positions
<1>4. IsFiniteSet({}) /\ Cardinality({}) = 0
  BY FS_EmptySet
<1>5. \A e \in Seq(Nat) : IsFiniteSet(Positions(n, e)) /\ Cardinality(Positions(n, e)) \in Nat
  BY PositionsFinite
<1>6. ASSUME NEW S, NEW e \in Seq(Nat), S \in {Positions(n, e), {}}
      PROVE  IsFiniteSet(S) /\ Cardinality(S) \in Nat
  <2>1. CASE S = Positions(n, e)
    BY <1>5, <2>1
  <2>2. CASE S = {}
    <3>1. IsFiniteSet(S) /\ Cardinality(S) = 0
      BY <1>4, <2>2, Zenon
    <3> QED
      BY <3>1
  <2> QED
    BY <1>6, <2>1, <2>2
<1>7. ASSUME NEW s \in Stream
      PROVE  /\ IsFiniteSet(Queued(n, p, s)) /\ Cardinality(Queued(n, p, s)) \in Nat
             /\ IsFiniteSet(Sent(n, p, s)) /\ Cardinality(Sent(n, p, s)) \in Nat
             /\ IsFiniteSet(Queued(n, p, s)') /\ Cardinality(Queued(n, p, s)') \in Nat
             /\ IsFiniteSet(Sent(n, p, s)') /\ Cardinality(Sent(n, p, s)') \in Nat
  <2>1. IsFiniteSet(Queued(n, p, s)) /\ Cardinality(Queued(n, p, s)) \in Nat
    BY <1>1, <1>3, <1>6
  <2>2. IsFiniteSet(Sent(n, p, s)) /\ Cardinality(Sent(n, p, s)) \in Nat
    BY <1>1, <1>3, <1>6
  <2>3. IsFiniteSet(Queued(n, p, s)') /\ Cardinality(Queued(n, p, s)') \in Nat
    BY <1>2, <1>3, <1>6
  <2>4. IsFiniteSet(Sent(n, p, s)') /\ Cardinality(Sent(n, p, s)') \in Nat
    BY <1>2, <1>3, <1>6
  <2> QED
    BY <2>1, <2>2, <2>3, <2>4
<1> QED
  BY <1>1, <1>2, <1>5, <1>7

\* Nothing comes in anywhere.
LEMMA Shrunk ==
  ASSUME NEW n, NEW p, Bounded(n, p), MostCopies(n, p)' = MostCopies(n, p),
         \A s \in Stream : /\ Queued(n, p, s)' \subseteq Queued(n, p, s)
                           /\ Sent(n, p, s)' \subseteq Sent(n, p, s),
         Positions(n, bus'[p]) \subseteq Positions(n, bus[p]),
         Waiting(n, p)' \subseteq Waiting(n, p), Leaving(n, p)' \subseteq Leaving(n, p)
  PROVE  Bounded(n, p)'
<1>1. PICK before : before = Held(n, p)
  OBVIOUS
<1>2. PICK after : after = Held(n, p)'
  OBVIOUS
<1>3. PICK most : most = MostCopies(n, p)
  OBVIOUS
<1>4. IsFiniteSet(Items(before)) /\ Cardinality(Items(before)) <= most /\ most \in Nat
  BY <1>1, <1>3, AllowedIs DEF Bounded
<1>5. Bounded(n, p)' <=> (IsFiniteSet(Items(after)) /\ Cardinality(Items(after)) <= most)
  BY <1>2, <1>3 DEF Bounded, Items
<1>6. DOMAIN before = Box(p) /\ DOMAIN after = Box(p)
  BY <1>1, <1>2, HeldIs, HeldThen
<1>7. /\ \A s \in Stream : /\ before[<<"queue", s>>] = Queued(n, p, s)
                           /\ before[<<"seen", s>>] = Sent(n, p, s)
      /\ before[<<"bus", p>>] = Positions(n, bus[p])
      /\ before[<<"listener", p>>] = Waiting(n, p)
      /\ before[<<"sending", p>>] = Leaving(n, p)
  BY <1>1, HeldIs
<1>8. /\ \A s \in Stream : /\ after[<<"queue", s>>] = Queued(n, p, s)'
                           /\ after[<<"seen", s>>] = Sent(n, p, s)'
      /\ after[<<"bus", p>>] = Positions(n, bus'[p])
      /\ after[<<"listener", p>>] = Waiting(n, p)'
      /\ after[<<"sending", p>>] = Leaving(n, p)'
  BY <1>2, HeldThen
<1>9. \A b \in Box(p) : after[b] \subseteq before[b]
  <2> SUFFICES ASSUME NEW b \in Box(p) PROVE after[b] \subseteq before[b]
    OBVIOUS
  <2>1. CASE \E s \in Stream : b = <<"queue", s>> \/ b = <<"seen", s>>
    BY <1>7, <1>8, <2>1
  <2>2. CASE b = <<"bus", p>> \/ b = <<"listener", p>> \/ b = <<"sending", p>>
    BY <1>7, <1>8, <2>2
  <2> QED
    BY <2>1, <2>2, HeldIs
<1>10. Items(after) \in SUBSET Items(before)
  BY <1>6, <1>9 DEF Items
<1>11. IsFiniteSet(Items(after)) /\ Cardinality(Items(after)) <= Cardinality(Items(before))
  BY <1>4, <1>10, FS_Subset
<1>12. Cardinality(Items(after)) \in Nat /\ Cardinality(Items(before)) \in Nat
  BY <1>4, <1>11, FS_CardinalityType
<1> QED
  BY <1>4, <1>5, <1>11, <1>12

\* From one box to another, and nothing elsewhere.
LEMMA Moved ==
  ASSUME NEW n, NEW p, Bounded(n, p),
         NEW b1 \in Box(p), NEW b2 \in Box(p), b1 # b2,
         \A b \in Box(p) \ {b1, b2} : Held(n, p)'[b] = Held(n, p)[b],
         IsFiniteSet(Held(n, p)[b1]), IsFiniteSet(Held(n, p)[b2]),
         IsFiniteSet(Held(n, p)'[b1]), IsFiniteSet(Held(n, p)'[b2]),
         MostCopies(n, p) + Cardinality(Held(n, p)'[b1]) + Cardinality(Held(n, p)'[b2])
           <= MostCopies(n, p)' + Cardinality(Held(n, p)[b1]) + Cardinality(Held(n, p)[b2])
  PROVE  Bounded(n, p)'
<1>1. PICK before : before = Held(n, p)
  OBVIOUS
<1>2. PICK after : after = Held(n, p)'
  OBVIOUS
<1>3. PICK most : most = MostCopies(n, p)
  OBVIOUS
<1>4. PICK more : more = MostCopies(n, p)'
  OBVIOUS
<1>5. IsFiniteSet(Items(before)) /\ Cardinality(Items(before)) <= most /\ most \in Nat
  BY <1>1, <1>3, AllowedIs DEF Bounded
<1>6. Bounded(n, p)' <=> (IsFiniteSet(Items(after)) /\ Cardinality(Items(after)) <= more)
  BY <1>2, <1>4 DEF Bounded, Items
<1>7. more \in Nat
  BY <1>4, AllowedIs
<1>8. DOMAIN before = Box(p) /\ DOMAIN after = Box(p)
  BY <1>1, <1>2, HeldIs, HeldThen
<1>9. PICK Boxes : Boxes = Box(p)
  OBVIOUS
<1>10. /\ IsFiniteSet(Items(after))
       /\ Cardinality(Items(before)) \in Nat /\ Cardinality(Items(after)) \in Nat
       /\ Cardinality(Items(after)) + Cardinality(before[b1]) + Cardinality(before[b2])
            = Cardinality(Items(before)) + Cardinality(after[b1]) + Cardinality(after[b2])
  BY <1>1, <1>2, <1>5, <1>8, <1>9, TwoBoxes
<1>11. /\ Cardinality(before[b1]) \in Nat /\ Cardinality(before[b2]) \in Nat
       /\ Cardinality(after[b1]) \in Nat /\ Cardinality(after[b2]) \in Nat
  BY <1>1, <1>2, FS_CardinalityType
<1>12. most + Cardinality(after[b1]) + Cardinality(after[b2])
         <= more + Cardinality(before[b1]) + Cardinality(before[b2])
  BY <1>1, <1>2, <1>3, <1>4
<1> QED
  BY <1>5, <1>6, <1>7, <1>10, <1>11, <1>12

\* The boxes that are not touched.
LEMMA Elsewhere ==
  ASSUME NEW n, NEW p, NEW b1, NEW b2,
         \A s \in Stream :
           /\ <<"queue", s>> \in {b1, b2} \/ Queued(n, p, s)' = Queued(n, p, s)
           /\ <<"seen", s>> \in {b1, b2} \/ Sent(n, p, s)' = Sent(n, p, s),
         <<"bus", p>> \in {b1, b2} \/ Positions(n, bus'[p]) = Positions(n, bus[p]),
         <<"listener", p>> \in {b1, b2} \/ Waiting(n, p)' = Waiting(n, p),
         <<"sending", p>> \in {b1, b2} \/ Leaving(n, p)' = Leaving(n, p)
  PROVE  \A b \in Box(p) \ {b1, b2} : Held(n, p)'[b] = Held(n, p)[b]
<1>1. PICK before : before = Held(n, p)
  OBVIOUS
<1>2. PICK after : after = Held(n, p)'
  OBVIOUS
<1>3. /\ \A s \in Stream : /\ before[<<"queue", s>>] = Queued(n, p, s)
                           /\ before[<<"seen", s>>] = Sent(n, p, s)
      /\ before[<<"bus", p>>] = Positions(n, bus[p])
      /\ before[<<"listener", p>>] = Waiting(n, p)
      /\ before[<<"sending", p>>] = Leaving(n, p)
  BY <1>1, HeldIs
<1>4. /\ \A s \in Stream : /\ after[<<"queue", s>>] = Queued(n, p, s)'
                           /\ after[<<"seen", s>>] = Sent(n, p, s)'
      /\ after[<<"bus", p>>] = Positions(n, bus'[p])
      /\ after[<<"listener", p>>] = Waiting(n, p)'
      /\ after[<<"sending", p>>] = Leaving(n, p)'
  BY <1>2, HeldThen
<1>5. ASSUME NEW b \in Box(p) \ {b1, b2} PROVE after[b] = before[b]
  <2>1. CASE \E s \in Stream : b = <<"queue", s>> \/ b = <<"seen", s>>
    BY <1>3, <1>4, <2>1
  <2>2. CASE b = <<"bus", p>> \/ b = <<"listener", p>> \/ b = <<"sending", p>>
    BY <1>3, <1>4, <2>2
  <2> QED
    BY <2>1, <2>2, HeldIs
<1> QED
  BY <1>1, <1>2, <1>5

LEMMA FlagCount ==
  ASSUME NEW S, S \subseteq {1}
  PROVE  IsFiniteSet(S) /\ Cardinality(S) = Flag(1 \in S)
<1>1. S = {} \/ S = {1}
  OBVIOUS
<1>2. IsFiniteSet({}) /\ Cardinality({}) = 0 /\ IsFiniteSet({1}) /\ Cardinality({1}) = 1
  BY FS_EmptySet, FS_Singleton
<1>3. CASE S = {}
  BY <1>2, <1>3 DEF Flag
<1>4. CASE S = {1}
  BY <1>2, <1>4 DEF Flag
<1> QED
  BY <1>1, <1>3, <1>4

\* An event that is put in a queue is there once more, and nothing else changes.
LEMMA PutCopies ==
  ASSUME HomeInv, HomeInv', NEW q \in Stream \cup {None}, NEW m \in Nat, PutNoWait(q, m),
         UNCHANGED stream, NEW n, NEW p \in Process
  PROVE  /\ \A s \in Stream : \/ Queued(n, p, s)' = Queued(n, p, s)
                              \/ s = q /\ m = n /\ stream[s].process = p
         /\ \A s \in Stream : Cardinality(Queued(n, p, s)') <= Cardinality(Queued(n, p, s)) + 1
<1>1. \A s \in Stream : inbox'[s] = inbox[s] \/ (s = q /\ inbox'[s] = Append(inbox[s], m))
  <2>1. m \in Nat \cup DOMAIN published /\ DOMAIN published \subseteq Nat \cup DOMAIN published
    OBVIOUS
  <2> QED
    BY <2>1, PutTypes
<1>2. ASSUME NEW s \in Stream
      PROVE  /\ \/ Queued(n, p, s)' = Queued(n, p, s)
                \/ s = q /\ m = n /\ stream[s].process = p
             /\ Cardinality(Queued(n, p, s)') <= Cardinality(Queued(n, p, s)) + 1
  <2>1. /\ Queued(n, p, s) = IF stream[s].process = p THEN Positions(n, inbox[s]) ELSE {}
        /\ Queued(n, p, s)' = IF stream[s].process = p THEN Positions(n, inbox'[s]) ELSE {}
    BY DEF Queued, Positions
  <2>2. inbox[s] \in Seq(Nat) /\ Cardinality(Queued(n, p, s)) \in Nat
    BY HeldFinite
  <2>3. CASE Queued(n, p, s)' = Queued(n, p, s)
    BY <2>2, <2>3
  <2>4. CASE Queued(n, p, s)' # Queued(n, p, s)
    <3>1. /\ stream[s].process = p /\ s = q /\ inbox'[s] = Append(inbox[s], m)
          /\ Queued(n, p, s) = Positions(n, inbox[s])
          /\ Queued(n, p, s)' = Positions(n, Append(inbox[s], m))
      BY <1>1, <2>1, <2>4
    <3>2. m = n /\ Cardinality(Queued(n, p, s)') <= Cardinality(Queued(n, p, s)) + 1
      BY <2>2, <2>4, <3>1, PositionsAppend
    <3> QED
      BY <3>1, <3>2
  <2> QED
    BY <2>3, <2>4
<1> QED
  BY <1>2

-----------------------------------------------------------------------------
LEMMA YieldCopies ==
  ASSUME HomeInv, HomeInv', NEW s \in Stream, Yield(s),
         NEW n \in Nat, NEW p \in Process, Bounded(n, p)
  PROVE  Bounded(n, p)'
<1>1. PICK q : q = stream[s].queue
  OBVIOUS
<1>2. /\ q \in Stream /\ stream[q].process = stream[s].process /\ inbox[q] # <<>>
      /\ seen' = [seen EXCEPT ![s] = Append(seen[s], Head(inbox[q]))]
      /\ inbox' = [inbox EXCEPT ![q] = Tail(inbox[q])]
      /\ UNCHANGED <<relay, published, connections, stream, sending, bus, listener>>
  BY <1>1 DEF Yield, HomeInv, Homes, InHome
<1>3. inbox \in [Stream -> Seq(DOMAIN published)] /\ seen \in [Stream -> Seq(DOMAIN published)]
  BY DEF HomeInv, SseTypeOK
<1>4. /\ inbox'[q] = Tail(inbox[q]) /\ \A r \in Stream \ {q} : inbox'[r] = inbox[r]
      /\ seen'[s] = Append(seen[s], Head(inbox[q])) /\ \A r \in Stream \ {s} : seen'[r] = seen[r]
  BY <1>2, <1>3
<1>5. /\ Waiting(n, p)' = Waiting(n, p) /\ Leaving(n, p)' = Leaving(n, p)
      /\ Positions(n, bus'[p]) = Positions(n, bus[p])
      /\ MostCopies(n, p)' = MostCopies(n, p)
  BY <1>2, AllowedIs DEF Waiting, Leaving
<1>6. \A r \in Stream : /\ r # q => Queued(n, p, r)' = Queued(n, p, r)
                        /\ r # s => Sent(n, p, r)' = Sent(n, p, r)
  BY <1>2, <1>4 DEF Queued, Sent, Positions
<1>7. CASE stream[s].process # p
  <2>1. Queued(n, p, q)' = Queued(n, p, q) /\ Sent(n, p, s)' = Sent(n, p, s)
    BY <1>2, <1>7 DEF Queued, Sent
  <2> QED
    BY <1>5, <1>6, <2>1, Shrunk
<1>8. CASE stream[s].process = p
  <2>1. /\ Queued(n, p, q) = Positions(n, inbox[q])
        /\ Queued(n, p, q)' = Positions(n, Tail(inbox[q]))
        /\ Sent(n, p, s) = Positions(n, seen[s])
        /\ Sent(n, p, s)' = Positions(n, Append(seen[s], Head(inbox[q])))
    BY <1>2, <1>4, <1>8 DEF Queued, Sent, Positions
  <2>2. inbox[q] \in Seq(Nat) /\ seen[s] \in Seq(Nat)
    BY <1>2, HeldFinite
  <2>3. /\ Head(inbox[q]) \in Nat
        /\ Cardinality(Queued(n, p, q)') + Flag(Head(inbox[q]) = n) <= Cardinality(Queued(n, p, q))
    BY <1>2, <2>1, <2>2, PositionsTail
  <2>4. /\ Head(inbox[q]) # n => Sent(n, p, s)' = Sent(n, p, s)
        /\ Cardinality(Sent(n, p, s)') <= Cardinality(Sent(n, p, s)) + 1
    BY <2>1, <2>2, <2>3, PositionsAppend
  <2>5. /\ Cardinality(Queued(n, p, q)) \in Nat /\ Cardinality(Queued(n, p, q)') \in Nat
        /\ Cardinality(Sent(n, p, s)) \in Nat /\ Cardinality(Sent(n, p, s)') \in Nat
        /\ IsFiniteSet(Queued(n, p, q)) /\ IsFiniteSet(Queued(n, p, q)')
        /\ IsFiniteSet(Sent(n, p, s)) /\ IsFiniteSet(Sent(n, p, s)')
    BY <1>2, HeldFinite
  <2>6. Cardinality(Queued(n, p, q)') + Cardinality(Sent(n, p, s)')
          <= Cardinality(Queued(n, p, q)) + Cardinality(Sent(n, p, s))
    <3>1. CASE Head(inbox[q]) = n
      BY <2>3, <2>4, <2>5, <3>1 DEF Flag
    <3>2. CASE Head(inbox[q]) # n
      BY <2>3, <2>4, <2>5, <3>2 DEF Flag
    <3> QED
      BY <3>1, <3>2
  <2>7. PICK b1 : b1 = <<"queue", q>>
    OBVIOUS
  <2>8. PICK b2 : b2 = <<"seen", s>>
    OBVIOUS
  <2>9. /\ b1 \in Box(p) /\ b2 \in Box(p) /\ b1 # b2
        /\ Held(n, p)[b1] = Queued(n, p, q) /\ Held(n, p)[b2] = Sent(n, p, s)
    <3>1. b1[1] = "queue" /\ b2[1] = "seen"
      BY <2>7, <2>8
    <3>2. b1 # b2
      BY <3>1
    <3>3. b1 \in Box(p) /\ Held(n, p)[b1] = Queued(n, p, q)
      <4>1. q \in Stream
        BY <1>2
      <4> QED
        BY <2>7, <4>1, HeldIs
    <3>4. b2 \in Box(p) /\ Held(n, p)[b2] = Sent(n, p, s)
      BY <2>8, HeldIs
    <3> QED
      BY <3>2, <3>3, <3>4
  <2>10. Held(n, p)'[b1] = Queued(n, p, q)' /\ Held(n, p)'[b2] = Sent(n, p, s)'
    BY <1>2, <2>7, <2>8, HeldThen
  <2>11. \A b \in Box(p) \ {b1, b2} : Held(n, p)'[b] = Held(n, p)[b]
    <3>1. \A r \in Stream : /\ <<"queue", r>> \in {b1, b2} \/ Queued(n, p, r)' = Queued(n, p, r)
                            /\ <<"seen", r>> \in {b1, b2} \/ Sent(n, p, r)' = Sent(n, p, r)
      BY <1>6, <2>7, <2>8
    <3> QED
      BY <1>5, <3>1, Elsewhere
  <2>12. MostCopies(n, p) + Cardinality(Held(n, p)'[b1]) + Cardinality(Held(n, p)'[b2])
           <= MostCopies(n, p)' + Cardinality(Held(n, p)[b1]) + Cardinality(Held(n, p)[b2])
    BY <1>5, <2>5, <2>6, <2>9, <2>10, AllowedIs
  <2>13. /\ IsFiniteSet(Held(n, p)[b1]) /\ IsFiniteSet(Held(n, p)[b2])
         /\ IsFiniteSet(Held(n, p)'[b1]) /\ IsFiniteSet(Held(n, p)'[b2])
    BY <2>5, <2>9, <2>10
  <2> QED
    BY <2>9, <2>11, <2>12, <2>13, Moved
<1> QED
  BY <1>7, <1>8

LEMMA ConnectCopies ==
  ASSUME HomeInv, NEW s \in Stream, NEW p0 \in Process, NEW u \in User, Connect(s, p0, u),
         NEW n \in Nat, NEW p \in Process, Bounded(n, p)
  PROVE  Bounded(n, p)'
<1>1. /\ UNCHANGED <<relay, published, inbox, seen, sending, bus, listener>>
      /\ stream[s].state = "new"
      /\ \A r \in Stream \ {s} : stream'[r] = stream[r]
  BY DEF Connect, HomeInv, SseTypeOK
<1>2. Positions(n, inbox[s]) = {} /\ Positions(n, seen[s]) = {}
  BY <1>1 DEF HomeInv, Addressed, ForUser, Positions
<1>3. \A r \in Stream : Queued(n, p, r)' = Queued(n, p, r) /\ Sent(n, p, r)' = Sent(n, p, r)
  <2> SUFFICES ASSUME NEW r \in Stream
               PROVE  Queued(n, p, r)' = Queued(n, p, r) /\ Sent(n, p, r)' = Sent(n, p, r)
    OBVIOUS
  <2>1. CASE r = s
    BY <1>1, <1>2, <2>1 DEF Queued, Sent, Positions
  <2>2. CASE r # s
    BY <1>1, <2>2 DEF Queued, Sent, Positions
  <2> QED
    BY <2>1, <2>2
<1>4. /\ Waiting(n, p)' = Waiting(n, p) /\ Leaving(n, p)' = Leaving(n, p)
      /\ Positions(n, bus'[p]) = Positions(n, bus[p])
      /\ MostCopies(n, p)' = MostCopies(n, p)
  BY <1>1, AllowedIs DEF Waiting, Leaving
<1> QED
  BY <1>3, <1>4, Shrunk

\* A stream that closes keeps its process, and what it has sent.
LEMMA ClosedCopies ==
  ASSUME \A s \in Stream : stream'[s].process = stream[s].process,
         UNCHANGED <<relay, published, inbox, seen>>,
         sending' \subseteq sending,
         NEW n \in Nat, NEW p \in Process, Bounded(n, p),
         bus'[p] = bus[p] \/ bus'[p] = <<>>, listener'[p] \in {listener[p], None}
  PROVE  Bounded(n, p)'
<1>1. \A s \in Stream : Queued(n, p, s)' = Queued(n, p, s) /\ Sent(n, p, s)' = Sent(n, p, s)
  BY DEF Queued, Sent, Positions
<1>2. Waiting(n, p)' \subseteq Waiting(n, p) /\ Leaving(n, p)' \subseteq Leaving(n, p)
  BY DEF Waiting, Leaving
<1>3. Positions(n, bus'[p]) \subseteq Positions(n, bus[p])
  BY DEF Positions
<1>4. MostCopies(n, p)' = MostCopies(n, p)
  BY AllowedIs
<1> QED
  BY <1>1, <1>2, <1>3, <1>4, Shrunk

LEMMA LeaveCopies ==
  ASSUME HomeInv, NEW n \in Nat, NEW p \in Process, Bounded(n, p), Go \/ Restart
  PROVE  Bounded(n, p)'
<1>1. stream \in [Stream -> StreamState] /\ listener \in [Process -> WaitState]
      /\ bus \in [Process -> Seq(DOMAIN published)]
  BY DEF HomeInv, SseTypeOK, StreamState, WaitState
<1>2. ASSUME NEW s \in Stream, Disconnect(s)
      PROVE  Bounded(n, p)'
  <2>1. \A r \in Stream : stream'[r].process = stream[r].process
    BY <1>1, <1>2 DEF Disconnect, StreamState
  <2>2. UNCHANGED <<relay, published, inbox, seen, sending, bus, listener>>
    BY <1>2 DEF Disconnect
  <2> QED
    BY <2>1, <2>2, ClosedCopies
<1>3. ASSUME NEW p0 \in Process, RestartProcess(p0)
      PROVE  Bounded(n, p)'
  <2>1. \A r \in Stream : stream'[r].process = stream[r].process
    BY <1>1, <1>3 DEF RestartProcess, StreamState
  <2>2. /\ UNCHANGED <<relay, published, inbox, seen>> /\ sending' \subseteq sending
        /\ bus'[p] = bus[p] \/ bus'[p] = <<>>
        /\ listener'[p] \in {listener[p], None}
    BY <1>1, <1>3 DEF RestartProcess
  <2> QED
    BY <2>1, <2>2, ClosedCopies
<1> QED
  BY <1>2, <1>3 DEF Go, Restart

\* From a box of the process into a queue of it.
LEMMA IntoQueue ==
  ASSUME HomeInv, HomeInv', NEW n \in Nat, NEW p \in Process, Bounded(n, p),
         NEW q \in Stream, NEW box, NEW from, NEW left,
         box \in {"bus", "listener", "sending"},
         Held(n, p)[<<box, p>>] = from, Held(n, p)'[<<box, p>>] = left,
         IsFiniteSet(from), IsFiniteSet(left), Cardinality(left) + 1 <= Cardinality(from),
         Cardinality(Queued(n, p, q)') <= Cardinality(Queued(n, p, q)) + 1,
         \A s \in Stream : s # q => Queued(n, p, s)' = Queued(n, p, s),
         \A s \in Stream : Sent(n, p, s)' = Sent(n, p, s),
         box = "bus" \/ Positions(n, bus'[p]) = Positions(n, bus[p]),
         box = "listener" \/ Waiting(n, p)' = Waiting(n, p),
         box = "sending" \/ Leaving(n, p)' = Leaving(n, p),
         MostCopies(n, p)' = MostCopies(n, p)
  PROVE  Bounded(n, p)'
<1>1. PICK b1 : b1 = <<box, p>>
  OBVIOUS
<1>2. PICK b2 : b2 = <<"queue", q>>
  OBVIOUS
<1>3. b1 # b2
  <2>1. b1[1] = box /\ b2[1] = "queue"
    BY <1>1, <1>2
  <2> QED
    BY <2>1
<1>4. b1 \in Box(p) /\ b2 \in Box(p) /\ Held(n, p)[b1] = from /\ Held(n, p)[b2] = Queued(n, p, q)
  BY <1>1, <1>2, HeldIs
<1>5. Held(n, p)'[b1] = left /\ Held(n, p)'[b2] = Queued(n, p, q)'
  BY <1>1, <1>2, HeldThen
<1>6. \A b \in Box(p) \ {b1, b2} : Held(n, p)'[b] = Held(n, p)[b]
  <2>1. /\ \A s \in Stream : /\ <<"queue", s>> \in {b1, b2} \/ Queued(n, p, s)' = Queued(n, p, s)
                             /\ <<"seen", s>> \in {b1, b2} \/ Sent(n, p, s)' = Sent(n, p, s)
        /\ <<"bus", p>> \in {b1, b2} \/ Positions(n, bus'[p]) = Positions(n, bus[p])
        /\ <<"listener", p>> \in {b1, b2} \/ Waiting(n, p)' = Waiting(n, p)
        /\ <<"sending", p>> \in {b1, b2} \/ Leaving(n, p)' = Leaving(n, p)
    BY <1>1, <1>2
  <2> QED
    BY <2>1, Elsewhere
<1>7. /\ IsFiniteSet(Queued(n, p, q)) /\ IsFiniteSet(Queued(n, p, q)')
      /\ Cardinality(Queued(n, p, q)) \in Nat /\ Cardinality(Queued(n, p, q)') \in Nat
      /\ Cardinality(from) \in Nat /\ Cardinality(left) \in Nat
  BY HeldFinite, FS_CardinalityType
<1>8. MostCopies(n, p) + Cardinality(Held(n, p)'[b1]) + Cardinality(Held(n, p)'[b2])
        <= MostCopies(n, p)' + Cardinality(Held(n, p)[b1]) + Cardinality(Held(n, p)[b2])
  BY <1>4, <1>5, <1>7, AllowedIs
<1>9. /\ IsFiniteSet(Held(n, p)[b1]) /\ IsFiniteSet(Held(n, p)[b2])
      /\ IsFiniteSet(Held(n, p)'[b1]) /\ IsFiniteSet(Held(n, p)'[b2])
  BY <1>4, <1>5, <1>7
<1> QED
  BY <1>3, <1>4, <1>6, <1>8, <1>9, Moved

LEMMA PutLocallyCopies ==
  ASSUME HomeInv, HomeInv', NEW m, PutLocally(m),
         NEW n \in Nat, NEW p \in Process, Bounded(n, p)
  PROVE  Bounded(n, p)'
<1>1. PICK q : q = QueueOf(m, published[m].at)
  OBVIOUS
<1>2. /\ m \in DOMAIN published /\ m \in Nat /\ m \in sending
      /\ published[m].at \in Process /\ published[m].to \in User
  <2>1. m \in DOMAIN published /\ published \in Seq([to : User, at : Process]) /\ m \in sending
    BY DEF PutLocally, HomeInv, SseTypeOK
  <2>2. published[m] \in [to : User, at : Process]
    BY <2>1, ElementOf
  <2> QED
    BY <2>1, <2>2
<1>3. q \in Stream \cup {None} /\ (q # None => q \in Stream /\ stream[q].process = published[m].at)
  <2>1. q = connections[published[m].at][published[m].to]
    BY <1>1 DEF QueueOf
  <2>2. q \in Stream \cup {None}
    BY <1>2, <2>1 DEF HomeInv, SseTypeOK
  <2>3. q # None => InHome(q, published[m].at, published[m].to)
    BY <1>2, <2>1 DEF HomeInv, Homes
  <2> QED
    BY <2>2, <2>3 DEF InHome
<1>4. /\ PutNoWait(q, m) /\ sending' = sending \ {m}
      /\ UNCHANGED <<relay, published, connections, stream, seen, bus, listener>>
  BY <1>1 DEF PutLocally
<1>5. /\ \A s \in Stream : \/ Queued(n, p, s)' = Queued(n, p, s)
                           \/ s = q /\ m = n /\ stream[s].process = p
      /\ \A s \in Stream : Cardinality(Queued(n, p, s)') <= Cardinality(Queued(n, p, s)) + 1
  BY <1>2, <1>3, <1>4, PutCopies
<1>6. /\ \A s \in Stream : Sent(n, p, s)' = Sent(n, p, s)
      /\ Waiting(n, p)' = Waiting(n, p)
      /\ Positions(n, bus'[p]) = Positions(n, bus[p])
      /\ MostCopies(n, p)' = MostCopies(n, p)
  BY <1>4, AllowedIs DEF Waiting, Sent
<1>7. Leaving(n, p)' \subseteq Leaving(n, p)
  BY <1>4 DEF Leaving
<1>8. CASE \A s \in Stream : Queued(n, p, s)' = Queued(n, p, s)
  BY <1>6, <1>7, <1>8, Shrunk
<1>9. CASE ~(\A s \in Stream : Queued(n, p, s)' = Queued(n, p, s))
  <2>1. q \in Stream /\ m = n /\ published[m].at = p /\ \A s \in Stream : s # q => Queued(n, p, s)' = Queued(n, p, s)
    BY <1>3, <1>5, <1>9, SseAssumption
  <2>2. Leaving(n, p) = {1} /\ Leaving(n, p)' = {}
    BY <1>2, <1>4, <2>1 DEF Leaving
  <2>4. PICK from : from = {1}
    OBVIOUS
  <2>5. PICK left : left = {}
    OBVIOUS
  <2>6. /\ Held(n, p)[<<"sending", p>>] = from /\ Held(n, p)'[<<"sending", p>>] = left
        /\ IsFiniteSet(from) /\ IsFiniteSet(left) /\ Cardinality(left) + 1 <= Cardinality(from)
    <3>1. from = Leaving(n, p) /\ left = Leaving(n, p)'
      BY <2>2, <2>4, <2>5
    <3>2. Held(n, p)[<<"sending", p>>] = from /\ Held(n, p)'[<<"sending", p>>] = left
      BY <3>1, HeldIs, HeldThen
    <3>3. IsFiniteSet(from) /\ IsFiniteSet(left) /\ Cardinality(from) = 1 /\ Cardinality(left) = 0
      BY <2>4, <2>5, FlagCount DEF Flag
    <3> QED
      BY <3>2, <3>3
  <2> QED
    BY <1>5, <1>6, <2>1, <2>6, IntoQueue
<1> QED
  BY <1>8, <1>9

LEMMA ResumeCopies ==
  ASSUME HomeInv, HomeInv', NEW p0 \in Process, ResumeListener(p0),
         NEW n \in Nat, NEW p \in Process, Bounded(n, p)
  PROVE  Bounded(n, p)'
<1>1. PICK q : q = listener[p0].queue
  OBVIOUS
<1>2. PICK m : m = listener[p0].event
  OBVIOUS
<1>3. listener \in [Process -> WaitState] /\ listener[p0] # None
      /\ published \in Seq([to : User, at : Process])
  BY DEF ResumeListener, HomeInv, SseTypeOK, WaitState
<1>4. q \in Stream /\ stream[q].process = p0 /\ m \in Nat
  <2>1. q \in Stream /\ stream[q].process = p0 /\ m \in DOMAIN published
    BY <1>1, <1>2, <1>3 DEF HomeInv, Homes, InHome, WaitState
  <2> QED
    BY <1>3, <2>1
<1>5. /\ PutNoWait(q, m) /\ listener' = [listener EXCEPT ![p0] = None]
      /\ UNCHANGED <<relay, published, connections, stream, seen, sending, bus>>
  BY <1>1, <1>2 DEF ResumeListener
<1>6. /\ \A s \in Stream : \/ Queued(n, p, s)' = Queued(n, p, s)
                           \/ s = q /\ m = n /\ stream[s].process = p
      /\ \A s \in Stream : Cardinality(Queued(n, p, s)') <= Cardinality(Queued(n, p, s)) + 1
  BY <1>4, <1>5, PutCopies
<1>7. /\ \A s \in Stream : Sent(n, p, s)' = Sent(n, p, s)
      /\ Leaving(n, p)' = Leaving(n, p)
      /\ Positions(n, bus'[p]) = Positions(n, bus[p])
      /\ MostCopies(n, p)' = MostCopies(n, p)
  BY <1>5, AllowedIs DEF Leaving, Sent
<1>8. Waiting(n, p)' \subseteq Waiting(n, p)
  BY <1>3, <1>5 DEF Waiting
<1>9. CASE \A s \in Stream : Queued(n, p, s)' = Queued(n, p, s)
  BY <1>7, <1>8, <1>9, Shrunk
<1>10. CASE ~(\A s \in Stream : Queued(n, p, s)' = Queued(n, p, s))
  <2>1. m = n /\ p0 = p /\ \A s \in Stream : s # q => Queued(n, p, s)' = Queued(n, p, s)
    BY <1>4, <1>6, <1>10
  <2>2. Waiting(n, p) = {1} /\ Waiting(n, p)' = {}
    BY <1>2, <1>3, <1>5, <2>1 DEF Waiting
  <2>4. PICK from : from = {1}
    OBVIOUS
  <2>5. PICK left : left = {}
    OBVIOUS
  <2>6. /\ Held(n, p)[<<"listener", p>>] = from /\ Held(n, p)'[<<"listener", p>>] = left
        /\ IsFiniteSet(from) /\ IsFiniteSet(left) /\ Cardinality(left) + 1 <= Cardinality(from)
    <3>1. from = Waiting(n, p) /\ left = Waiting(n, p)'
      BY <2>2, <2>4, <2>5
    <3>2. Held(n, p)[<<"listener", p>>] = from /\ Held(n, p)'[<<"listener", p>>] = left
      BY <3>1, HeldIs, HeldThen
    <3>3. IsFiniteSet(from) /\ IsFiniteSet(left) /\ Cardinality(from) = 1 /\ Cardinality(left) = 0
      BY <2>4, <2>5, FlagCount DEF Flag
    <3> QED
      BY <3>2, <3>3
  <2> QED
    BY <1>4, <1>6, <1>7, <2>1, <2>6, IntoQueue
<1> QED
  BY <1>9, <1>10

LEMMA ListenCopies ==
  ASSUME HomeInv, HomeInv', NEW p0 \in Process, Listen(p0),
         NEW n \in Nat, NEW p \in Process, Bounded(n, p)
  PROVE  Bounded(n, p)'
<1>1. PICK m : m = Head(bus[p0])
  OBVIOUS
<1>2. PICK q : q = QueueOf(m, p0)
  OBVIOUS
<1>3. /\ listener[p0] = None /\ bus[p0] # <<>>
      /\ bus' = [bus EXCEPT ![p0] = Tail(bus[p0])]
      /\ PutNoWait(q, m)
      /\ listener' = IF q # None /\ ~Room(q) THEN [listener EXCEPT ![p0] = [queue |-> q, event |-> m]]
                     ELSE listener
      /\ UNCHANGED <<relay, published, connections, stream, seen, sending>>
  BY <1>1, <1>2 DEF Listen
<1>4. /\ bus \in [Process -> Seq(DOMAIN published)] /\ published \in Seq([to : User, at : Process])
      /\ listener \in [Process -> WaitState]
  BY DEF HomeInv, SseTypeOK, WaitState
<1>5. m \in DOMAIN published /\ m \in Nat /\ published[m].to \in User
  <2>1. m \in DOMAIN published
    BY <1>1, <1>3, <1>4
  <2>2. published[m] \in [to : User, at : Process]
    BY <1>4, <2>1, ElementOf
  <2> QED
    BY <1>4, <2>1, <2>2
<1>6. q \in Stream \cup {None} /\ (q # None => q \in Stream /\ stream[q].process = p0)
  <2>1. q = connections[p0][published[m].to]
    BY <1>2 DEF QueueOf
  <2>2. q \in Stream \cup {None}
    BY <1>5, <2>1 DEF HomeInv, SseTypeOK
  <2>3. q # None => InHome(q, p0, published[m].to)
    BY <1>5, <2>1 DEF HomeInv, Homes
  <2> QED
    BY <2>2, <2>3 DEF InHome
<1>7. /\ \A s \in Stream : \/ Queued(n, p, s)' = Queued(n, p, s)
                           \/ s = q /\ m = n /\ stream[s].process = p
      /\ \A s \in Stream : Cardinality(Queued(n, p, s)') <= Cardinality(Queued(n, p, s)) + 1
  BY <1>3, <1>5, <1>6, PutCopies
<1>8. /\ \A s \in Stream : Sent(n, p, s)' = Sent(n, p, s)
      /\ Leaving(n, p)' = Leaving(n, p)
      /\ MostCopies(n, p)' = MostCopies(n, p)
  BY <1>3, AllowedIs DEF Leaving, Sent
<1>9. CASE p # p0
  <2>1. bus'[p] = bus[p] /\ listener'[p] = listener[p]
    BY <1>3, <1>4, <1>9
  <2>2. Positions(n, bus'[p]) = Positions(n, bus[p]) /\ Waiting(n, p)' = Waiting(n, p)
    BY <2>1 DEF Waiting
  <2>3. \A s \in Stream : Queued(n, p, s)' = Queued(n, p, s)
    BY <1>6, <1>7, <1>9, SseAssumption
  <2> QED
    BY <1>8, <2>2, <2>3, Shrunk
<1>10. CASE p = p0
  <2>1. /\ bus'[p] = Tail(bus[p]) /\ bus[p] \in Seq(Nat) /\ bus[p] # <<>>
    BY <1>3, <1>4, <1>10, HeldFinite
  <2>2. Cardinality(Positions(n, bus'[p])) + Flag(m = n) <= Cardinality(Positions(n, bus[p]))
    BY <1>1, <1>10, <2>1, PositionsTail
  <2>3. /\ IsFiniteSet(Positions(n, bus[p])) /\ Cardinality(Positions(n, bus[p])) \in Nat
        /\ IsFiniteSet(Positions(n, bus'[p])) /\ Cardinality(Positions(n, bus'[p])) \in Nat
    BY HeldFinite
  <2>4. CASE ~(\A s \in Stream : Queued(n, p, s)' = Queued(n, p, s))
    <3>1. q \in Stream /\ m = n /\ \A s \in Stream : s # q => Queued(n, p, s)' = Queued(n, p, s)
      BY <1>6, <1>7, <2>4, SseAssumption
    <3>2. q # None /\ Room(q)
      <4>1. inbox' # inbox
        BY <1>3, <2>4 DEF Queued, Positions
      <4> QED
        BY <1>3, <4>1 DEF PutNoWait
    <3>3. Waiting(n, p)' = Waiting(n, p)
      BY <1>3, <3>2 DEF Waiting
    <3>4. Cardinality(Positions(n, bus'[p])) + 1 <= Cardinality(Positions(n, bus[p]))
      BY <2>2, <3>1 DEF Flag
    <3>5. /\ Held(n, p)[<<"bus", p>>] = Positions(n, bus[p])
          /\ Held(n, p)'[<<"bus", p>>] = Positions(n, bus'[p])
      BY HeldIs, HeldThen
    <3>6. PICK from : from = Positions(n, bus[p])
      OBVIOUS
    <3>7. PICK left : left = Positions(n, bus'[p])
      OBVIOUS
    <3>8. /\ Held(n, p)[<<"bus", p>>] = from /\ Held(n, p)'[<<"bus", p>>] = left
          /\ IsFiniteSet(from) /\ IsFiniteSet(left) /\ Cardinality(left) + 1 <= Cardinality(from)
      BY <2>3, <3>4, <3>5, <3>6, <3>7
    <3> QED
      BY <1>7, <1>8, <3>1, <3>3, <3>8, IntoQueue
  \* The listener waits, or the event is dropped.
  <2>5. CASE \A s \in Stream : Queued(n, p, s)' = Queued(n, p, s)
    <3>1. PICK b1 : b1 = <<"bus", p>>
      OBVIOUS
    <3>2. PICK b2 : b2 = <<"listener", p>>
      OBVIOUS
    <3>3. b1 # b2
      <4>1. b1[1] = "bus" /\ b2[1] = "listener"
        BY <3>1, <3>2
      <4> QED
        BY <4>1
    <3>4. /\ b1 \in Box(p) /\ b2 \in Box(p)
          /\ Held(n, p)[b1] = Positions(n, bus[p]) /\ Held(n, p)[b2] = Waiting(n, p)
      BY <3>1, <3>2, HeldIs
    <3>5. Held(n, p)'[b1] = Positions(n, bus'[p]) /\ Held(n, p)'[b2] = Waiting(n, p)'
      BY <3>1, <3>2, HeldThen
    <3>6. \A b \in Box(p) \ {b1, b2} : Held(n, p)'[b] = Held(n, p)[b]
      <4>1. /\ <<"bus", p>> \in {b1, b2} /\ <<"listener", p>> \in {b1, b2}
        BY <3>1, <3>2
      <4> QED
        BY <1>8, <2>5, <4>1, Elsewhere
    <3>7. Waiting(n, p) = {} /\ Waiting(n, p)' \subseteq {1} /\ (m # n => Waiting(n, p)' = {})
      BY <1>3, <1>4, <1>10 DEF Waiting
    <3>8. /\ IsFiniteSet(Waiting(n, p)') /\ Cardinality(Waiting(n, p)') <= Flag(m = n)
          /\ Cardinality(Waiting(n, p)') \in Nat
          /\ IsFiniteSet(Waiting(n, p)) /\ Cardinality(Waiting(n, p)) = 0
      <4>1. PICK w : w = Waiting(n, p)'
        OBVIOUS
      <4>2. w \subseteq {1} /\ (m # n => 1 \notin w)
        BY <3>7, <4>1
      <4>3. IsFiniteSet(w) /\ Cardinality(w) = Flag(1 \in w)
        BY <4>2, FlagCount
      <4>4. Flag(1 \in w) <= Flag(m = n) /\ Flag(1 \in w) \in Nat
        BY <4>2 DEF Flag
      <4>5. IsFiniteSet(Waiting(n, p)) /\ Cardinality(Waiting(n, p)) = 0
        BY <3>7, FS_EmptySet, Zenon
      <4> QED
        BY <4>1, <4>3, <4>4, <4>5
    <3>9. /\ IsFiniteSet(Held(n, p)[b1]) /\ IsFiniteSet(Held(n, p)[b2])
          /\ IsFiniteSet(Held(n, p)'[b1]) /\ IsFiniteSet(Held(n, p)'[b2])
      BY <2>3, <3>4, <3>5, <3>8
    <3>10. MostCopies(n, p) + Cardinality(Held(n, p)'[b1]) + Cardinality(Held(n, p)'[b2])
             <= MostCopies(n, p)' + Cardinality(Held(n, p)[b1]) + Cardinality(Held(n, p)[b2])
      <4>1. Flag(m = n) \in Nat
        BY DEF Flag
      <4> QED
        BY <1>8, <2>2, <2>3, <3>4, <3>5, <3>8, <4>1, AllowedIs
    <3> QED
      BY <3>3, <3>4, <3>6, <3>9, <3>10, Moved
  <2> QED
    BY <2>4, <2>5
<1> QED
  BY <1>9, <1>10

\* A new event is in no box yet.
LEMMA PublishCopies ==
  ASSUME HomeInv, HomeInv', NEW p0 \in Process, NEW u \in User, Publish(p0, u),
         NEW n \in Nat, NEW p \in Process, Bounded(n, p)
  PROVE  Bounded(n, p)'
<1>1. PICK m : m = Len(published) + 1
  OBVIOUS
<1>2. PICK q : q = connections[p0][u]
  OBVIOUS
<1>3. /\ published \in Seq([to : User, at : Process]) /\ sending \subseteq DOMAIN published
      /\ q \in Stream \cup {None} /\ (q \in Stream => stream[q].process = p0)
  <2>1. q # None => InHome(q, p0, u)
    BY <1>2 DEF HomeInv, Homes
  <2>2. q \in Stream => q # None
    BY SseAssumption
  <2> QED
    BY <1>2, <2>1, <2>2 DEF HomeInv, SseTypeOK, InHome
<1>4. published' = Append(published, [to |-> u, at |-> p0]) /\ UNCHANGED <<relay, stream, seen, listener>>
  BY DEF Publish
<1>5. /\ m \in Nat /\ m \notin DOMAIN published
      /\ DOMAIN published' = DOMAIN published \cup {m}
      /\ published'[m].at = p0
      /\ \A i \in DOMAIN published : published'[i] = published[i]
  BY <1>1, <1>3, <1>4
<1>6. /\ \A s \in Stream : \/ Queued(n, p, s)' = Queued(n, p, s)
                           \/ ~relay /\ s = q /\ m = n /\ stream[s].process = p
      /\ \A s \in Stream : Cardinality(Queued(n, p, s)') <= Cardinality(Queued(n, p, s)) + 1
  <2>1. \A s \in Stream : Cardinality(Queued(n, p, s)) \in Nat
    BY HeldFinite
  <2>2. CASE relay
    <3>1. \A s \in Stream : Queued(n, p, s)' = Queued(n, p, s)
      BY <2>2 DEF Publish, Queued, Positions
    <3> QED
      BY <2>1, <3>1
  <2>3. CASE ~relay
    <3>1. PutNoWait(q, m) /\ UNCHANGED stream
      BY <1>1, <1>2, <2>3 DEF Publish
    <3> QED
      BY <1>3, <1>5, <2>3, <3>1, PutCopies
  <2> QED
    BY <2>2, <2>3
<1>7. /\ \A s \in Stream : Sent(n, p, s)' = Sent(n, p, s)
      /\ Waiting(n, p)' = Waiting(n, p)
  BY <1>4 DEF Sent, Waiting
<1>8. /\ bus' = IF relay THEN [r \in Process |-> Append(bus[r], m)] ELSE bus
      /\ sending' = IF relay THEN sending \cup {m} ELSE sending
  BY <1>1 DEF Publish
<1>9. /\ bus[p] \in Seq(Nat)
      /\ IsFiniteSet(Positions(n, bus[p])) /\ Cardinality(Positions(n, bus[p])) \in Nat
      /\ IsFiniteSet(Positions(n, bus'[p])) /\ Cardinality(Positions(n, bus'[p])) \in Nat
  BY HeldFinite
<1>10. CASE n # m
  <2>1. Positions(n, bus'[p]) = Positions(n, bus[p])
    BY <1>5, <1>8, <1>9, <1>10, PositionsAppend
  <2>2. Leaving(n, p)' = Leaving(n, p)
    <3>1. n \in sending' <=> n \in sending
      BY <1>8, <1>10
    <3>2. n \in sending => published'[n] = published[n]
      BY <1>3, <1>5
    <3> QED
      BY <3>1, <3>2 DEF Leaving
  <2>3. MostCopies(n, p)' = MostCopies(n, p)
    BY <1>4, <1>5, <1>10 DEF MostCopies, Flag
  <2>4. \A s \in Stream : Queued(n, p, s)' = Queued(n, p, s)
    BY <1>6, <1>10
  <2> QED
    BY <1>7, <2>1, <2>2, <2>3, <2>4, Shrunk
<1>11. CASE n = m
  <2>1. MostCopies(n, p) = 0 /\ MostCopies(n, p)' = Flag(relay) + Flag(p0 = p)
    BY <1>4, <1>5, <1>11 DEF MostCopies, Flag
  <2>2. Leaving(n, p) = {} /\ Leaving(n, p)' \subseteq {1} /\ (~relay \/ p0 # p => Leaving(n, p)' = {})
    BY <1>3, <1>5, <1>8, <1>11 DEF Leaving
  <2>3. Cardinality(Positions(n, bus'[p])) <= Cardinality(Positions(n, bus[p])) + Flag(relay)
    <3>1. CASE relay
      <4>1. bus'[p] = Append(bus[p], m)
        BY <1>8, <3>1
      <4> QED
        BY <1>5, <1>9, <3>1, <4>1, PositionsAppend DEF Flag
    <3>2. CASE ~relay
      BY <1>8, <1>9, <3>2 DEF Flag
    <3> QED
      BY <3>1, <3>2
  <2>4. /\ IsFiniteSet(Leaving(n, p)) /\ Cardinality(Leaving(n, p)) = 0
        /\ IsFiniteSet(Leaving(n, p)') /\ Cardinality(Leaving(n, p)') \in Nat
        /\ Cardinality(Leaving(n, p)') <= IF relay THEN Flag(p0 = p) ELSE 0
    <3>1. PICK w : w = Leaving(n, p)'
      OBVIOUS
    <3>2. w \subseteq {1} /\ (~relay \/ p0 # p => 1 \notin w)
      BY <2>2, <3>1
    <3>3. IsFiniteSet(w) /\ Cardinality(w) = Flag(1 \in w)
      BY <3>2, FlagCount
    <3>4. Flag(1 \in w) \in Nat /\ Flag(1 \in w) <= IF relay THEN Flag(p0 = p) ELSE 0
      BY <3>2 DEF Flag
    <3>5. IsFiniteSet(Leaving(n, p)) /\ Cardinality(Leaving(n, p)) = 0
      BY <2>2, FS_EmptySet, Zenon
    <3> QED
      BY <3>1, <3>3, <3>4, <3>5
  <2>5. PICK b1 : b1 = <<"bus", p>>
    OBVIOUS
  <2>6. /\ b1 \in Box(p) /\ Held(n, p)[b1] = Positions(n, bus[p])
        /\ Held(n, p)'[b1] = Positions(n, bus'[p])
    BY <2>5, HeldIs, HeldThen
  \* With Redis it is in the listener's channel and may be about to be put.
  <2>7. CASE relay \/ \A s \in Stream : Queued(n, p, s)' = Queued(n, p, s)
    <3>1. PICK b2 : b2 = <<"sending", p>>
      OBVIOUS
    <3>2. b1 # b2
      <4>1. b1[1] = "bus" /\ b2[1] = "sending"
        BY <2>5, <3>1
      <4> QED
        BY <4>1
    <3>3. b2 \in Box(p) /\ Held(n, p)[b2] = Leaving(n, p) /\ Held(n, p)'[b2] = Leaving(n, p)'
      BY <3>1, HeldIs, HeldThen
    <3>4. \A b \in Box(p) \ {b1, b2} : Held(n, p)'[b] = Held(n, p)[b]
      <4>1. <<"bus", p>> \in {b1, b2} /\ <<"sending", p>> \in {b1, b2}
        BY <2>5, <3>1
      <4>2. \A s \in Stream : Queued(n, p, s)' = Queued(n, p, s)
        BY <1>6, <2>7
      <4> QED
        BY <1>7, <4>1, <4>2, Elsewhere
    <3>5. /\ IsFiniteSet(Held(n, p)[b1]) /\ IsFiniteSet(Held(n, p)[b2])
          /\ IsFiniteSet(Held(n, p)'[b1]) /\ IsFiniteSet(Held(n, p)'[b2])
      BY <1>9, <2>4, <2>6, <3>3
    <3>6. MostCopies(n, p) + Cardinality(Held(n, p)'[b1]) + Cardinality(Held(n, p)'[b2])
            <= MostCopies(n, p)' + Cardinality(Held(n, p)[b1]) + Cardinality(Held(n, p)[b2])
      BY <1>9, <2>1, <2>3, <2>4, <2>6, <3>3 DEF Flag
    <3> QED
      BY <2>6, <3>2, <3>3, <3>4, <3>5, <3>6, Moved
  \* Without, it is put in one queue where it was published.
  <2>8. CASE ~(relay \/ \A s \in Stream : Queued(n, p, s)' = Queued(n, p, s))
    <3>1. ~relay /\ q \in Stream /\ p0 = p /\ \A s \in Stream : s # q => Queued(n, p, s)' = Queued(n, p, s)
      BY <1>3, <1>6, <2>8
    <3>2. PICK b2 : b2 = <<"queue", q>>
      OBVIOUS
    <3>3. b1 # b2
      <4>1. b1[1] = "bus" /\ b2[1] = "queue"
        BY <2>5, <3>2
      <4> QED
        BY <4>1
    <3>4. b2 \in Box(p) /\ Held(n, p)[b2] = Queued(n, p, q) /\ Held(n, p)'[b2] = Queued(n, p, q)'
      <4>1. q \in Stream
        BY <3>1
      <4>2. b2 \in Box(p) /\ Held(n, p)[b2] = Queued(n, p, q)
        BY <3>2, <4>1, HeldIs
      <4>3. Held(n, p)'[b2] = Queued(n, p, q)'
        BY <3>2, <4>1, HeldThen
      <4> QED
        BY <4>2, <4>3
    <3>5. \A b \in Box(p) \ {b1, b2} : Held(n, p)'[b] = Held(n, p)[b]
      <4>1. /\ <<"bus", p>> \in {b1, b2}
            /\ \A s \in Stream : <<"queue", s>> \in {b1, b2} \/ Queued(n, p, s)' = Queued(n, p, s)
        BY <2>5, <3>1, <3>2
      <4>2. Leaving(n, p)' = Leaving(n, p)
        BY <2>2, <3>1
      <4> QED
        BY <1>7, <4>1, <4>2, Elsewhere
    <3>6. /\ IsFiniteSet(Queued(n, p, q)) /\ IsFiniteSet(Queued(n, p, q)')
          /\ Cardinality(Queued(n, p, q)) \in Nat /\ Cardinality(Queued(n, p, q)') \in Nat
          /\ Cardinality(Queued(n, p, q)') <= Cardinality(Queued(n, p, q)) + 1
      BY <1>6, <3>1, HeldFinite
    <3>7. /\ IsFiniteSet(Held(n, p)[b1]) /\ IsFiniteSet(Held(n, p)[b2])
          /\ IsFiniteSet(Held(n, p)'[b1]) /\ IsFiniteSet(Held(n, p)'[b2])
      BY <1>9, <2>6, <3>4, <3>6
    <3>8. Flag(relay) = 0 /\ Flag(p0 = p) = 1
      BY <3>1 DEF Flag
    <3>9. MostCopies(n, p) + Cardinality(Held(n, p)'[b1]) + Cardinality(Held(n, p)'[b2])
            <= MostCopies(n, p)' + Cardinality(Held(n, p)[b1]) + Cardinality(Held(n, p)[b2])
      BY <1>9, <2>1, <2>3, <2>6, <3>4, <3>6, <3>8
    <3> QED
      BY <2>6, <3>3, <3>4, <3>5, <3>7, <3>9, Moved
  <2> QED
    BY <2>7, <2>8
<1> QED
  BY <1>10, <1>11

LEMMA CopyStep == HomeInv /\ CopyInv /\ [SseNext]_sseVars => CopyInv'
<1> SUFFICES ASSUME HomeInv, CopyInv, [SseNext]_sseVars,
                    NEW n \in Nat, NEW p \in Process
             PROVE  Bounded(n, p)'
  BY DEF CopyInv
<1>1. HomeInv' /\ Bounded(n, p)
  BY HomesStep DEF CopyInv
<1>2. CASE UNCHANGED sseVars
  <2>1. /\ \A s \in Stream : Queued(n, p, s)' = Queued(n, p, s) /\ Sent(n, p, s)' = Sent(n, p, s)
        /\ Waiting(n, p)' = Waiting(n, p) /\ Leaving(n, p)' = Leaving(n, p)
        /\ Positions(n, bus'[p]) = Positions(n, bus[p])
        /\ MostCopies(n, p)' = MostCopies(n, p)
    BY <1>2, AllowedIs DEF sseVars, Queued, Sent, Waiting, Leaving, Positions
  <2> QED
    BY <1>1, <2>1, Shrunk
<1>3. CASE Carry
  BY <1>1, <1>3, YieldCopies, PutLocallyCopies, ListenCopies, ResumeCopies DEF Carry
<1>4. CASE Come
  BY <1>1, <1>4, ConnectCopies DEF Come
<1>5. CASE Go \/ Restart
  BY <1>1, <1>5, LeaveCopies
<1>6. CASE \E p0 \in Process, u \in User : Publish(p0, u)
  BY <1>1, <1>6, PublishCopies
<1> QED
  BY <1>2, <1>3, <1>4, <1>5, <1>6 DEF SseNext

LEMMA CopyIs ==
  ASSUME NEW n, NEW p, NEW x \in Copies(n, p)
  PROVE  \/ \E s \in Stream : stream[s].process = p /\ x \in CopiesAt(n, s)
         \/ x = <<<<"listener", p>>, 1>> /\ listener[p] # None /\ listener[p].event = n
<1>1. x \in CopyWaiting(n, p)
        \/ x \in UNION {CopiesAt(n, s) : s \in {r \in Stream : stream[r].process = p}}
  BY DEF Copies
<1>2. CASE x \in CopyWaiting(n, p)
  BY <1>2 DEF CopyWaiting
<1>3. CASE x \in UNION {CopiesAt(n, s) : s \in {r \in Stream : stream[r].process = p}}
  BY <1>3
<1> QED
  BY <1>1, <1>2, <1>3

(* However many streams, processes and events, and queues of any size: a    *)
(* process holds and shows an event once for the publication there and once *)
(* for Redis, and only to the user it is for.                               *)
THEOREM EventsNotMultiplied == SseSpec => []CopiesBounded
<1>1. SseInit => CopyInv
  <2> SUFFICES ASSUME SseInit, NEW n \in Nat, NEW p \in Process PROVE Bounded(n, p)
    BY DEF CopyInv
  <2>1. /\ \A s \in Stream : Queued(n, p, s) = {} /\ Sent(n, p, s) = {}
        /\ Waiting(n, p) = {} /\ Leaving(n, p) = {} /\ Positions(n, bus[p]) = {}
    BY DEF SseInit, Queued, Sent, Waiting, Leaving, Positions
  <2>2. \A b \in Box(p) : Held(n, p)[b] = {}
    BY <2>1 DEF Held, Box
  <2>3. Items(Held(n, p)) = {}
    <3>1. PICK held : held = Held(n, p)
      OBVIOUS
    <3>2. \A b \in DOMAIN held : held[b] = {}
      BY <2>2, <3>1, HeldIs
    <3>3. Items(held) = {}
      BY <3>2 DEF Items
    <3> QED
      BY <3>1, <3>3
  <2>4. IsFiniteSet(Items(Held(n, p))) /\ Cardinality(Items(Held(n, p))) = 0
    BY <2>3, FS_EmptySet, Zenon
  <2> QED
    BY <2>4, AllowedIs DEF Bounded
<1>2. HomeInv /\ CopyInv => CopiesBounded
  <2> SUFFICES ASSUME HomeInv, CopyInv, NEW n \in DOMAIN published, NEW p \in Process
               PROVE  /\ Cardinality(Copies(n, p)) <= (IF relay THEN 1 ELSE 0)
                                                        + (IF published[n].at = p THEN 1 ELSE 0)
                      /\ \A s \in Stream : Positions(n, seen[s]) # {} => stream[s].user = published[n].to
    BY DEF CopiesBounded
  <2>1. n \in Nat
    BY DEF HomeInv, SseTypeOK
  <2>2. PICK held : held = Held(n, p)
    OBVIOUS
  <2>3. /\ IsFiniteSet(Items(held))
        /\ Cardinality(Items(held)) <= (IF relay THEN 1 ELSE 0) + (IF published[n].at = p THEN 1 ELSE 0)
    BY <2>1, <2>2 DEF CopyInv, Bounded, MostCopies, Flag
  <2>4. Copies(n, p) \in SUBSET Items(held)
    <3> SUFFICES ASSUME NEW x \in Copies(n, p) PROVE x \in Items(held)
      OBVIOUS
    <3>1. CASE x = <<<<"listener", p>>, 1>> /\ listener[p] # None /\ listener[p].event = n
      <4>1. 1 \in Waiting(n, p)
        BY <3>1 DEF Waiting
      <4>2. <<"listener", p>> \in DOMAIN held /\ 1 \in held[<<"listener", p>>]
        BY <2>2, <4>1, HeldIs
      <4> QED
        BY <3>1, <4>2 DEF Items
    <3>2. CASE \E s \in Stream : stream[s].process = p /\ x \in CopiesAt(n, s)
      <4>1. PICK s \in Stream : stream[s].process = p /\ x \in CopiesAt(n, s)
        BY <3>2
      <4>2. PICK b1 : b1 = <<"queue", s>>
        OBVIOUS
      <4>3. PICK b2 : b2 = <<"seen", s>>
        OBVIOUS
      <4>4. Held(n, p)[b1] = Positions(n, inbox[s]) /\ Held(n, p)[b2] = Positions(n, seen[s])
        <5>1. Held(n, p)[b1] = Queued(n, p, s) /\ Held(n, p)[b2] = Sent(n, p, s)
          BY <4>2, <4>3, HeldIs
        <5> QED
          BY <4>1, <5>1 DEF Queued, Sent
      <4>5. b1 \in DOMAIN held /\ b2 \in DOMAIN held
        BY <2>2, <4>2, <4>3, HeldIs
      <4>6. x \in ({b1} \X held[b1]) \cup ({b2} \X held[b2])
        BY <2>2, <4>1, <4>2, <4>3, <4>4 DEF CopiesAt
      <4> QED
        BY <4>5, <4>6 DEF Items
    <3> QED
      BY <3>1, <3>2, CopyIs
  <2>5. Cardinality(Copies(n, p)) <= Cardinality(Items(held)) /\ IsFiniteSet(Copies(n, p))
    BY <2>3, <2>4, FS_Subset
  <2>6. Cardinality(Items(held)) \in Nat /\ Cardinality(Copies(n, p)) \in Nat
    BY <2>3, <2>5, FS_CardinalityType
  <2>7. \A s \in Stream : Positions(n, seen[s]) # {} => stream[s].user = published[n].to
    BY DEF HomeInv, Addressed, ForUser, Positions
  <2>8. Cardinality(Copies(n, p)) <= (IF relay THEN 1 ELSE 0) + (IF published[n].at = p THEN 1 ELSE 0)
    BY <2>3, <2>5, <2>6
  <2> QED
    BY <2>7, <2>8
<1> QED
  BY HomesStart, HomesStep, CopyStep, <1>1, <1>2, PTL DEF SseSpec
=============================================================================
