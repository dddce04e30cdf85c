--------------------------- MODULE Notifications ---------------------------
(***************************************************************************)
(* The notifications of a user: service/notification.py, its transaction,  *)
(* repository and endpoints.  Creating one is three steps of one request:  *)
(* the row is committed, the document is indexed, the event is published;  *)
(* the request may stop at each.  Reading and answering are one short      *)
(* transaction each and are taken whole.                                   *)
(***************************************************************************)
EXTENDS SseDelivery

CONSTANTS MaxNotices,  \* bound: notifications created
          PageLimit    \* default limit of a listing, 50 in the code

ASSUME NoticeAssumption == /\ MaxNotices \in Nat
                           /\ PageLimit \in Nat \ {0}

VARIABLES
  notice,      \* the rows of table notifications, by id
  progress,    \* how far the request that created each one has come
  noticeDoc,   \* the notifications that have a document in the index
  answer       \* what the read or the failed request just made was answered, or None

noticeVars == <<notice, progress, noticeDoc, answer>>

-----------------------------------------------------------------------------
\* INFO stands for the kinds that ask for nothing: COMMENT, MENTION, FOLLOW, RATING.
Kind == {"GROUP_INVITE", "GROUP_JOIN", "TASK_INVITE", "INFO"}
Response == {"ACCEPT", "REFUSAL", "WAITING"}
NoticeStatus == {"READ", "UNREAD"}

NoticeRow == [to : User, kind : Kind, response : Response, status : NoticeStatus]

\* _build_query and find_many without a limit.
NoticesOf(u, statuses) == {i \in DOMAIN notice : notice[i].to = u /\ notice[i].status \in statuses}

\* Mutant: every kind starts unanswered.
AlwaysWaiting(kind) == "WAITING"

\* What a new notification waits for.
InitialResponse(kind) == IF kind \in {"GROUP_JOIN", "TASK_INVITE"} THEN "WAITING" ELSE "ACCEPT"

\* What respond_to_notification takes an answer to.
Actionable == {"GROUP_INVITE", "GROUP_JOIN", "TASK_INVITE"}

-----------------------------------------------------------------------------
\* create_notification, up to the commit.
CreateNotification(sender, recipient, kind) ==
  /\ Len(notice) < MaxNotices
  /\ sender \in User
  /\ notice' = Append(notice, [to |-> recipient, kind |-> kind,
                               response |-> InitialResponse(kind), status |-> "UNREAD"])
  /\ progress' = Append(progress, "stored")
  /\ answer' = None
  /\ UNCHANGED <<noticeDoc, sseVars>>

NotifyGroupInvite(inviter, invitee) == CreateNotification(inviter, invitee, "GROUP_INVITE")
NotifyGroupJoinRequest(requester, admin) == CreateNotification(requester, admin, "GROUP_JOIN")
NotifyTaskInvite(inviter, invitee) == CreateNotification(inviter, invitee, "TASK_INVITE")
NotifyComment(commenter, recipient) == CreateNotification(commenter, recipient, "INFO")
NotifyMention(mentioner, mentioned) == CreateNotification(mentioner, mentioned, "INFO")
NotifyFollow(follower, following) == CreateNotification(follower, following, "INFO")
NotifyRating(rater, recipient) == CreateNotification(rater, recipient, "INFO")
NotifyGroupJoin(requester, user) == CreateNotification(requester, user, "GROUP_JOIN")
NotifyJoinRequestCreated(requester, admin) == CreateNotification(requester, admin, "GROUP_JOIN")
NotifyJoinRequestApproved(admin, user) == CreateNotification(admin, user, "GROUP_JOIN")
NotifyJoinRequestRejected(admin, user) == CreateNotification(admin, user, "GROUP_JOIN")

\* notify_level_up: the sender, id 0, is no row of users; the insert fails.
NotifyLevelUp(user) ==
  /\ answer' = [of |-> user, op |-> "error", count |-> 0]
  /\ UNCHANGED <<notice, progress, noticeDoc, sseVars>>

\* Indexer.index after the commit: the document is written, or the request
\* ends with the error of Elasticsearch.
IndexNotice(i) ==
  /\ progress[i] = "stored"
  /\ \/ /\ noticeDoc' = noticeDoc \cup {i}
        /\ progress' = [progress EXCEPT ![i] = "indexed"]
     \/ /\ progress' = [progress EXCEPT ![i] = "failed"]
        /\ UNCHANGED noticeDoc
  /\ answer' = None
  /\ UNCHANGED <<notice, sseVars>>

\* Mutant: the event goes out before the document is written.
SendAtOnce(i) ==
  /\ progress[i] = "stored"
  /\ progress' = [progress EXCEPT ![i] = "sent"]
  /\ \E p \in Process : Publish(p, notice[i].to)
  /\ answer' = None
  /\ UNCHANGED <<notice, noticeDoc>>

\* SSEService.send_notification: the same event type whatever it is asked for.
SendNotification(i) ==
  /\ progress[i] = "indexed"
  /\ progress' = [progress EXCEPT ![i] = "sent"]
  /\ \E p \in Process : Publish(p, notice[i].to)
  /\ answer' = None
  /\ UNCHANGED <<notice, noticeDoc>>

-----------------------------------------------------------------------------
\* get_my_notification and mark_as_read: a row of the caller's becomes READ.
MarkRead(u, i) ==
  /\ notice[i].to = u
  /\ notice' = [notice EXCEPT ![i].status = "READ"]
  /\ answer' = None
  /\ UNCHANGED <<progress, noticeDoc, sseVars>>

GetMyNotification(u, i) == MarkRead(u, i)
MarkAsRead(u, i) == MarkRead(u, i)

\* Mutant: the answer is stored and the status forgotten.
RespondUnread(u, i, response) ==
  /\ notice[i].to = u
  /\ notice[i].kind \in Actionable
  /\ notice' = [notice EXCEPT ![i].response = response]
  /\ answer' = None
  /\ UNCHANGED <<progress, noticeDoc, sseVars>>

\* An earlier answer is written over, and WAITING is an answer as well.
RespondToNotification(u, i, response) ==
  /\ notice[i].to = u
  /\ notice[i].kind \in Actionable
  /\ notice' = [notice EXCEPT ![i].response = response, ![i].status = "READ"]
  /\ answer' = None
  /\ UNCHANGED <<progress, noticeDoc, sseVars>>

\* mark_all_unread_as_read runs on the session of the request, which
\* get_session closes without a commit: the rows stay as they were.
MarkAllAsRead(u) ==
  /\ answer' = [of |-> u, op |-> "read-all", count |-> Cardinality(NoticesOf(u, {"UNREAD"}))]
  /\ UNCHANGED <<notice, progress, noticeDoc, sseVars>>

\* find_many with a limit and no order: any rows, as many as there are up to it.
PageSize(ids) == Min({PageLimit, Cardinality(ids)})

\* get_notifications with the default limit; the offset only takes rows away.
GetNotifications(u, statuses) ==
  /\ answer' = [of |-> u, op |-> "list", count |-> PageSize(NoticesOf(u, statuses))]
  /\ UNCHANGED <<notice, progress, noticeDoc, sseVars>>

\* get_my_notifications, without a limit.
GetMyNotifications(u) ==
  /\ answer' = [of |-> u, op |-> "list", count |-> Cardinality(NoticesOf(u, NoticeStatus))]
  /\ UNCHANGED <<notice, progress, noticeDoc, sseVars>>

\* get_notification reads one and leaves its status.
GetNotification(u, i) ==
  /\ notice[i].to = u
  /\ answer' = [of |-> u, op |-> "list", count |-> 1]
  /\ UNCHANGED <<notice, progress, noticeDoc, sseVars>>

\* The endpoint counts the rows of one page.
GetUnreadCount(u) ==
  /\ answer' = [of |-> u, op |-> "count", count |-> PageSize(NoticesOf(u, {"UNREAD"}))]
  /\ UNCHANGED <<notice, progress, noticeDoc, sseVars>>

-----------------------------------------------------------------------------
NoticeInit ==
  /\ notice = <<>>
  /\ progress = <<>>
  /\ noticeDoc = {}
  /\ answer = None

Notify(u, v) ==
  \/ NotifyGroupInvite(u, v)
  \/ NotifyGroupJoinRequest(u, v)
  \/ NotifyTaskInvite(u, v)
  \/ NotifyComment(u, v)
  \/ NotifyMention(u, v)
  \/ NotifyFollow(u, v)
  \/ NotifyRating(u, v)
  \/ NotifyGroupJoin(u, v)
  \/ NotifyJoinRequestCreated(u, v)
  \/ NotifyJoinRequestApproved(u, v)
  \/ NotifyJoinRequestRejected(u, v)

NoticeRequest(u) ==
  \/ \E i \in DOMAIN notice : \/ GetMyNotification(u, i)
                              \/ GetNotification(u, i)
                              \/ MarkAsRead(u, i)
                              \/ \E r \in Response : RespondToNotification(u, i, r)
  \/ MarkAllAsRead(u)
  \/ GetNotifications(u, NoticeStatus)
  \/ GetMyNotifications(u)
  \/ GetUnreadCount(u)

NoticeNext ==
  \/ \E u, v \in User : Notify(u, v)
  \/ \E u \in User : NoticeRequest(u) \/ NotifyLevelUp(u)
  \/ \E i \in DOMAIN notice : IndexNotice(i) \/ SendNotification(i)

NoticeSpec == SseInit /\ NoticeInit /\ [][NoticeNext]_<<noticeVars, sseVars>>

-----------------------------------------------------------------------------
NoticeTypeOK ==
  /\ notice \in Seq(NoticeRow) /\ Len(notice) <= MaxNotices
  /\ progress \in [DOMAIN notice -> {"stored", "indexed", "sent", "failed"}]
  /\ noticeDoc \in SUBSET DOMAIN notice
  /\ answer = None \/ answer \in [of : User, op : {"list", "count", "read-all", "error"},
                                    count : 0..MaxNotices]

(* No event is sent for a notification that is not stored and indexed, and  *)
(* none twice: an event tells of a row, though a row may be left without    *)
(* its event (create_notification).                                         *)
EventsTellRows ==
  \A u \in User :
    LET told == {n \in DOMAIN published : published[n].to = u}
        ready == NoticesOf(u, NoticeStatus) \cap noticeDoc
    IN Cardinality(told) <= Cardinality(ready)

(* Nothing waits for an answer that respond_to_notification would refuse to *)
(* take: the kinds created WAITING are among those it accepts.              *)
WaitingIsAnswerable ==
  \A i \in DOMAIN notice : notice[i].response = "WAITING" => notice[i].kind \in Actionable

(* What a user has read or answered is not unread again, and what was       *)
(* answered has been read, whichever of the calls comes in between.         *)
ReadStaysRead ==
  [][\A i \in DOMAIN notice :
       /\ notice[i].status = "READ" => notice'[i].status = "READ"
       /\ notice'[i].response # notice[i].response => notice'[i].status = "READ"]_noticeVars
=============================================================================
