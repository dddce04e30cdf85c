--------------------------- MODULE ServicesProofs ---------------------------
(***************************************************************************)
(* The type invariant of the specification the runs of the services use,   *)
(* from those of its parts.  A behaviour of it runs one part; the lemmas   *)
(* say no more than that it is one of that part's own specification, and   *)
(* one in which every other part stands still.                             *)
(***************************************************************************)
EXTENDS MCServices, UserProofs, DeliveryProofs, SearchProofs

-----------------------------------------------------------------------------
LEMMA PartsStart ==
  ServicesInit => /\ SseInit /\ NoticeInit /\ XpInit /\ AccountInit /\ CommentInit
                  /\ RatingInit /\ EffectInit
  BY DEF ServicesInit

\* A step is one of one part, and leaves the variables of all others.
LEMMA OnePartSteps ==
  ASSUME [ServicesNext]_allVars
  PROVE  /\ [XpNext]_xpVars
         /\ [AccountNext]_accountVars
         /\ [CommentNext]_commentVars
         /\ [RatingNext]_ratingVars
         /\ [EffectNext]_effectVars
         /\ SseNext \/ NoticeNext \/ UNCHANGED sseVars
         /\ NoticeNext \/ UNCHANGED noticeVars
  BY DEF ServicesNext, Streams, Notices, Awards, People, Talk, Votes, Search, allVars

\* Among the streams, a request that notifies is a publication.
LEMMA NoticesPublish ==
  ASSUME NoticeInv, NoticeNext
  PROVE  [SseNext]_sseVars
<1>1. ASSUME NEW i \in DOMAIN notice, SendNotification(i) PROVE SseNext
  <2>1. notice[i] \in NoticeRow
    BY DEF NoticeInv
  <2>2. notice[i].to \in User
    BY <2>1 DEF NoticeRow
  <2> QED
    BY <1>1, <2>2 DEF SendNotification, SseNext
<1>2. ASSUME NEW u, NEW v, Notify(u, v) PROVE UNCHANGED sseVars
  BY <1>2 DEF Notify, NotifyGroupInvite, NotifyGroupJoinRequest, NotifyTaskInvite, NotifyComment,
              NotifyMention, NotifyFollow, NotifyRating, NotifyGroupJoin, NotifyJoinRequestCreated,
              NotifyJoinRequestApproved, NotifyJoinRequestRejected, CreateNotification
<1>3. ASSUME NEW u, NoticeRequest(u) \/ NotifyLevelUp(u) PROVE UNCHANGED sseVars
  BY <1>3 DEF NotifyLevelUp, NoticeRequest, GetMyNotification, MarkAsRead, MarkRead,
              RespondToNotification, GetNotification, MarkAllAsRead, GetNotifications,
              GetMyNotifications, GetUnreadCount
<1>4. ASSUME NEW i \in DOMAIN notice, IndexNotice(i) PROVE UNCHANGED sseVars
  BY <1>4 DEF IndexNotice
<1> QED
  BY <1>1, <1>2, <1>3, <1>4 DEF NoticeNext

\* The rows of notifications are as they should be beside all other parts.
LEMMA RowsStep ==
  NoticeInv /\ [ServicesNext]_allVars => NoticeInv' /\ [ReadKept]_noticeVars /\ [SseNext]_sseVars
<1> SUFFICES ASSUME NoticeInv, [ServicesNext]_allVars
             PROVE  NoticeInv' /\ [ReadKept]_noticeVars /\ [SseNext]_sseVars
  OBVIOUS
<1>1. CASE NoticeNext
  BY <1>1, NoticeStep, NoticesPublish
<1>2. CASE UNCHANGED noticeVars /\ [SseNext]_sseVars
  BY <1>2 DEF noticeVars, NoticeInv, WaitingIsAnswerable
<1> QED
  BY <1>1, <1>2, OnePartSteps

\* The part that runs behaves as its own specification says, the others rest;
\* what notifications publish is a step of the delivery.
LEMMA PartsKeepTheirSpecs ==
  ServicesSpec => /\ XpSpec /\ AccountSpec /\ CommentSpec /\ RatingSpec /\ EffectSpec
                  /\ SseSpec /\ []NoticeInv /\ ReadStaysRead
<1>1. ServicesInit => NoticeInv
  BY PartsStart, NoticesStart
<1>2. [ServicesNext]_allVars =>
        /\ [XpNext]_xpVars /\ [AccountNext]_accountVars /\ [CommentNext]_commentVars
        /\ [RatingNext]_ratingVars /\ [EffectNext]_effectVars
  BY OnePartSteps
<1> QED
  BY PartsStart, <1>1, <1>2, RowsStep, PTL
     DEF ServicesSpec, XpSpec, AccountSpec, CommentSpec, RatingSpec, EffectSpec, SseSpec,
         ReadStaysRead, ReadKept

-----------------------------------------------------------------------------
\* Where events are published by notifications only.
ByNotices == part # "streams"

\* In a behaviour of another part but the streams, notifications and their
\* delivery go on as NoticeSpec says.
LEMMA NoticesApart == ServicesSpec /\ ByNotices => NoticeSpec
<1>1. ByNotices /\ [ServicesNext]_allVars => ByNotices' /\ [NoticeNext]_<<noticeVars, sseVars>>
  BY DEF ByNotices, ServicesNext, Streams, Notices, Awards, People, Talk, Votes, Search, allVars
<1> QED
  BY PartsStart, <1>1, PTL DEF ServicesSpec, NoticeSpec

\* Where events are published by anybody, no notification is created or changed.
LEMMA NoticesRest == ServicesSpec /\ ~ByNotices => []NoticeTypeOK
<1>1. ~ByNotices /\ [ServicesNext]_allVars => ~ByNotices' /\ UNCHANGED noticeVars
  BY DEF ByNotices, ServicesNext, Streams, Notices, Awards, People, Talk, Votes, Search, allVars
<1>2. NoticeTypeOK /\ UNCHANGED noticeVars => NoticeTypeOK'
  BY DEF noticeVars, NoticeTypeOK
<1>3. ServicesInit => NoticeTypeOK
  BY PartsStart, NoticeTypesStart DEF NoticeTypesInv, NoticeInv, TellInv, AnswerOK, AnswerRow, NoticeTypeOK
<1> QED
  BY <1>1, <1>2, <1>3, PTL DEF ServicesSpec

(* Whichever part runs, the variables of the services keep their types, for *)
(* any number of users, processes, streams and requests and any bounds.     *)
THEOREM ServicesTypes == ServicesSpec => []ServicesTypeOK
<1>1. ServicesSpec => []NoticeTypeOK
  BY NoticesApart, NoticesRest, NoticeTypes, PTL
<1>2. SseTypeOK /\ NoticeTypeOK /\ XpTypeOK /\ AccountTypeOK /\ CommentTypeOK /\ RatingTypeOK /\ EffectTypeOK
        => ServicesTypeOK
  BY DEF ServicesTypeOK
<1> QED
  BY <1>1, <1>2, PartsKeepTheirSpecs, StreamTypes, PointTypes, AccountTypes, CommentTypes, RatingTypes,
     SearchTypes, PTL
=============================================================================
