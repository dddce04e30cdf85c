----------------------------- MODULE UserProofs -----------------------------
(***************************************************************************)
(* Proofs about what users are, leave and earn, for any number of requests *)
(* side by side: threads of comments stay whole and each user votes once;  *)
(* a user has one row of points per sphere, the level of any amount of     *)
(* points fits the table and the points for a task are fair; no two        *)
(* accounts are mistaken for each other and a deleted one stays deleted.   *)
(***************************************************************************)
EXTENDS Comments, Ratings, Experience, Accounts, FiniteSetTheorems, TLAPS

\* Two rows at the same place of the same thread.
SameThread(x, y) == x.task = y.task /\ x.parent = y.parent

\* RepliesHaveParents of given rows.
Whole(rows) ==
  \A i \in DOMAIN rows :
    rows[i] # None /\ rows[i].parent # None =>
      /\ rows[i].parent \in DOMAIN rows
      /\ rows[rows[i].parent] # None
      /\ rows[rows[i].parent].task = rows[i].task

\* What a request read still holds of the rows, unless they are gone.
CallFits(x, rows) ==
  /\ x.at = "insert" =>
       /\ x.row \in CommentRow
       /\ x.row.parent # None =>
            /\ x.row.parent \in DOMAIN rows
            /\ rows[x.row.parent] # None => rows[x.row.parent].task = x.row.task
  /\ x.at = "update" =>
       /\ x.row \in CommentRow /\ x.id \in DOMAIN rows
       /\ rows[x.id] # None => SameThread(rows[x.id], x.row)
  /\ x.at = "delete" => x.id \in DOMAIN rows

CommentInv ==
  /\ comment \in Seq(CommentRow \cup {None}) /\ Len(comment) <= MaxComments
  /\ DOMAIN writing = Writer
  /\ Whole(comment)
  /\ \A w \in Writer : CallFits(writing[w], comment)

\* What a commit does to the rows that were there.
Evolves(rows, later) ==
  /\ DOMAIN rows \subseteq DOMAIN later
  /\ \A i \in DOMAIN rows :
       later[i] # None => rows[i] # None /\ SameThread(rows[i], later[i])

LEMMA CallStillFits ==
  ASSUME NEW x, NEW rows, NEW later, CallFits(x, rows), Evolves(rows, later)
  PROVE  CallFits(x, later)
  BY DEF CallFits, Evolves, SameThread

LEMMA CommentsStart == CommentInit => CommentInv
  BY CommentAssumption DEF CommentInit, CommentInv, Whole, CallFits, NoWriting

-----------------------------------------------------------------------------
\* A request begins with what it has read.
LEMMA BeginKeeps ==
  ASSUME CommentInv, NEW w \in Writer, NEW call, CallFits(call, comment), Begin(w, call)
  PROVE  CommentInv'
<1>1. comment' = comment /\ writing' = [writing EXCEPT ![w] = call] /\ DOMAIN writing = Writer
  BY DEF Begin, CommentInv
<1>2. \A v \in Writer : writing'[v] = writing[v] \/ writing'[v] = call
  BY <1>1
<1>3. \A v \in Writer : CallFits(writing'[v], comment)
  BY <1>2 DEF CommentInv
<1> QED
  BY <1>1, <1>3 DEF CommentInv

\* A request commits rows that go on from those it found.
LEMMA CommitKeeps ==
  ASSUME CommentInv, NEW w \in Writer, NEW rows, NEW next,
         rows \in Seq(CommentRow \cup {None}), Len(rows) <= MaxComments,
         Whole(rows), Evolves(comment, rows),
         next.at \in {"idle", "index", "unindex"}, Commit(w, rows, next)
  PROVE  CommentInv'
<1>1. comment' = rows /\ writing' = [writing EXCEPT ![w] = next] /\ DOMAIN writing = Writer
  BY DEF Commit, CommentInv
<1>2. \A v \in Writer : writing'[v] = writing[v] \/ writing'[v] = next
  BY <1>1
<1>3. CallFits(next, rows)
  BY DEF CallFits
<1>4. \A v \in Writer : CallFits(writing'[v], rows)
  BY <1>2, <1>3, CallStillFits DEF CommentInv
<1> QED
  BY <1>1, <1>4 DEF CommentInv

LEMMA RefuseKeeps ==
  ASSUME CommentInv, NEW w \in Writer, Refuse(w)
  PROVE  CommentInv'
<1>1. Evolves(comment, comment)
  BY DEF Evolves, SameThread
<1> QED
  BY <1>1, CommitKeeps DEF Refuse, NoWriting, CommentInv

-----------------------------------------------------------------------------
\* The insert of a reply finds its parent, or there is no insert.
LEMMA InsertKeeps ==
  ASSUME CommentInv, NEW w \in Writer, InsertComment(w)
  PROVE  CommentInv'
<1> DEFINE row == writing[w].row
           rows == Append(comment, row)
           next == [at |-> "index", id |-> Len(comment) + 1, row |-> row]
<1>1. CASE row.parent = None \/ row.parent \in Present
  <2>1. CallFits(writing[w], comment) /\ writing[w].at = "insert"
    BY DEF CommentInv, InsertComment
  <2>2. row \in CommentRow /\ comment \in Seq(CommentRow \cup {None})
    BY <2>1 DEF CallFits, CommentInv
  <2>3. row.parent # None => /\ row.parent \in DOMAIN comment
                             /\ comment[row.parent] # None
                             /\ comment[row.parent].task = row.task
    BY <1>1, <2>1 DEF CallFits, Present
  <2>4. Commit(w, rows, next)
    BY <1>1 DEF InsertComment
  <2> HIDE DEF row
  <2>5. /\ rows \in Seq(CommentRow \cup {None}) /\ Len(rows) = Len(comment) + 1
        /\ DOMAIN rows = DOMAIN comment \cup {Len(comment) + 1}
        /\ Len(comment) + 1 \notin DOMAIN comment
        /\ \A i \in DOMAIN comment : rows[i] = comment[i]
        /\ rows[Len(comment) + 1] = row
    BY <2>2
  <2> HIDE DEF rows
  <2>6. Whole(rows)
    BY <2>3, <2>5 DEF Whole, CommentInv
  <2>7. Evolves(comment, rows)
    BY <2>5 DEF Evolves, SameThread
  <2>8. next.at = "index" /\ Len(comment) + 1 <= MaxComments
    BY CommentAssumption DEF InsertComment
  <2> HIDE DEF next
  <2> QED
    BY <2>4, <2>5, <2>6, <2>7, <2>8, CommitKeeps
<1>2. CASE ~(row.parent = None \/ row.parent \in Present)
  BY <1>2, RefuseKeeps DEF InsertComment
<1> QED
  BY <1>1, <1>2

\* One row is replaced by a row at the same place, or by none that has replies.
LEMMA ReplaceKeeps ==
  ASSUME CommentInv, NEW i \in DOMAIN comment, NEW row \in CommentRow \cup {None},
         row # None => comment[i] # None /\ SameThread(comment[i], row),
         row = None => Replies(i) = {}
  PROVE  LET rows == [comment EXCEPT ![i] = row] IN
           /\ rows \in Seq(CommentRow \cup {None}) /\ Len(rows) = Len(comment)
           /\ Whole(rows) /\ Evolves(comment, rows)
<1> DEFINE rows == [comment EXCEPT ![i] = row]
<1>1. comment \in Seq(CommentRow \cup {None})
  BY DEF CommentInv
<1>2. /\ rows \in Seq(CommentRow \cup {None}) /\ Len(rows) = Len(comment)
      /\ DOMAIN rows = DOMAIN comment
      /\ rows[i] = row
      /\ \A j \in DOMAIN comment \ {i} : rows[j] = comment[j]
  BY <1>1
<1> HIDE DEF rows
<1>3. Evolves(comment, rows)
  BY <1>2 DEF Evolves, SameThread
<1>4. ASSUME NEW j \in DOMAIN rows, rows[j] # None, rows[j].parent # None
      PROVE  /\ rows[j].parent \in DOMAIN rows
             /\ rows[rows[j].parent] # None
             /\ rows[rows[j].parent].task = rows[j].task
  <2>1. comment[j] # None /\ SameThread(comment[j], rows[j])
    BY <1>2, <1>3, <1>4 DEF Evolves
  <2> DEFINE p == comment[j].parent
  <2>2. p \in DOMAIN comment /\ comment[p] # None /\ comment[p].task = comment[j].task
    BY <1>2, <1>4, <2>1 DEF CommentInv, Whole, SameThread
  <2>3. p = i => row # None
    BY <1>2, <2>1 DEF Replies, Present
  <2> QED
    BY <1>2, <2>1, <2>2, <2>3 DEF SameThread
<1>5. Whole(rows)
  BY <1>4 DEF Whole
<1> QED
  BY <1>2, <1>3, <1>5 DEF rows

LEMMA UpdateKeeps ==
  ASSUME CommentInv, NEW w \in Writer, CommitCommentUpdate(w)
  PROVE  CommentInv'
<1> DEFINE i == writing[w].id
           row == writing[w].row
           next == [at |-> "index", id |-> i, row |-> row]
<1>1. CASE i \in Present
  <2>1. CallFits(writing[w], comment) /\ writing[w].at = "update"
    BY DEF CommentInv, CommitCommentUpdate
  <2>2. i \in DOMAIN comment /\ comment[i] # None /\ row \in CommentRow /\ SameThread(comment[i], row)
    BY <1>1, <2>1 DEF CallFits, Present
  <2>3. Commit(w, [comment EXCEPT ![i] = row], next)
    BY <1>1 DEF CommitCommentUpdate
  <2>4. next.at = "index" /\ row # None
    BY <2>2, NoRowAssumption
  <2> HIDE DEF next, row, i
  <2> QED
    BY <2>2, <2>3, <2>4, ReplaceKeeps, CommitKeeps DEF CommentInv
<1>2. CASE i \notin Present
  BY <1>2, RefuseKeeps DEF CommitCommentUpdate
<1> QED
  BY <1>1, <1>2

LEMMA DeleteKeeps ==
  ASSUME CommentInv, NEW w \in Writer, CommitCommentDelete(w)
  PROVE  CommentInv'
<1> DEFINE i == writing[w].id
           next == [at |-> "unindex", id |-> i]
<1>1. CASE Replies(i) = {}
  <2>1. i \in DOMAIN comment
    BY DEF CommentInv, CallFits, CommitCommentDelete
  <2>2. Commit(w, [comment EXCEPT ![i] = None], next)
    BY <1>1 DEF CommitCommentDelete
  <2>3. next.at = "unindex"
    OBVIOUS
  <2> HIDE DEF next, i
  <2> QED
    BY <1>1, <2>1, <2>2, <2>3, ReplaceKeeps, CommitKeeps DEF CommentInv
<1>2. CASE Replies(i) # {}
  BY <1>2, RefuseKeeps DEF CommitCommentDelete
<1> QED
  BY <1>1, <1>2

LEMMA RequestsKeep ==
  ASSUME CommentInv, NEW w \in Writer, NEW u \in User, CommentRequest(w, u)
  PROVE  CommentInv'
<1>1. ASSUME NEW t \in Board, NEW p \in DOMAIN comment \cup {None}, NEW c \in Content,
             CreateComment(w, u, t, p, c)
      PROVE  CommentInv'
  <2> DEFINE row == [task |-> t, author |-> u, parent |-> p, content |-> c]
             call == [at |-> "insert", row |-> row]
  <2>1. p # None => p \in Present /\ comment[p].task = t
    BY <1>1 DEF CreateComment
  <2>2. p \in CommentId \cup {None}
    BY CommentAssumption DEF CommentInv, CommentId
  <2>3. row \in CommentRow
    BY <2>2 DEF CommentRow
  <2>4. CallFits(call, comment)
    BY <2>1, <2>3 DEF CallFits, Present
  <2> QED
    BY <1>1, <2>4, BeginKeeps DEF CreateComment
<1>2. ASSUME NEW i \in DOMAIN comment, DeleteComment(w, u, i)
      PROVE  CommentInv'
  BY <1>2, BeginKeeps DEF DeleteComment, CallFits
<1>3. ASSUME NEW i \in DOMAIN comment, NEW c \in Content, UpdateComment(w, u, i, c)
      PROVE  CommentInv'
  <2> DEFINE row == [comment[i] EXCEPT !.content = c]
             call == [at |-> "update", id |-> i, row |-> row]
  <2>1. comment[i] \in CommentRow
    BY <1>3 DEF UpdateComment, Present, CommentInv
  <2>2. row \in CommentRow /\ SameThread(comment[i], row)
    BY <2>1 DEF CommentRow, SameThread
  <2>3. CallFits(call, comment)
    BY <2>2 DEF CallFits
  <2> QED
    BY <1>3, <2>3, BeginKeeps DEF UpdateComment
<1> QED
  BY <1>1, <1>2, <1>3 DEF CommentRequest

LEMMA CommentStep == CommentInv /\ [CommentNext]_commentVars => CommentInv'
<1> SUFFICES ASSUME CommentInv, [CommentNext]_commentVars PROVE CommentInv'
  OBVIOUS
<1>1. ASSUME UNCHANGED comment, DOMAIN writing' = Writer,
             \A w \in Writer : writing'[w] = writing[w] \/ writing'[w] = NoWriting
      PROVE  CommentInv'
  BY <1>1 DEF CommentInv, CallFits, NoWriting
<1>2. ASSUME NEW w \in Writer, IndexComment(w) \/ UnindexComment(w) PROVE CommentInv'
  BY <1>1, <1>2 DEF IndexComment, UnindexComment, CommentInv
<1>3. ASSUME NEW t \in Board, CloseTask(t) PROVE CommentInv'
  BY <1>1, <1>3 DEF CloseTask, CommentInv
<1>4. CASE UNCHANGED commentVars
  BY <1>1, <1>4 DEF commentVars, CommentInv
<1> QED
  BY <1>2, <1>3, <1>4, InsertKeeps, UpdateKeeps, DeleteKeeps, RequestsKeep DEF CommentNext

(* A reply always has its parent on the same task, whatever creations,      *)
(* changes and deletions of comments overlap.                               *)
THEOREM ThreadsStayWhole == CommentSpec => []RepliesHaveParents
<1>1. CommentInv => RepliesHaveParents
  BY DEF CommentInv, Whole, RepliesHaveParents, Present
<1> QED
  BY CommentsStart, CommentStep, <1>1, PTL DEF CommentSpec

-----------------------------------------------------------------------------
\* A request that has committed row as that of comment i, and not yet saved it.
Owes(x, i, row) == x.at = "index" /\ x.id = i /\ x.row = row

\* What the index lacks of the comments that exist, a request still owes it,
\* unless Elasticsearch failed.
DocumentsInv ==
  /\ DOMAIN commentDoc = CommentId
  /\ \A i \in Present \ missed :
       comment[i] \in commentDoc[i] \/ \E w \in Writer : Owes(writing[w], i, comment[i])

LEMMA DocumentsStart == CommentInit => DocumentsInv
  BY DEF CommentInit, DocumentsInv, Present

\* A request goes on from where it owed nothing; of the rows it has changed
\* there it owes the documents.
LEMMA WriterOwes ==
  ASSUME CommentInv, DocumentsInv, NEW w \in Writer, NEW next,
         writing[w].at # "index", writing' = [writing EXCEPT ![w] = next],
         UNCHANGED <<commentDoc, missed>>,
         \A i \in Present' \ missed :
           \/ i \in Present /\ comment'[i] = comment[i]
           \/ next.at = "index" /\ next.id = i /\ next.row = comment'[i]
  PROVE  DocumentsInv'
<1>1. DOMAIN writing = Writer
  BY DEF CommentInv
<1>2. ASSUME NEW i \in Present' \ missed
      PROVE  comment'[i] \in commentDoc[i] \/ \E v \in Writer : Owes(writing'[v], i, comment'[i])
  <2>1. CASE next.at = "index" /\ next.id = i /\ next.row = comment'[i]
    BY <1>1, <2>1 DEF Owes
  <2>2. CASE i \in Present /\ comment'[i] = comment[i]
    <3>1. ASSUME NEW v \in Writer, Owes(writing[v], i, comment[i]) PROVE Owes(writing'[v], i, comment'[i])
      BY <1>1, <2>2, <3>1 DEF Owes
    <3> QED
      BY <1>2, <2>2, <3>1 DEF DocumentsInv
  <2> QED
    BY <1>2, <2>1, <2>2
<1> QED
  BY <1>2 DEF DocumentsInv

LEMMA BeginOwes ==
  ASSUME CommentInv, DocumentsInv, NEW w \in Writer, NEW call, Begin(w, call)
  PROVE  DocumentsInv'
<1>1. writing[w].at # "index"
  BY DEF Begin, Free, NoWriting
<1> QED
  BY <1>1, WriterOwes DEF Begin, Present

LEMMA RefuseOwes ==
  ASSUME CommentInv, DocumentsInv, NEW w \in Writer, writing[w].at # "index", Refuse(w)
  PROVE  DocumentsInv'
  BY WriterOwes DEF Refuse, Commit, Present

LEMMA InsertOwes ==
  ASSUME CommentInv, DocumentsInv, NEW w \in Writer, InsertComment(w)
  PROVE  DocumentsInv'
<1> DEFINE row == writing[w].row
           last == Len(comment) + 1
           rows == Append(comment, row)
           next == [at |-> "index", id |-> last, row |-> row]
<1>1. writing[w].at # "index"
  BY DEF InsertComment
<1>2. CASE Commit(w, rows, next)
  <2>1. /\ DOMAIN rows = DOMAIN comment \cup {last}
        /\ \A i \in DOMAIN comment : rows[i] = comment[i]
        /\ rows[last] = row
    <3>1. comment \in Seq(CommentRow \cup {None})
      BY DEF CommentInv
    <3> HIDE DEF row
    <3> QED
      BY <3>1
  <2>2. next.at = "index" /\ next.id = last /\ next.row = row
    OBVIOUS
  <2> HIDE DEF rows, next, last, row
  <2> QED
    BY <1>1, <1>2, <2>1, <2>2, WriterOwes DEF Commit, Present
<1>3. CASE Refuse(w)
  BY <1>1, <1>3, RefuseOwes
<1> QED
  BY <1>2, <1>3 DEF InsertComment

LEMMA UpdateOwes ==
  ASSUME CommentInv, DocumentsInv, NEW w \in Writer, CommitCommentUpdate(w)
  PROVE  DocumentsInv'
<1> DEFINE i == writing[w].id
           row == writing[w].row
           next == [at |-> "index", id |-> i, row |-> row]
<1>1. writing[w].at # "index"
  BY DEF CommitCommentUpdate
<1>2. CASE Commit(w, [comment EXCEPT ![i] = row], next)
  <2>1. next.at = "index" /\ next.id = i /\ next.row = row
    OBVIOUS
  <2> HIDE DEF next, i, row
  <2>2. /\ writing' = [writing EXCEPT ![w] = next] /\ UNCHANGED <<commentDoc, missed>>
        /\ comment' = [comment EXCEPT ![i] = row]
    BY <1>2 DEF Commit
  <2>3. \A j \in Present' : (j \in Present /\ comment'[j] = comment[j]) \/ (j = i /\ comment'[j] = row)
    BY <2>2 DEF Present
  <2> QED
    BY <1>1, <2>1, <2>2, <2>3, WriterOwes
<1>3. CASE Refuse(w)
  BY <1>1, <1>3, RefuseOwes
<1> QED
  BY <1>2, <1>3 DEF CommitCommentUpdate

LEMMA DeleteOwes ==
  ASSUME CommentInv, DocumentsInv, NEW w \in Writer, CommitCommentDelete(w)
  PROVE  DocumentsInv'
<1> DEFINE i == writing[w].id
           next == [at |-> "unindex", id |-> i]
<1>1. writing[w].at # "index"
  BY DEF CommitCommentDelete
<1>2. CASE Commit(w, [comment EXCEPT ![i] = None], next)
  <2> HIDE DEF next, i
  <2>1. /\ writing' = [writing EXCEPT ![w] = next] /\ UNCHANGED <<commentDoc, missed>>
        /\ comment' = [comment EXCEPT ![i] = None]
    BY <1>2 DEF Commit
  <2>2. \A j \in Present' : j \in Present /\ comment'[j] = comment[j]
    BY <2>1 DEF Present
  <2> QED
    BY <1>1, <2>1, <2>2, WriterOwes
<1>3. CASE Refuse(w)
  BY <1>1, <1>3, RefuseOwes
<1> QED
  BY <1>2, <1>3 DEF CommitCommentDelete

\* The document is saved, and nothing owed any more, or Elasticsearch fails.
LEMMA IndexOwes ==
  ASSUME CommentInv, DocumentsInv, NEW w \in Writer, IndexComment(w)
  PROVE  DocumentsInv'
<1> DEFINE id == writing[w].id
           row == writing[w].row
<1>1. /\ UNCHANGED comment /\ DOMAIN writing = Writer
      /\ writing' = [writing EXCEPT ![w] = NoWriting]
      /\ \/ commentDoc' = [commentDoc EXCEPT ![id] = @ \cup {row}] /\ UNCHANGED missed
         \/ missed' = missed \cup {id} /\ UNCHANGED commentDoc
  BY DEF IndexComment, CommentInv
<1>2. \A i : Owes(writing[w], i, comment[i]) => i = id /\ comment[i] = row
  BY DEF Owes
<1> HIDE DEF id, row
<1>3. DOMAIN commentDoc' = CommentId
  BY <1>1 DEF DocumentsInv
<1>4. ASSUME NEW i \in Present' \ missed'
      PROVE  comment'[i] \in commentDoc'[i] \/ \E v \in Writer : Owes(writing'[v], i, comment'[i])
  <2>1. /\ i \in Present \ missed /\ comment'[i] = comment[i]
        /\ i \in CommentId /\ (i = id => UNCHANGED missed)
    <3>1. i \in Present
      BY <1>1, <1>4 DEF Present
    <3>2. i \in CommentId
      BY <3>1, CommentAssumption DEF CommentInv, Present, CommentId
    <3> QED
      BY <1>1, <1>4, <3>1, <3>2
  <2>2. commentDoc[i] \subseteq commentDoc'[i]
    BY <1>1, <2>1 DEF DocumentsInv
  <2>3. CASE comment[i] \in commentDoc[i]
    BY <2>1, <2>2, <2>3
  <2>4. ASSUME NEW v \in Writer, Owes(writing[v], i, comment[i])
        PROVE  comment'[i] \in commentDoc'[i] \/ Owes(writing'[v], i, comment'[i])
    <3>1. CASE v # w
      BY <1>1, <2>1, <2>4, <3>1 DEF Owes
    <3>2. CASE v = w
      <4>1. i = id /\ comment[i] = row
        BY <1>2, <2>4, <3>2
      <4>2. commentDoc' = [commentDoc EXCEPT ![id] = @ \cup {row}]
        BY <1>1, <1>4, <4>1
      <4> QED
        BY <2>1, <4>1, <4>2 DEF DocumentsInv
    <3> QED
      BY <3>1, <3>2
  <2> QED
    BY <2>1, <2>3, <2>4 DEF DocumentsInv
<1> QED
  BY <1>3, <1>4 DEF DocumentsInv

LEMMA UnindexOwes ==
  ASSUME CommentInv, DocumentsInv, NEW w \in Writer, UnindexComment(w)
  PROVE  DocumentsInv'
<1>1. writing[w].at # "index"
  BY DEF UnindexComment
<1> QED
  BY <1>1, WriterOwes DEF UnindexComment, Present

LEMMA DocumentsStep ==
  CommentInv /\ DocumentsInv /\ [CommentNext]_commentVars => DocumentsInv'
<1> SUFFICES ASSUME CommentInv, DocumentsInv, [CommentNext]_commentVars PROVE DocumentsInv'
  OBVIOUS
<1>1. CASE UNCHANGED <<comment, commentDoc, writing, missed>>
  BY <1>1 DEF DocumentsInv, Owes, Present
<1>2. ASSUME NEW w \in Writer, NEW u \in User, CommentRequest(w, u) PROVE DocumentsInv'
  BY <1>2, BeginOwes DEF CommentRequest, CreateComment, UpdateComment, DeleteComment
<1> QED
  BY <1>1, <1>2, InsertOwes, UpdateOwes, DeleteOwes, IndexOwes, UnindexOwes
     DEF CommentNext, commentVars, CloseTask

(* However requests overlap, a comment that exists is found as it is once   *)
(* no request still owes it a document, unless Elasticsearch failed.        *)
THEOREM CommentsAreFound == CommentSpec => []CommentsFound
<1>1. DocumentsInv => CommentsFound
  BY DEF DocumentsInv, CommentsFound, Owes
<1> QED
  BY CommentsStart, CommentStep, DocumentsStart, DocumentsStep, <1>1, PTL DEF CommentSpec

-----------------------------------------------------------------------------
\* A request in progress holds a row that fits the table, and ids that are in it.
WritingTyped(x, ids) ==
  \/ x = NoWriting
  \/ x \in [at : {"insert"}, row : CommentRow]
  \/ x \in [at : {"update", "index"}, id : ids, row : CommentRow]
  \/ x \in [at : {"delete", "unindex"}, id : ids]

CallsTyped ==
  /\ commentDoc \in [CommentId -> SUBSET CommentRow]
  /\ \A w \in Writer : WritingTyped(writing[w], DOMAIN comment)

LEMMA CallStaysTyped ==
  ASSUME NEW x, NEW ids, NEW more, WritingTyped(x, ids), ids \subseteq more
  PROVE  WritingTyped(x, more)
<1>1. x \in [at : {"update", "index"}, id : ids, row : CommentRow] =>
        x \in [at : {"update", "index"}, id : more, row : CommentRow]
  OBVIOUS
<1>2. x \in [at : {"delete", "unindex"}, id : ids] => x \in [at : {"delete", "unindex"}, id : more]
  OBVIOUS
<1> QED
  BY <1>1, <1>2 DEF WritingTyped

\* One request goes on to a call that fits, and no row number is taken back.
LEMMA OneCallChanges ==
  ASSUME CommentInv, CallsTyped, NEW w \in Writer, NEW call,
         writing' = [writing EXCEPT ![w] = call],
         DOMAIN comment \subseteq DOMAIN comment', WritingTyped(call, DOMAIN comment'),
         commentDoc' \in [CommentId -> SUBSET CommentRow]
  PROVE  CallsTyped'
<1>1. \A v \in Writer : writing'[v] = writing[v] \/ writing'[v] = call
  BY DEF CommentInv
<1>2. \A v \in Writer : WritingTyped(writing'[v], DOMAIN comment')
  BY <1>1, CallStaysTyped DEF CallsTyped
<1> QED
  BY <1>2 DEF CallsTyped

LEMMA BeginTyped ==
  ASSUME CommentInv, CallsTyped, NEW w \in Writer, NEW call, WritingTyped(call, DOMAIN comment),
         Begin(w, call)
  PROVE  CallsTyped'
  BY OneCallChanges DEF Begin, CallsTyped

LEMMA CommitTyped ==
  ASSUME CommentInv, CallsTyped, NEW w \in Writer, NEW rows, NEW next,
         DOMAIN comment \subseteq DOMAIN rows, WritingTyped(next, DOMAIN rows), Commit(w, rows, next)
  PROVE  CallsTyped'
  BY OneCallChanges DEF Commit, CallsTyped

LEMMA RefuseTyped ==
  ASSUME CommentInv, CallsTyped, NEW w \in Writer, Refuse(w)
  PROVE  CallsTyped'
  BY CommitTyped DEF Refuse, WritingTyped

LEMMA InsertTyped ==
  ASSUME CommentInv, CallsTyped, NEW w \in Writer, InsertComment(w)
  PROVE  CallsTyped'
<1> DEFINE row == writing[w].row
           rows == Append(comment, row)
           next == [at |-> "index", id |-> Len(comment) + 1, row |-> row]
<1>1. CASE Refuse(w)
  BY <1>1, RefuseTyped
<1>2. CASE Commit(w, rows, next)
  <2>1. row \in CommentRow /\ comment \in Seq(CommentRow \cup {None})
    BY DEF CommentInv, CallFits, InsertComment
  <2> HIDE DEF row
  <2>2. DOMAIN rows = DOMAIN comment \cup {Len(comment) + 1}
    BY <2>1
  <2> HIDE DEF rows
  <2>3. WritingTyped(next, DOMAIN rows)
    BY <2>1, <2>2 DEF WritingTyped
  <2> QED
    BY <1>2, <2>2, <2>3, CommitTyped
<1> QED
  BY <1>1, <1>2 DEF InsertComment

LEMMA UpdateTyped ==
  ASSUME CommentInv, CallsTyped, NEW w \in Writer, CommitCommentUpdate(w)
  PROVE  CallsTyped'
<1> DEFINE i == writing[w].id
           row == writing[w].row
           next == [at |-> "index", id |-> i, row |-> row]
<1>1. CASE Refuse(w)
  BY <1>1, RefuseTyped
<1>2. CASE Commit(w, [comment EXCEPT ![i] = row], next)
  <2>1. i \in DOMAIN comment /\ row \in CommentRow
    BY DEF CommentInv, CallFits, CommitCommentUpdate
  <2>2. WritingTyped(next, DOMAIN comment)
    BY <2>1 DEF WritingTyped
  <2> HIDE DEF i, row, next
  <2> QED
    BY <1>2, <2>2, CommitTyped
<1> QED
  BY <1>1, <1>2 DEF CommitCommentUpdate

LEMMA DeleteTyped ==
  ASSUME CommentInv, CallsTyped, NEW w \in Writer, CommitCommentDelete(w)
  PROVE  CallsTyped'
<1> DEFINE i == writing[w].id
           next == [at |-> "unindex", id |-> i]
<1>1. CASE Refuse(w)
  BY <1>1, RefuseTyped
<1>2. CASE Commit(w, [comment EXCEPT ![i] = None], next)
  <2>1. i \in DOMAIN comment
    BY DEF CommentInv, CallFits, CommitCommentDelete
  <2>2. WritingTyped(next, DOMAIN comment)
    BY <2>1 DEF WritingTyped
  <2> HIDE DEF i, next
  <2> QED
    BY <1>2, <2>2, CommitTyped
<1> QED
  BY <1>1, <1>2 DEF CommitCommentDelete

LEMMA IndexTyped ==
  ASSUME CommentInv, CallsTyped, NEW w \in Writer, IndexComment(w) \/ UnindexComment(w)
  PROVE  CallsTyped'
<1>1. WritingTyped(NoWriting, DOMAIN comment)
  BY DEF WritingTyped
<1>2. commentDoc' \in [CommentId -> SUBSET CommentRow]
  <2> DEFINE i == writing[w].id
             row == writing[w].row
  <2>1. CASE UNCHANGED commentDoc
    BY <2>1 DEF CallsTyped
  <2>2. CASE writing[w].at = "index" /\ commentDoc' = [commentDoc EXCEPT ![i] = @ \cup {row}]
    <3>1. WritingTyped(writing[w], DOMAIN comment)
      BY DEF CallsTyped
    <3>2. row \in CommentRow
      BY <2>2, <3>1 DEF WritingTyped, NoWriting
    <3> HIDE DEF i, row
    <3> QED
      BY <2>2, <3>2 DEF CallsTyped
  <2> QED
    BY <2>1, <2>2 DEF IndexComment, UnindexComment
<1> QED
  BY <1>1, <1>2, OneCallChanges DEF IndexComment, UnindexComment

LEMMA RequestsTyped ==
  ASSUME CommentInv, CallsTyped, NEW w \in Writer, NEW u \in User, CommentRequest(w, u)
  PROVE  CallsTyped'
<1>1. ASSUME NEW t \in Board, NEW p \in DOMAIN comment \cup {None}, NEW c \in Content,
             CreateComment(w, u, t, p, c)
      PROVE  CallsTyped'
  <2> DEFINE row == [task |-> t, author |-> u, parent |-> p, content |-> c]
  <2>1. p \in CommentId \cup {None}
    BY CommentAssumption DEF CommentInv, CommentId
  <2>2. row \in CommentRow
    BY <2>1 DEF CommentRow
  <2>3. Begin(w, [at |-> "insert", row |-> row])
    BY <1>1 DEF CreateComment
  <2> HIDE DEF row
  <2> QED
    BY <2>2, <2>3, BeginTyped DEF WritingTyped
<1>2. ASSUME NEW i \in DOMAIN comment, DeleteComment(w, u, i) PROVE CallsTyped'
  BY <1>2, BeginTyped DEF DeleteComment, WritingTyped
<1>3. ASSUME NEW i \in DOMAIN comment, NEW c \in Content, UpdateComment(w, u, i, c)
      PROVE  CallsTyped'
  <2> DEFINE row == [comment[i] EXCEPT !.content = c]
  <2>1. comment[i] \in CommentRow
    BY <1>3 DEF UpdateComment, Present, CommentInv
  <2>2. row \in CommentRow
    BY <2>1 DEF CommentRow
  <2>3. Begin(w, [at |-> "update", id |-> i, row |-> row])
    BY <1>3 DEF UpdateComment
  <2> HIDE DEF row
  <2> QED
    BY <2>2, <2>3, BeginTyped DEF WritingTyped
<1> QED
  BY <1>1, <1>2, <1>3 DEF CommentRequest

LEMMA CommentTypesStep ==
  CommentInv /\ CommentTypeOK /\ [CommentNext]_commentVars => CommentTypeOK'
<1> SUFFICES ASSUME CommentInv, CommentTypeOK, [CommentNext]_commentVars PROVE CommentTypeOK'
  OBVIOUS
<1>1. CallsTyped
  BY DEF CommentTypeOK, CallsTyped, WritingTyped
<1>2. CommentInv'
  BY CommentStep
<1>3. open' \in SUBSET Board /\ missed' \in SUBSET CommentId
  <2>1. CASE UNCHANGED <<open, missed>>
    BY <2>1 DEF CommentTypeOK
  <2>2. ASSUME NEW t \in Board, CloseTask(t) PROVE <1>3!:
    BY <2>2 DEF CloseTask, CommentTypeOK
  <2>3. ASSUME NEW w \in Writer, IndexComment(w) PROVE <1>3!:
    <3>1. writing[w].id \in CommentId
      <4>1. writing[w].id \in DOMAIN comment
        BY <1>1, <2>3 DEF IndexComment, CallsTyped, WritingTyped, NoWriting
      <4> QED
        BY <4>1, CommentAssumption DEF CommentInv, CommentId
    <3> QED
      BY <2>3, <3>1 DEF IndexComment, CommentTypeOK
  <2>4. ASSUME NEW w \in Writer, NEW u \in User, CommentRequest(w, u) PROVE <1>3!:
    BY <2>1, <2>4 DEF CommentRequest, CreateComment, UpdateComment, DeleteComment, Begin
  <2>5. ASSUME NEW w \in Writer,
               \/ InsertComment(w) \/ CommitCommentUpdate(w) \/ CommitCommentDelete(w)
               \/ UnindexComment(w)
        PROVE  <1>3!:
    BY <2>1, <2>5 DEF InsertComment, CommitCommentUpdate, CommitCommentDelete, Refuse, Commit,
                      UnindexComment
  <2> QED
    BY <2>1, <2>2, <2>3, <2>4, <2>5 DEF CommentNext, commentVars
<1>4. ASSUME UNCHANGED <<comment, commentDoc, writing>> PROVE CallsTyped'
  BY <1>1, <1>4 DEF CallsTyped
<1>5. CallsTyped'
  BY <1>1, <1>4, InsertTyped, UpdateTyped, DeleteTyped, IndexTyped, RequestsTyped
     DEF CommentNext, CloseTask, commentVars
<1> QED
  BY <1>2, <1>3, <1>5 DEF CommentInv, CommentTypeOK, CallsTyped, WritingTyped

(* Comments, their documents and the requests in progress keep their types: *)
(* no request is at a comment that was never inserted.                      *)
THEOREM CommentTypes == CommentSpec => []CommentTypeOK
<1>1. CommentInit => CommentTypeOK
  <2> SUFFICES ASSUME CommentInit PROVE CommentTypeOK
    OBVIOUS
  <2>1. /\ open \in SUBSET Board /\ missed \in SUBSET CommentId
        /\ commentDoc \in [CommentId -> SUBSET CommentRow]
    BY DEF CommentInit
  <2>2. comment \in Seq(CommentRow \cup {None}) /\ Len(comment) <= MaxComments
    BY CommentsStart DEF CommentInv
  <2>3. \A w \in Writer : writing[w] = NoWriting
    BY DEF CommentInit
  <2> QED
    BY <2>1, <2>2, <2>3 DEF CommentTypeOK
<1> QED
  BY CommentsStart, CommentStep, CommentTypesStep, <1>1, PTL DEF CommentSpec

-----------------------------------------------------------------------------
\* One rating for a user and a target: what the unique constraint holds.
RatedOnce ==
  \A i, j \in Given :
    rating[i].user = rating[j].user /\ rating[i].target = rating[j].target => i = j

RatingInv ==
  /\ rating \in Seq(RatingRow \cup {None})
  /\ ratingNow \in [Rater -> RatingRow \cup {None}]
  /\ RatedOnce

LEMMA RatingsStart == RatingInit => RatingInv
  BY DEF RatingInit, RatingInv, RatedOnce, Given

LEMMA CreateRatingKeeps ==
  ASSUME RatingInv, NEW r \in Rater, NEW u \in User, NEW t \in Target, NEW s \in Score,
         CreateRating(r, u, t, s)
  PROVE  RatingInv'
<1> DEFINE row == [user |-> u, target |-> t, score |-> s]
<1>1. row \in RatingRow
  BY DEF RatingRow
<1>2. ratingNow' = [ratingNow EXCEPT ![r] = row] /\ UNCHANGED rating
  BY DEF CreateRating
<1> HIDE DEF row
<1> QED
  BY <1>1, <1>2 DEF RatingInv, RatedOnce, Given

LEMMA InsertRatingKeeps ==
  ASSUME RatingInv, NEW r \in Rater, InsertRating(r)
  PROVE  RatingInv'
<1> DEFINE row == ratingNow[r]
<1>1. row \in RatingRow /\ rating \in Seq(RatingRow \cup {None})
  BY DEF RatingInv, InsertRating
<1>2. ratingNow' \in [Rater -> RatingRow \cup {None}]
  BY DEF RatingInv, InsertRating
<1>3. CASE rating' = rating
  BY <1>2, <1>3 DEF RatingInv, RatedOnce, Given
<1>4. CASE RatingsOf(row.user, row.target) = {} /\ rating' = Append(rating, row)
  <2> HIDE DEF row
  <2>1. /\ rating' \in Seq(RatingRow \cup {None})
        /\ DOMAIN rating' = DOMAIN rating \cup {Len(rating) + 1}
        /\ \A i \in DOMAIN rating : rating'[i] = rating[i]
        /\ rating'[Len(rating) + 1] = row
    BY <1>1, <1>4
  <2>2. \A i \in Given : ~(rating[i].user = row.user /\ rating[i].target = row.target)
    BY <1>4 DEF RatingsOf
  <2>3. RatedOnce'
    BY <2>1, <2>2 DEF RatingInv, RatedOnce, Given
  <2> QED
    BY <1>2, <2>1, <2>3 DEF RatingInv
<1> QED
  BY <1>3, <1>4 DEF InsertRating

LEMMA DeleteRatingKeeps ==
  ASSUME RatingInv, NEW u \in User, NEW i \in DOMAIN rating, DeleteRating(u, i)
  PROVE  RatingInv'
<1>1. /\ rating' \in Seq(RatingRow \cup {None})
      /\ DOMAIN rating' = DOMAIN rating
      /\ rating'[i] = None
      /\ \A j \in DOMAIN rating \ {i} : rating'[j] = rating[j]
  BY DEF RatingInv, DeleteRating
<1> QED
  BY <1>1 DEF RatingInv, RatedOnce, Given, DeleteRating

LEMMA RatingStep == RatingInv /\ [RatingNext]_ratingVars => RatingInv'
<1> SUFFICES ASSUME RatingInv, [RatingNext]_ratingVars PROVE RatingInv'
  OBVIOUS
<1>1. ASSUME UNCHANGED <<rating, ratingNow>> PROVE RatingInv'
  BY <1>1 DEF RatingInv, RatedOnce, Given
<1>2. ASSUME NEW t \in Target, NEW s, ChangeTarget(t, s) PROVE RatingInv'
  BY <1>1, <1>2 DEF ChangeTarget
<1>3. CASE UNCHANGED ratingVars
  BY <1>1, <1>3 DEF ratingVars
<1> QED
  BY <1>2, <1>3, CreateRatingKeeps, InsertRatingKeeps, DeleteRatingKeeps
     DEF RatingNext, RatingRequest

\* Where each user has one rating of a target, there are as many ratings as users.
LEMMA OneRatingOneUser ==
  ASSUME rating \in Seq(RatingRow \cup {None}), RatedOnce
  PROVE  OneVoteEach
<1> SUFFICES ASSUME NEW t \in Target
             PROVE  LET S == {i \in Given : rating[i].target = t}
                    IN  Cardinality(S) = Cardinality({rating[i].user : i \in S})
  BY DEF OneVoteEach, RatingCount
<1> DEFINE S == {i \in Given : rating[i].target = t}
           Users == {rating[i].user : i \in S}
           userOf == [i \in S |-> rating[i].user]
<1>1. IsFiniteSet(S)
  <2>1. IsFiniteSet(1..Len(rating)) /\ S \subseteq 1..Len(rating)
    BY FS_Interval DEF Given
  <2> QED
    BY <2>1, FS_Subset
<1>2. userOf \in Bijection(S, Users)
  <2>1. \A i, j \in S : userOf[i] = userOf[j] => i = j
    BY DEF RatedOnce
  <2>2. userOf \in [S -> Users] /\ \A u \in Users : \E i \in S : userOf[i] = u
    OBVIOUS
  <2> HIDE DEF userOf, Users, S
  <2> QED
    BY <2>1, <2>2 DEF Bijection, Injection, Surjection, IsInjective
<1>3. ExistsBijection(S, Users)
  BY <1>2 DEF ExistsBijection
<1> QED
  BY <1>1, <1>3, FS_Bijection

(* Each user counts once in what a task or a group is rated, whatever       *)
(* requests of the user and of others overlap.                              *)
THEOREM VotesCountOnce == RatingSpec => []OneVoteEach
<1>1. RatingInv => OneVoteEach
  BY OneRatingOneUser DEF RatingInv
<1> QED
  BY RatingsStart, RatingStep, <1>1, PTL DEF RatingSpec

-----------------------------------------------------------------------------
LEMMA RatingTypesStep ==
  RatingInv /\ RatingTypeOK /\ [RatingNext]_ratingVars => RatingTypeOK'
<1> SUFFICES ASSUME RatingInv, RatingTypeOK, [RatingNext]_ratingVars PROVE RatingTypeOK'
  OBVIOUS
<1>1. rating' \in Seq(RatingRow \cup {None}) /\ ratingNow' \in [Rater -> RatingRow \cup {None}]
  BY RatingStep DEF RatingInv
<1>2. ASSUME Len(rating') <= MaxRatings, UNCHANGED target PROVE RatingTypeOK'
  BY <1>1, <1>2 DEF RatingTypeOK
<1>3. rating \in Seq(RatingRow \cup {None}) /\ Len(rating) <= MaxRatings
  BY DEF RatingTypeOK
<1>4. ASSUME NEW t \in Target, NEW s \in {"open", "done", "gone"}, ChangeTarget(t, s)
      PROVE  RatingTypeOK'
  <2>1. target' \in [Target -> {"open", "done", "gone"}] /\ UNCHANGED rating
    BY <1>4 DEF ChangeTarget, RatingTypeOK
  <2> QED
    BY <1>1, <1>3, <2>1 DEF RatingTypeOK
<1>5. ASSUME NEW r \in Rater, InsertRating(r) PROVE RatingTypeOK'
  <2>1. Len(rating) < MaxRatings /\ UNCHANGED target
    BY <1>5 DEF InsertRating
  <2>2. rating' = rating \/ rating' = Append(rating, ratingNow[r])
    BY <1>5 DEF InsertRating
  <2>3. Len(rating') <= Len(rating) + 1
    BY <1>3, <2>2
  <2> QED
    BY <1>2, <1>3, <2>1, <2>3, RatingAssumption
<1>6. ASSUME NEW u \in User, RatingRequest(u) PROVE RatingTypeOK'
  <2>1. UNCHANGED target /\ (rating' = rating \/ \E i \in DOMAIN rating : rating' = [rating EXCEPT ![i] = None])
    BY <1>6 DEF RatingRequest, CreateRating, DeleteRating
  <2>2. DOMAIN rating' = DOMAIN rating
    BY <2>1
  <2>3. Len(rating') = Len(rating)
    BY <1>1, <1>3, <2>2
  <2> QED
    BY <1>2, <1>3, <2>1, <2>3
<1>7. CASE UNCHANGED ratingVars
  BY <1>2, <1>3, <1>7 DEF ratingVars
<1> QED
  BY <1>4, <1>5, <1>6, <1>7 DEF RatingNext

(* Targets, ratings and the requests about to insert one keep their types.  *)
THEOREM RatingTypes == RatingSpec => []RatingTypeOK
<1>1. RatingInit => RatingTypeOK
  BY RatingAssumption DEF RatingInit, RatingTypeOK
<1> QED
  BY RatingsStart, RatingStep, RatingTypesStep, <1>1, PTL DEF RatingSpec

-----------------------------------------------------------------------------
(* Experience points *)

SkillRow == [user : User, sphere : Sphere, total : Nat, today : Nat, level : 1..10,
             streak : Nat, last : {"never", "today", "earlier"}]
AwardCall == [at : {"adding", "crediting"}, user : User, sphere : Sphere, xp : Nat]

\* The level of a reply that credits points is that of its total.
ReplyFits(r) == r # None /\ r.xp > 0 => r.total \in Nat /\ r.copyLevel = LevelOf(r.total)

XpInv == XpTypeOK /\ OneSkillEach /\ ReplyFits(reply)

LEMMA XpStart == XpInit => XpInv
  BY DEF XpInit, XpInv, XpTypeOK, OneSkillEach, ReplyFits, IdleAward

-----------------------------------------------------------------------------
\* A call begins: it goes on to insert the row, or has found it.
LEMMA CallKeeps ==
  ASSUME XpInv, NEW a \in Awarder, NEW u \in User, NEW s \in Sphere, NEW xp \in Nat,
         award' = [award EXCEPT ![a] =
           [at |-> IF SkillsOf(u, s) = {} THEN "adding" ELSE "crediting",
            user |-> u, sphere |-> s, xp |-> xp]],
         UNCHANGED skill, reply' = None
  PROVE  XpInv'
<1> DEFINE call == [at |-> IF SkillsOf(u, s) = {} THEN "adding" ELSE "crediting",
                    user |-> u, sphere |-> s, xp |-> xp]
<1>1. call \in AwardCall
  BY DEF AwardCall
<1>2. call.at = "crediting" => SkillsOf(call.user, call.sphere) # {}
  OBVIOUS
<1>3. award' = [award EXCEPT ![a] = call] /\ award \in [Awarder -> {IdleAward} \cup AwardCall]
  BY DEF XpInv, XpTypeOK, AwardCall
<1> HIDE DEF call
<1>4. award' \in [Awarder -> {IdleAward} \cup AwardCall]
  BY <1>1, <1>3
<1>5. \A b \in Awarder : award'[b] = award[b] \/ award'[b] = call
  BY <1>3
<1>6. OneSkillEach'
  BY <1>2, <1>5 DEF XpInv, OneSkillEach, SkillsOf
<1> QED
  BY <1>4, <1>6 DEF XpInv, XpTypeOK, AwardCall, ReplyFits

LEMMA CompleteTaskKeeps ==
  ASSUME XpInv, NEW a \in Awarder, NEW u \in User, NEW s \in Sphere,
         NEW p, NEW w, NEW d, NEW n, CompleteTask(a, u, s, p, w, d, n)
  PROVE  XpInv'
<1>1. \A xp : PointsFor([k \in {<<s, "NAME">>} |-> xp], s) = 0
  BY DEF PointsFor
<1>2. PICK xp : award' = [award EXCEPT ![a] =
                  [at |-> IF SkillsOf(u, s) = {} THEN "adding" ELSE "crediting",
                   user |-> u, sphere |-> s, xp |-> PointsFor([k \in {<<s, "NAME">>} |-> xp], s)]]
  BY Zenon DEF CompleteTask
<1>3. UNCHANGED skill /\ reply' = None
  BY DEF CompleteTask
<1>4. award' = [award EXCEPT ![a] =
                  [at |-> IF SkillsOf(u, s) = {} THEN "adding" ELSE "crediting",
                   user |-> u, sphere |-> s, xp |-> 0]]
  BY <1>1, <1>2, Zenon
<1>5. 0 \in Nat
  OBVIOUS
<1> QED
  BY <1>3, <1>4, <1>5, CallKeeps, Zenon

\* The insert adds the first row of the user and the sphere, or none.
LEMMA InsertSkillKeeps ==
  ASSUME XpInv, NEW a \in Awarder, InsertSkill(a)
  PROVE  XpInv'
<1> DEFINE u == award[a].user
           s == award[a].sphere
<1>1. /\ award[a] \in AwardCall
      /\ award \in [Awarder -> {IdleAward} \cup AwardCall]
      /\ skill \in Seq(SkillRow)
  BY DEF XpInv, XpTypeOK, AwardCall, SkillRow, IdleAward, InsertSkill
<1>2. CASE SkillsOf(u, s) = {}
  <2> DEFINE row == FreshSkill(u, s)
             call == [award[a] EXCEPT !.at = "crediting"]
  <2>1. row \in SkillRow /\ row.user = u /\ row.sphere = s
    BY <1>1 DEF FreshSkill, SkillRow, AwardCall
  <2>2. call \in AwardCall /\ call.user = u /\ call.sphere = s
    BY <1>1 DEF AwardCall
  <2>3. skill' = Append(skill, row) /\ award' = [award EXCEPT ![a] = call]
    BY <1>2 DEF InsertSkill
  <2> HIDE DEF row, call
  <2>4. /\ skill' \in Seq(SkillRow)
        /\ DOMAIN skill' = DOMAIN skill \cup {Len(skill) + 1}
        /\ \A i \in DOMAIN skill : skill'[i] = skill[i]
        /\ skill'[Len(skill) + 1] = row
    BY <1>1, <2>1, <2>3
  <2>5. award' \in [Awarder -> {IdleAward} \cup AwardCall]
    BY <1>1, <2>2, <2>3
  <2>6. \A i \in DOMAIN skill : ~(skill[i].user = u /\ skill[i].sphere = s)
    BY <1>2 DEF SkillsOf
  <2>7. \A i, j \in DOMAIN skill' :
          skill'[i].user = skill'[j].user /\ skill'[i].sphere = skill'[j].sphere => i = j
    BY <2>1, <2>4, <2>6 DEF XpInv, OneSkillEach
  <2>8. ASSUME NEW b \in Awarder, award'[b].at = "crediting"
        PROVE  \E i \in DOMAIN skill' : /\ skill'[i].user = award'[b].user
                                        /\ skill'[i].sphere = award'[b].sphere
    <3>1. CASE b = a
      BY <1>1, <2>1, <2>2, <2>3, <2>4, <3>1
    <3>2. CASE b # a
      BY <1>1, <2>3, <2>4, <2>8, <3>2 DEF XpInv, OneSkillEach, SkillsOf
    <3> QED
      BY <3>1, <3>2
  <2> QED
    BY <2>4, <2>5, <2>7, <2>8
       DEF XpInv, XpTypeOK, OneSkillEach, SkillsOf, SkillRow, AwardCall, ReplyFits, InsertSkill
<1>3. CASE SkillsOf(u, s) # {}
  <2>1. UNCHANGED skill /\ award' = [award EXCEPT ![a] = IdleAward] /\ reply' = None
    BY <1>3 DEF InsertSkill
  <2> QED
    BY <1>1, <2>1 DEF XpInv, XpTypeOK, OneSkillEach, SkillsOf, SkillRow, AwardCall, ReplyFits, IdleAward
<1> QED
  BY <1>2, <1>3

\* A row that is found is a row of the table.
LEMMA FoundRow ==
  ASSUME skill \in Seq(SkillRow), NEW u, NEW s, SkillsOf(u, s) # {}
  PROVE  SkillRowOf(u, s) \in SkillRow
<1> DEFINE rows == SkillsOf(u, s)
           i == CHOOSE i \in rows : TRUE
<1>1. i \in rows
  <2> HIDE DEF rows
  <2>1. rows # {}
    BY DEF rows
  <2> QED
    BY <2>1
<1>2. SkillRowOf(u, s) = skill[i]
  BY Zenon DEF SkillRowOf
<1> HIDE DEF i
<1> QED
  BY <1>1, <1>2 DEF SkillsOf

\* A credit answers with the level of the points it has added to its copy.
LEMMA CreditKeeps ==
  ASSUME XpInv, NEW a \in Awarder, Credit(a)
  PROVE  XpInv'
<1> DEFINE found == SkillRowOf(award[a].user, award[a].sphere)
           row == ResetDaily(found)
           xp == Allowed(row, award[a].xp)
           copy == IF xp = 0 THEN row ELSE Credited(row, xp)
<1>1. award[a] \in AwardCall /\ award[a].at = "crediting"
  BY DEF XpInv, XpTypeOK, AwardCall, IdleAward, Credit
<1>2. found \in SkillRow
  BY <1>1, FoundRow DEF XpInv, XpTypeOK, OneSkillEach, SkillRow, AwardCall
<1>3. row \in SkillRow
  BY <1>2 DEF ResetDaily, SkillRow
<1>4. xp \in Nat
  BY <1>1, <1>3, XpAssumption DEF Allowed, SkillRow, AwardCall
<1>5. xp > 0 => copy.total \in Nat /\ copy.level = LevelOf(copy.total)
  <2> HIDE DEF row, xp
  <2>1. row.total + (IF xp < MaxDailyXp THEN xp ELSE MaxDailyXp) \in Nat
    BY <1>3, <1>4, XpAssumption DEF SkillRow
  <2> QED
    BY <1>3, <1>4, <2>1 DEF Credited, SkillRow
<1>6. reply' = [user |-> row.user, sphere |-> row.sphere, xp |-> xp, total |-> copy.total,
                copyLevel |-> copy.level, level |-> row.level,
                leveledUp |-> xp > 0 /\ row.level > copy.level]
  BY DEF Credit
<1>7. ReplyFits(reply')
  <2> HIDE DEF copy, xp, row
  <2> QED
    BY <1>5, <1>6 DEF ReplyFits
<1>8. UNCHANGED skill /\ award' = [award EXCEPT ![a] = IdleAward]
  BY DEF Credit
<1>9. XpTypeOK' /\ OneSkillEach'
  BY <1>8 DEF XpInv, XpTypeOK, OneSkillEach, SkillsOf, IdleAward
<1> QED
  BY <1>7, <1>9 DEF XpInv

LEMMA XpStep == XpInv /\ [XpNext]_xpVars => XpInv'
<1> SUFFICES ASSUME XpInv, [XpNext]_xpVars PROVE XpInv'
  OBVIOUS
<1>1. ASSUME NEW a \in Awarder, NEW u \in User, NEW s \in Sphere, NEW xp \in Amount,
             AddSphereXp(a, u, s, xp)
      PROVE  XpInv'
  BY <1>1, CallKeeps, XpAssumption DEF AddSphereXp
<1>2. CASE UNCHANGED xpVars
  BY <1>2 DEF xpVars, XpInv, XpTypeOK, OneSkillEach, SkillsOf, ReplyFits
<1> QED
  BY <1>1, <1>2, InsertSkillKeeps, CreditKeeps, CompleteTaskKeeps DEF XpNext

(* The points, the awards under way and their answers keep their types.     *)
THEOREM PointTypes == XpSpec => []XpTypeOK
<1>1. XpInv => XpTypeOK
  BY DEF XpInv
<1> QED
  BY XpStart, XpStep, <1>1, PTL DEF XpSpec

(* A user has one row per sphere and a credit has a row to go to, however   *)
(* many awards race to create it.                                           *)
THEOREM SkillsAreUnique == XpSpec => []OneSkillEach
<1>1. XpInv => OneSkillEach
  BY DEF XpInv
<1> QED
  BY XpStart, XpStep, <1>1, PTL DEF XpSpec

-----------------------------------------------------------------------------
\* The table of thresholds rises from 0.
LEMMA ThresholdsRise ==
  /\ \A n \in 1..10 : Threshold[n] \in Nat
  /\ Threshold[1] = 0
  /\ \A m, n \in 1..10 : m < n => Threshold[m] < Threshold[n]
  BY DEF Threshold

\* The level of any points is the last threshold they reach.
LEMMA LevelReached ==
  ASSUME NEW t \in Nat
  PROVE  /\ LevelOf(t) \in 1..10
         /\ Threshold[LevelOf(t)] <= t
         /\ \A m \in LevelOf(t) + 1..10 : t < Threshold[m]
<1> DEFINE Reached(n) == t >= Threshold[n] /\ \A m \in n + 1..10 : t < Threshold[m]
<1>1. \E n \in 1..10 : Reached(n)
  <2>1. CASE t >= 10000
    <3>1. Reached(10)
      BY <2>1 DEF Threshold
    <3> QED
      BY <3>1
  <2>2. CASE t < 10000
    <3>1. Reached(1) \/ Reached(2) \/ Reached(3) \/ Reached(4) \/ Reached(5)
            \/ Reached(6) \/ Reached(7) \/ Reached(8) \/ Reached(9)
      BY <2>2 DEF Threshold
    <3> QED
      BY <3>1
  <2> QED
    BY <2>1, <2>2
<1>2. LevelOf(t) = CHOOSE n \in 1..10 : Reached(n)
  BY <1>1 DEF LevelOf
<1> HIDE DEF Reached
<1>3. LevelOf(t) \in 1..10 /\ Reached(LevelOf(t))
  BY <1>1, <1>2
<1> QED
  BY <1>3 DEF Reached

\* A part of a range is less than all of it.
LEMMA PercentBelow ==
  ASSUME NEW part \in Nat, NEW range \in Nat, part < range
  PROVE  (part * 100) \div range \in 0..99
  OBVIOUS

(* For any total the level is the number of thresholds reached, points are  *)
(* missing exactly below the top level, and the progress fits: what a       *)
(* credit answers agrees with itself.                                       *)
THEOREM LevelsFit == XpSpec => []LevelFits
<1>1. ASSUME NEW t \in Nat
      PROVE  LET level == LevelOf(t)
                 left == XpToNextLevel(t, level)
             IN  /\ level = Cardinality({n \in 1..10 : Threshold[n] <= t})
                 /\ (left > 0) = (level < 10)
                 /\ ProgressPercent(t, level) \in 0..(IF left > 0 THEN 99 ELSE 100)
  <2> DEFINE level == LevelOf(t)
             left == XpToNextLevel(t, level)
  <2>1. /\ level \in 1..10
        /\ Threshold[level] <= t
        /\ \A m \in level + 1..10 : t < Threshold[m]
    BY LevelReached
  <2> HIDE DEF level
  <2>2. {n \in 1..10 : Threshold[n] <= t} = 1..level
    BY <2>1, ThresholdsRise
  <2>3. level = Cardinality(1..level)
    <3>1. level \in Int /\ 1 \in Int /\ ~(1 > level) /\ level - 1 + 1 = level
      BY <2>1
    <3> QED
      BY <3>1, FS_Interval
  <2>4. CASE level < 10
    <3>1. NextThreshold(level) = Threshold[level + 1] /\ t < Threshold[level + 1]
      BY <2>1, <2>4 DEF NextThreshold
    <3>2. left > 0
      BY <2>1, <3>1, <2>4, ThresholdsRise DEF XpToNextLevel
    <3> DEFINE range == Threshold[level + 1] - Threshold[level]
               part == t - Threshold[level]
    <3>3. range \in Nat /\ part \in Nat /\ part < range
      BY <2>1, <2>4, <3>1, ThresholdsRise
    <3>4. (part * 100) \div range \in 0..99 /\ range > 0
      <4> HIDE DEF part, range
      <4> QED
        BY <3>3, PercentBelow
    <3>5. ProgressPercent(t, level) = (part * 100) \div range
      <4>1. ProgressPercent(t, level) =
              LET p == IF range > 0 THEN (part * 100) \div range ELSE 100
              IN  IF p > 100 THEN 100 ELSE p
        BY <3>1 DEF ProgressPercent
      <4> HIDE DEF part, range
      <4> QED
        BY <3>4, <4>1
    <3> HIDE DEF part, range, left
    <3> QED
      BY <2>2, <2>3, <2>4, <3>2, <3>4, <3>5 DEF level, left
  <2>5. CASE level = 10
    <3>1. NextThreshold(level) = Threshold[10] /\ Threshold[10] <= t
      BY <2>1, <2>5 DEF NextThreshold
    <3>2. left = 0
      BY <3>1, ThresholdsRise DEF XpToNextLevel
    <3>3. ProgressPercent(t, level) = 100
      BY <2>5, <3>1, ThresholdsRise DEF ProgressPercent
    <3> HIDE DEF left
    <3> QED
      BY <2>2, <2>3, <2>5, <3>2, <3>3 DEF level, left
  <2> QED
    BY <2>1, <2>4, <2>5
<1>2. XpInv => LevelFits
  BY <1>1 DEF XpInv, ReplyFits, LevelFits
<1> QED
  BY XpStart, XpStep, <1>2, PTL DEF XpSpec
-----------------------------------------------------------------------------
\* What holds of quotients of natural numbers, and of multiples.
LEMMA Quotient ==
  ASSUME NEW x \in Nat, NEW y \in Nat \ {0}
  PROVE  /\ x \div y \in Nat
         /\ (x \div y) * y <= x
         /\ x < (x \div y) * y + y
  OBVIOUS

LEMMA AtMostQuotient ==
  ASSUME NEW x \in Nat, NEW y \in Nat \ {0}, NEW n \in Nat, n * y <= x
  PROVE  n <= x \div y
  OBVIOUS

LEMMA Scaled ==
  ASSUME NEW x \in Nat, NEW y \in Nat, NEW n \in Nat, x <= y
  PROVE  x * n <= y * n
  OBVIOUS

LEMMA Unscaled ==
  ASSUME NEW x \in Nat, NEW y \in Nat, NEW n \in Nat \ {0}, x * n <= y * n
  PROVE  x <= y
  OBVIOUS

\* A fraction that is not above another has no larger whole part.
LEMMA QuotientsFollow ==
  ASSUME NEW x \in Nat, NEW y \in Nat \ {0}, NEW u \in Nat, NEW v \in Nat \ {0},
         x * v <= u * y
  PROVE  x \div y <= u \div v
<1> DEFINE q == x \div y
<1>1. q \in Nat /\ q * y <= x
  BY Quotient
<1> HIDE DEF q
<1>2. (q * y) * v <= x * v
  BY <1>1, Scaled
<1>3. (q * v) * y <= u * y
  BY <1>1, <1>2
<1>4. q * v <= u
  BY <1>1, <1>3, Unscaled
<1>5. q <= u \div v
  BY <1>1, <1>4, AtMostQuotient
<1> QED
  BY <1>5 DEF q

LEMMA TruncatedNear ==
  ASSUME NEW x \in Nat, NEW y \in Nat \ {0}, NEW n \in Truncated(x, y)
  PROVE  /\ n \in Nat /\ n <= x \div y /\ x \div y <= n + 1
         /\ x <= (n + 1) * y
<1> DEFINE q == x \div y
<1>1. q \in Nat /\ x < q * y + y
  BY Quotient
<1>2. x % y = 0 => x = q * y
  OBVIOUS
<1>3. n = q \/ (x % y = 0 /\ q > 0 /\ n = q - 1)
  BY DEF Truncated
<1> HIDE DEF q
<1>4. n \in Nat /\ n <= q /\ q <= n + 1
  BY <1>1, <1>3
<1>5. x <= (n + 1) * y
  <2>1. CASE n = q
    BY <1>1, <2>1
  <2>2. CASE x % y = 0 /\ q = n + 1
    BY <1>2, <2>2
  <2> QED
    BY <1>1, <1>3, <2>1, <2>2
<1> QED
  BY <1>4, <1>5 DEF q

\* The bonus for time lies between a half and two.
LEMMA BonusBetween ==
  ASSUME NEW d \in Int, NEW n \in Nat \ {0}
  PROVE  /\ TimeBonus(d, n)[1] \in Nat
         /\ TimeBonus(d, n)[2] \in Nat \ {0}
         /\ TimeBonus(d, n)[2] <= 2 * TimeBonus(d, n)[1]
         /\ TimeBonus(d, n)[1] <= 2 * TimeBonus(d, n)[2]
  BY DEF TimeBonus

\* It does not rise with the days that are taken.
LEMMA BonusFalls ==
  ASSUME NEW d \in Int, NEW n \in Nat \ {0}, NEW m \in Nat \ {0}, n < m
  PROVE  TimeBonus(d, m)[1] * TimeBonus(d, n)[2] <= TimeBonus(d, n)[1] * TimeBonus(d, m)[2]
<1> DEFINE less == 2 * d - m
           more == 2 * d - n
<1>1. CASE d <= 0
  BY <1>1 DEF TimeBonus
<1>2. CASE d > 0 /\ 2 * less < d
  <2>1. TimeBonus(d, m) = <<1, 2>>
    BY <1>2 DEF TimeBonus
  <2> QED
    BY <2>1, BonusBetween
<1>3. CASE d > 0 /\ more > 2 * d
  BY <1>3
<1>4. CASE d > 0 /\ 2 * less >= d
  <2>1. TimeBonus(d, m) = <<less, d>> /\ TimeBonus(d, n) = <<more, d>>
    BY <1>4 DEF TimeBonus
  <2>2. less \in Nat /\ more \in Nat /\ d \in Nat /\ less <= more
    BY <1>4
  <2> HIDE DEF less, more
  <2>3. less * d <= more * d
    BY <2>2, Scaled
  <2> QED
    BY <2>1, <2>3
<1> QED
  BY <1>1, <1>2, <1>4

\* The bonus of a streak does not fall as it goes on.
LEMMA StreakBonusIs ==
  ASSUME NEW s \in Streaks
  PROVE  StreakBonus(s) \in Nat
  BY DEF Streaks, StreakBonus

LEMMA StreakBonusRises ==
  ASSUME NEW s \in Streaks, NEW r \in Streaks, r <= s
  PROVE  StreakBonus(r) <= StreakBonus(s)
  BY DEF Streaks, StreakBonus

\* The points: the product of points, weight and the bonus of the streak, times
\* the bonus for time.
LEMMA RewardIs ==
  ASSUME NEW p \in Nat, NEW w \in Nat, NEW d \in Int, NEW n \in Nat \ {0}, NEW s \in Streaks
  PROVE  Reward(p, w, d, n, s) =
           Truncated(10 * (p * w * StreakBonus(s) * TimeBonus(d, n)[1]), 1000 * TimeBonus(d, n)[2])
<1> DEFINE b == TimeBonus(d, n)
           f == StreakBonus(s)
<1>1. b[1] \in Nat /\ b[2] \in Nat /\ f \in Nat
  BY BonusBetween, StreakBonusIs
<1>2. Reward(p, w, d, n, s) = Truncated(p * 10 * w * b[1] * f, b[2] * 1000)
  BY DEF Reward
<1> HIDE DEF b, f
<1>3. p * 10 * w * b[1] * f = 10 * (p * w * f * b[1]) /\ b[2] * 1000 = 1000 * b[2]
  BY <1>1
<1>4. Reward(p, w, d, n, s) = Truncated(10 * (p * w * f * b[1]), 1000 * b[2])
  BY <1>2, <1>3
<1> QED
  BY <1>4 DEF b, f

LEMMA RewardBetween ==
  ASSUME NEW p \in Nat, NEW w \in Nat, NEW d \in Int, NEW n \in Nat \ {0}, NEW s \in Streaks,
         NEW xp \in Reward(p, w, d, n, s)
  PROVE  /\ xp \in Nat
         /\ 50 * xp <= p * w * StreakBonus(s)
         /\ p * w * StreakBonus(s) <= 200 * (xp + 1)
<1> DEFINE f == StreakBonus(s)
           x == p * w * f
           b1 == TimeBonus(d, n)[1]
           b2 == TimeBonus(d, n)[2]
           num == 10 * (x * b1)
           den == 1000 * b2
           q == num \div den
<1>1. b1 \in Nat /\ b2 \in Nat \ {0} /\ b2 <= 2 * b1 /\ b1 <= 2 * b2
  BY BonusBetween
<1>2. xp \in Truncated(num, den)
  BY RewardIs
<1>3. x \in Nat
  <2>1. f \in Nat
    BY StreakBonusIs
  <2> HIDE DEF f
  <2> QED
    BY <2>1
<1> HIDE DEF x, b1, b2
<1>4. num \in Nat /\ den \in Nat \ {0}
  BY <1>1, <1>3
<1>6. q \in Nat /\ q * den <= num
  <2> HIDE DEF num, den
  <2> QED
    BY <1>4, Quotient
<1>7. xp \in Nat /\ xp <= q /\ num <= (xp + 1) * den
  <2> HIDE DEF num, den
  <2> QED
    BY <1>2, <1>4, TruncatedNear
<1> HIDE DEF q
\* The largest bonus doubles.
<1>8. 50 * q <= x
  <2>1. b1 * x <= (2 * b2) * x
    BY <1>1, <1>3, Scaled
  <2>2. (50 * q) * b2 <= x * b2
    BY <1>1, <1>3, <1>6, <2>1
  <2>3. 50 * q \in Nat
    BY <1>6
  <2> QED
    BY <1>1, <1>3, <2>2, <2>3, Unscaled
\* The smallest halves.
<1>9. x <= 200 * (xp + 1)
  <2>1. b2 * x <= (2 * b1) * x
    BY <1>1, <1>3, Scaled
  <2>2. x * b2 <= (200 * (xp + 1)) * b2
    BY <1>1, <1>3, <1>7, <2>1
  <2>3. 200 * (xp + 1) \in Nat
    BY <1>7
  <2> QED
    BY <1>1, <1>3, <2>2, <2>3, Unscaled
<1>10. 50 * xp <= x
  BY <1>3, <1>6, <1>7, <1>8
<1> QED
  BY <1>7, <1>9, <1>10 DEF x

\* Whoever takes longer, or has the shorter streak, is not given more, but for
\* what rounding takes.
LEMMA RewardFalls ==
  ASSUME NEW p \in Nat, NEW w \in Nat, NEW d \in Int, NEW n \in Nat \ {0},
         NEW m \in Nat \ {0}, n <= m, NEW s \in Streaks, NEW r \in Streaks, r <= s,
         NEW xp \in Reward(p, w, d, n, s), NEW less \in Reward(p, w, d, m, r)
  PROVE  less <= xp + 1
<1> DEFINE f == StreakBonus(s)
           g == StreakBonus(r)
           x == p * w * f
           y == p * w * g
           b1 == TimeBonus(d, n)[1]
           b2 == TimeBonus(d, n)[2]
           c1 == TimeBonus(d, m)[1]
           c2 == TimeBonus(d, m)[2]
           num == 10 * (x * b1)
           den == 1000 * b2
           lessNum == 10 * (y * c1)
           lessDen == 1000 * c2
<1>1. b1 \in Nat /\ b2 \in Nat \ {0} /\ c1 \in Nat /\ c2 \in Nat \ {0}
  BY BonusBetween
<1>2. c1 * b2 <= b1 * c2
  <2>1. CASE n = m
    BY <1>1, <2>1
  <2>2. CASE n < m
    BY <2>2, BonusFalls
  <2> QED
    BY <2>1, <2>2
<1>3. xp \in Truncated(num, den) /\ less \in Truncated(lessNum, lessDen)
  BY RewardIs
<1>4. x \in Nat /\ y \in Nat /\ y <= x
  <2>1. f \in Nat /\ g \in Nat /\ g <= f
    BY StreakBonusIs, StreakBonusRises
  <2>2. p * w \in Nat
    OBVIOUS
  <2> HIDE DEF f, g
  <2>3. g * (p * w) <= f * (p * w)
    BY <2>1, <2>2, Scaled
  <2> QED
    BY <2>1, <2>3
<1> HIDE DEF x, y, b1, b2, c1, c2
<1>5. num \in Nat /\ den \in Nat \ {0} /\ lessNum \in Nat /\ lessDen \in Nat \ {0}
  BY <1>1, <1>4
<1>6. lessNum * den <= num * lessDen
  <2>1. c1 * b2 \in Nat /\ b1 * c2 \in Nat /\ 10000 * y \in Nat /\ 10000 * x \in Nat
    BY <1>1, <1>4
  <2>2. (c1 * b2) * (10000 * y) <= (b1 * c2) * (10000 * y)
    BY <1>2, <2>1, Scaled
  <2>3. (10000 * y) * (b1 * c2) <= (10000 * x) * (b1 * c2)
    <3>1. 10000 * y <= 10000 * x
      BY <1>4
    <3> QED
      BY <2>1, <3>1, Scaled
  <2>4. (c1 * b2) * (10000 * y) <= (b1 * c2) * (10000 * x)
    <3> HIDE DEF num, den, lessNum, lessDen
    <3> QED
      BY <1>1, <1>4, <2>2, <2>3
  <2>5. lessNum * den = (c1 * b2) * (10000 * y) /\ num * lessDen = (b1 * c2) * (10000 * x)
    BY <1>1, <1>4
  <2> QED
    BY <2>4, <2>5
<1> HIDE DEF num, den, lessNum, lessDen
<1>7. lessNum \div lessDen <= num \div den
  BY <1>5, <1>6, QuotientsFollow
<1>8. /\ xp \in Nat /\ num \div den <= xp + 1
      /\ less \in Nat /\ less <= lessNum \div lessDen
  BY <1>3, <1>5, TruncatedNear
<1>9. num \div den \in Nat /\ lessNum \div lessDen \in Nat
  BY <1>5, Quotient
<1> QED
  BY <1>7, <1>8, <1>9

\* The calculation is made of numbers that make sense.
RewardInv ==
  quote # None => /\ quote.points \in Nat /\ quote.weight \in Nat
                  /\ quote.deadline \in Int /\ quote.actual \in Nat \ {0}

LEMMA RewardStep == RewardInv /\ [XpNext]_xpVars => RewardInv'
<1> SUFFICES ASSUME RewardInv, [XpNext]_xpVars PROVE RewardInv'
  OBVIOUS
<1>1. ASSUME NEW a \in Awarder, NEW u \in User, NEW s \in Sphere, NEW xp \in Amount,
             AddSphereXp(a, u, s, xp)
      PROVE  RewardInv'
  BY <1>1 DEF AddSphereXp, RewardInv
<1>2. ASSUME NEW a \in Awarder, InsertSkill(a)
      PROVE  RewardInv'
  BY <1>2 DEF InsertSkill, RewardInv
<1>3. ASSUME NEW a \in Awarder, Credit(a)
      PROVE  RewardInv'
  BY <1>3 DEF Credit, RewardInv
<1>4. ASSUME NEW a \in Awarder, NEW u \in User, NEW s \in Sphere, NEW p \in Points,
             NEW w \in Weight, NEW d \in DeadlineDays, NEW n \in ActualDays,
             CompleteTask(a, u, s, p, w, d, n)
      PROVE  RewardInv'
  <2>1. quote' = [points |-> p, weight |-> w, deadline |-> d, actual |-> n]
    BY <1>4, Zenon DEF CompleteTask
  <2>2. p \in Nat /\ w \in Nat /\ d \in Int /\ n \in Nat \ {0}
    BY XpAssumption
  <2> QED
    BY <2>1, <2>2 DEF RewardInv
<1>5. CASE UNCHANGED xpVars
  BY <1>5 DEF xpVars, RewardInv
<1> QED
  BY <1>1, <1>2, <1>3, <1>4, <1>5 DEF XpNext

(* Whatever the inputs of a calculation and the streak, the points lie      *)
(* between half and twice the story points times the bonus of the streak,   *)
(* and they rise neither with the days taken nor as the streak falls.       *)
THEOREM RewardsAreFair == XpSpec => []RewardFair
<1>1. XpInit => RewardInv
  BY DEF XpInit, RewardInv
<1>2. RewardInv => RewardFair
  <2> DEFINE Earned(days, streak) ==
               Reward(quote.points, quote.weight, quote.deadline, days, streak)
             Fair(streak, xp) ==
               /\ 50 * xp <= quote.points * quote.weight * StreakBonus(streak)
               /\ quote.points * quote.weight * StreakBonus(streak) <= 200 * (xp + 1)
               /\ \A days \in ActualDays, shorter \in Streaks :
                    days >= quote.actual /\ shorter <= streak =>
                      \A less \in Earned(days, shorter) : less <= xp + 1
  <2> SUFFICES ASSUME RewardInv, quote # None, NEW streak \in Streaks,
                      NEW xp \in Earned(quote.actual, streak)
               PROVE  Fair(streak, xp)
    BY DEF RewardFair
  <2>1. /\ quote.points \in Nat /\ quote.weight \in Nat
        /\ quote.deadline \in Int /\ quote.actual \in Nat \ {0}
    BY DEF RewardInv
  <2>2. /\ 50 * xp <= quote.points * quote.weight * StreakBonus(streak)
        /\ quote.points * quote.weight * StreakBonus(streak) <= 200 * (xp + 1)
    BY <2>1, RewardBetween
  <2>3. ASSUME NEW days \in ActualDays, NEW shorter \in Streaks,
               days >= quote.actual, shorter <= streak,
               NEW less \in Earned(days, shorter)
        PROVE  less <= xp + 1
    <3>1. days \in Nat \ {0} /\ quote.actual <= days
      BY <2>1, <2>3, XpAssumption
    <3> QED
      BY <2>1, <2>3, <3>1, RewardFalls
  <2> QED
    BY <2>2, <2>3
<1> QED
  BY RewardStep, <1>1, <1>2, PTL DEF XpSpec

-----------------------------------------------------------------------------
(* Accounts.  What the properties need beside the types is what a request   *)
(* in progress may rely on: the user it registers does not exist yet, and   *)
(* nobody else registers them; the user it changes exists.                  *)

Registering(c) == pending[c] # None /\ pending[c].op = "register"
Updating(c) == pending[c] # None /\ pending[c].op = "update"

\* What is under way fits the users there are.
Fits(c) ==
  /\ Registering(c) => /\ ~Exists(pending[c].user)
                       /\ pending[c].email \in Email /\ pending[c].username \in Username
  /\ Updating(c) => Exists(pending[c].user)

PendingSound ==
  /\ \A c \in Client : Fits(c)
  /\ \A c, d \in Client :
       Registering(c) /\ Registering(d) /\ pending[c].user = pending[d].user => c = d

AccountInv == AccountTypeOK /\ PendingSound /\ OneAccountEach

AccountRow == [state : {"active", "inactive"}, email : Email, username : Username]

LEMMA AccountsStart == AccountInit => AccountInv
  BY DEF AccountInit, AccountInv, AccountTypeOK, PendingSound, OneAccountEach, Fits,
         Registering, Updating, Exists, NoAccount

-----------------------------------------------------------------------------
\* A user who exists has a row.
LEMMA RowOf ==
  ASSUME AccountInv, NEW u \in User, Exists(u)
  PROVE  account[u] \in AccountRow
  BY DEF AccountInv, AccountTypeOK, Exists, NoAccount, AccountRow

\* A request that begins does so for a user that fits it.
LEMMA BeginChangeKeeps ==
  ASSUME AccountInv, NEW c \in Client, NEW p \in Change \cup Grant, pending[c] = None,
         pending' = [pending EXCEPT ![c] = p], UNCHANGED account,
         p.op = "register" => /\ ~Exists(p.user)
                              /\ p.email \in Email /\ p.username \in Username
                              /\ \A d \in Client : pending[d] # None => pending[d].user # p.user,
         p.op = "update" => Exists(p.user)
  PROVE  PendingSound' /\ pending' \in [Client -> Change \cup Grant \cup {None}]
<1>1. pending \in [Client -> Change \cup Grant \cup {None}]
  BY DEF AccountInv, AccountTypeOK
<1>2. /\ pending'[c] = p
      /\ \A d \in Client \ {c} : pending'[d] = pending[d]
  BY <1>1
<1>3. ASSUME NEW d \in Client, NEW e \in Client,
             Registering(d)', Registering(e)', pending'[d].user = pending'[e].user
      PROVE  d = e
  BY <1>2, <1>3 DEF Registering, AccountInv, PendingSound
<1>4. ASSUME NEW d \in Client PROVE Fits(d)'
  BY <1>2 DEF Fits, Registering, Updating, Exists, AccountInv, PendingSound
<1> QED
  BY <1>1, <1>3, <1>4 DEF PendingSound

\* A request that ends, or has only tokens to hand out, leaves the others what
\* they rely on.
LEMMA EndKeeps ==
  ASSUME AccountInv, NEW c \in Client, NEW next \in Grant \cup {None}, pending[c] # None,
         pending' = [pending EXCEPT ![c] = next],
         \A u \in User : Exists(u) => Exists(u)',
         \A u \in User : Exists(u)' => Exists(u) \/ (Registering(c) /\ u = pending[c].user)
  PROVE  PendingSound' /\ pending' \in [Client -> Change \cup Grant \cup {None}]
<1>1. pending \in [Client -> Change \cup Grant \cup {None}]
  BY DEF AccountInv, AccountTypeOK
<1>2. /\ pending'[c] = next
      /\ \A d \in Client \ {c} : pending'[d] = pending[d]
  BY <1>1
<1>0. next # None => next.op \notin {"register", "update"}
  BY DEF Grant
<1>3. \A d \in Client : (Registering(d)' => d # c /\ Registering(d))
                        /\ (Updating(d)' => d # c /\ Updating(d))
  BY <1>0, <1>2 DEF Registering, Updating
<1>4. \A d \in Client : pending[d] # None => pending[d].user \in User
  BY <1>1 DEF Change, Grant
<1>5. ASSUME NEW d \in Client PROVE Fits(d)'
  <2>1. CASE d = c \/ pending'[d] = None
    BY <1>0, <1>2, <2>1 DEF Fits, Registering, Updating
  <2>2. CASE d # c /\ pending'[d] # None
    <3>1. d # c /\ pending'[d] = pending[d] /\ pending[d].user \in User
      BY <1>2, <1>4, <2>2
    <3>2. Fits(d)
      BY DEF AccountInv, PendingSound
    <3>3. Registering(d) /\ Registering(c) => pending[d].user # pending[c].user
      BY <3>1 DEF AccountInv, PendingSound
    <3>4. Registering(d) => ~Exists(pending[d].user)'
      BY <3>1, <3>2, <3>3 DEF Fits
    <3>5. Updating(d) => Exists(pending[d].user)'
      BY <3>1, <3>2 DEF Fits
    <3> QED
      BY <3>1, <3>2, <3>4, <3>5 DEF Fits, Registering, Updating, Exists
  <2> QED
    BY <2>1, <2>2
<1>7. ASSUME NEW d \in Client, NEW e \in Client,
             Registering(d)', Registering(e)', pending'[d].user = pending'[e].user
      PROVE  d = e
  BY <1>2, <1>3, <1>7 DEF AccountInv, PendingSound
<1> QED
  BY <1>1, <1>5, <1>7 DEF PendingSound

\* One row is written, and the unique indexes let it pass.
LEMMA WriteKeeps ==
  ASSUME AccountInv, NEW u \in User, NEW row \in AccountRow,
         UniqueIn(u, row.email, row.username), account' = [account EXCEPT ![u] = row]
  PROVE  /\ account' \in [User -> {NoAccount} \cup AccountRow]
         /\ OneAccountEach'
         /\ \A v \in User : Exists(v)' <=> Exists(v) \/ v = u
<1>1. account \in [User -> {NoAccount} \cup AccountRow]
  BY DEF AccountInv, AccountTypeOK, AccountRow
<1>2. /\ account'[u] = row
      /\ \A v \in User \ {u} : account'[v] = account[v]
  BY <1>1
<1>3. row.state # "none"
  BY DEF AccountRow
<1>4. \A v \in User : Exists(v)' <=> Exists(v) \/ v = u
  BY <1>2, <1>3 DEF Exists
<1>5. ASSUME NEW v \in User, NEW w \in User, Exists(v)', Exists(w)',
             account'[v].email = account'[w].email \/ account'[v].username = account'[w].username
      PROVE  v = w
  BY <1>2, <1>4, <1>5 DEF UniqueIn, AccountInv, OneAccountEach
<1> QED
  BY <1>1, <1>4, <1>5 DEF OneAccountEach

-----------------------------------------------------------------------------
\* What an answer is of.
OutcomeOK == outcome = None \/ outcome \in
  [op : {"register", "welcome", "login", "renew", "update", "delete", "admin-delete"},
   user : User, ok : BOOLEAN]

LEMMA AnswerTyped ==
  ASSUME NEW op \in {"register", "welcome", "login", "renew", "update", "delete", "admin-delete"},
         NEW u \in User, NEW ok \in BOOLEAN, Answered(op, u, ok)
  PROVE  OutcomeOK'
  BY DEF Answered, OutcomeOK

\* The parts the types consist of.
LEMMA TypesInParts ==
  AccountTypeOK <=> /\ account \in [User -> {NoAccount} \cup AccountRow]
                    /\ pending \in [Client -> Change \cup Grant \cup {None}]
                    /\ token \subseteq [user : User, email : Email, type : TokenType]
                    /\ OutcomeOK
  BY DEF AccountTypeOK, OutcomeOK, AccountRow

LEMMA RegisterKeeps ==
  ASSUME AccountInv, NEW c \in Client, NEW u \in User, NEW e \in Email, NEW n \in Username,
         Register(c, u, e, n)
  PROVE  AccountInv'
<1>1. UNCHANGED <<account, token>>
  BY DEF Register
<1>2. OneAccountEach'
  BY <1>1 DEF AccountInv, OneAccountEach, Exists
<1>3. CASE TakenByAnyone(e, n)
  <2>1. UNCHANGED pending /\ Answered("register", u, FALSE)
    BY <1>3 DEF Register
  <2>2. OutcomeOK'
    BY <2>1, AnswerTyped
  <2>3. PendingSound'
    BY <1>1, <2>1 DEF AccountInv, PendingSound, Fits, Registering, Updating, Exists
  <2> QED
    BY <1>1, <1>2, <2>1, <2>2, <2>3 DEF AccountInv, AccountTypeOK, OutcomeOK
<1>4. CASE ~TakenByAnyone(e, n)
  <2> DEFINE p == [op |-> "register", user |-> u, email |-> e, username |-> n]
  <2>1. /\ pending' = [pending EXCEPT ![c] = p]
        /\ outcome' = None /\ pending[c] = None /\ ~Exists(u)
        /\ \A d \in Client : pending[d] # None => pending[d].user # u
    BY <1>4 DEF Register
  <2>2. p \in Change /\ p.op = "register" /\ p.user = u /\ p.email = e /\ p.username = n
    BY DEF Change
  <2> HIDE DEF p
  <2>3. PendingSound' /\ pending' \in [Client -> Change \cup Grant \cup {None}]
    BY <1>1, <2>1, <2>2, BeginChangeKeeps
  <2> QED
    BY <1>1, <1>2, <2>1, <2>3 DEF AccountInv, AccountTypeOK, AccountRow
<1> QED
  BY <1>3, <1>4

LEMMA UpdateProfileKeeps ==
  ASSUME AccountInv, NEW c \in Client, NEW u \in User, NEW e \in Email \cup {None},
         NEW n \in Username \cup {None}, UpdateMyProfile(c, u, e, n)
  PROVE  AccountInv'
<1>1. UNCHANGED <<account, token>> /\ Exists(u)
  BY DEF UpdateMyProfile, LoggedIn, Opens, Active, Exists
<1>2. OneAccountEach'
  BY <1>1 DEF AccountInv, OneAccountEach, Exists
<1>3. CASE TakenByActive("email", e) \/ TakenByActive("username", n)
  <2>1. UNCHANGED pending /\ Answered("update", u, FALSE)
    BY <1>3 DEF UpdateMyProfile
  <2>2. OutcomeOK'
    BY <2>1, AnswerTyped
  <2>3. PendingSound'
    BY <1>1, <2>1 DEF AccountInv, PendingSound, Fits, Registering, Updating, Exists
  <2> QED
    BY <1>1, <1>2, <2>1, <2>2, <2>3 DEF AccountInv, AccountTypeOK, OutcomeOK
<1>4. CASE ~(TakenByActive("email", e) \/ TakenByActive("username", n))
  <2> DEFINE p == [op |-> "update", user |-> u, email |-> e, username |-> n]
  <2>1. /\ pending' = [pending EXCEPT ![c] = p]
        /\ outcome' = None /\ pending[c] = None
    BY <1>4 DEF UpdateMyProfile
  <2>2. p \in Change /\ p.op = "update" /\ p.user = u
    BY DEF Change
  <2> HIDE DEF p
  <2>3. PendingSound' /\ pending' \in [Client -> Change \cup Grant \cup {None}]
    BY <1>1, <2>1, <2>2, BeginChangeKeeps
  <2> QED
    BY <1>1, <1>2, <2>1, <2>3 DEF AccountInv, AccountTypeOK, AccountRow
<1> QED
  BY <1>3, <1>4

LEMMA CommitRegisterKeeps ==
  ASSUME AccountInv, NEW c \in Client, CommitRegister(c)
  PROVE  AccountInv'
<1> DEFINE p == pending[c]
           row == [state |-> "active", email |-> p.email, username |-> p.username]
<1>1. /\ p # None /\ p.op = "register" /\ p \in Change /\ Registering(c)
  BY TypesInParts DEF CommitRegister, AccountInv, Registering, Grant
<1>0. p.email \in Email /\ p.username \in Username
  BY <1>1 DEF AccountInv, PendingSound, Fits
<1> HIDE DEF p
<1>2. CASE UniqueIn(p.user, p.email, p.username)
  <2>1. row \in AccountRow /\ row.email = p.email /\ row.username = p.username
    BY <1>0 DEF AccountRow
  <2>2. account' = [account EXCEPT ![p.user] = row]
    BY <1>2 DEF CommitRegister, p
  <2>3. /\ pending' = [pending EXCEPT ![c] = Reading("welcome", p.user, p.email, TokenType)]
        /\ outcome' = None /\ UNCHANGED token
    BY <1>2 DEF CommitRegister, p
  <2> HIDE DEF row
  <2>4. p.user \in User
    BY <1>1 DEF Change
  <2>5. /\ account' \in [User -> {NoAccount} \cup AccountRow]
        /\ OneAccountEach'
        /\ \A v \in User : Exists(v)' <=> Exists(v) \/ v = p.user
    BY <1>2, <2>1, <2>2, <2>4, WriteKeeps
  <2>6. PendingSound' /\ pending' \in [Client -> Change \cup Grant \cup {None}]
    <3>1. Reading("welcome", p.user, p.email, TokenType) \in Grant
      BY <1>0, <2>4 DEF Reading, Grant
    <3> QED
      BY <1>1, <2>3, <2>5, <3>1, EndKeeps DEF p
  <2> QED
    BY <2>3, <2>5, <2>6 DEF AccountInv, AccountTypeOK, AccountRow
<1>3. CASE ~UniqueIn(p.user, p.email, p.username)
  <2>1. /\ Answered("register", p.user, FALSE) /\ UNCHANGED <<account, token>>
        /\ pending' = [pending EXCEPT ![c] = None]
    BY <1>3 DEF CommitRegister, p
  <2>2. PendingSound' /\ pending' \in [Client -> Change \cup Grant \cup {None}]
    BY <1>1, <2>1, EndKeeps DEF p, Exists
  <2>3. OutcomeOK'
    BY <1>1, <2>1, AnswerTyped DEF Change
  <2>4. OneAccountEach'
    BY <2>1 DEF AccountInv, OneAccountEach, Exists
  <2> QED
    BY <2>1, <2>2, <2>3, <2>4 DEF AccountInv, AccountTypeOK, OutcomeOK, AccountRow
<1> QED
  BY <1>2, <1>3

\* What a change makes of a row is a row.
LEMMA ChangedIsRow ==
  ASSUME AccountInv, NEW u \in User, Exists(u), NEW e \in Email \cup {None},
         NEW n \in Username \cup {None}
  PROVE  Changed(u, e, n) \in AccountRow /\ Changed(u, e, n).state = account[u].state
<1>1. account[u] \in AccountRow
  BY RowOf
<1> QED
  BY <1>1 DEF Changed, AccountRow

LEMMA CommitProfileKeeps ==
  ASSUME AccountInv, NEW c \in Client, CommitProfile(c)
  PROVE  AccountInv'
<1> DEFINE p == pending[c]
           row == Changed(p.user, p.email, p.username)
<1>1. /\ p # None /\ p.op = "update" /\ p \in Change
      /\ pending' = [pending EXCEPT ![c] = None]
      /\ UNCHANGED token
  BY TypesInParts DEF CommitProfile, AccountInv, Grant
<1>2. Exists(p.user) /\ p.user \in User
  BY <1>1 DEF AccountInv, PendingSound, Fits, Updating, Change
<1> HIDE DEF p
<1>3. row \in AccountRow
  BY <1>1, <1>2, ChangedIsRow DEF Change
<1>4. CASE UniqueIn(p.user, row.email, row.username)
  <2>1. account' = [account EXCEPT ![p.user] = row]
    BY <1>4 DEF CommitProfile, p
  <2>2. PICK indexed \in BOOLEAN : Answered("update", p.user, Active(p.user) /\ indexed)
    BY <1>4 DEF CommitProfile, p
  <2> HIDE DEF row
  <2>3. /\ account' \in [User -> {NoAccount} \cup AccountRow]
        /\ OneAccountEach'
        /\ \A v \in User : Exists(v)' <=> Exists(v) \/ v = p.user
    BY <1>2, <1>3, <1>4, <2>1, WriteKeeps
  <2>4. PendingSound' /\ pending' \in [Client -> Change \cup Grant \cup {None}]
    BY <1>1, <1>2, <2>3, EndKeeps DEF p
  <2>5. (Active(p.user) /\ indexed) \in BOOLEAN
    BY DEF Active
  <2>6. OutcomeOK'
    BY <1>2, <2>2, <2>5, AnswerTyped
  <2> QED
    BY <1>1, <2>3, <2>4, <2>6 DEF AccountInv, AccountTypeOK, OutcomeOK, AccountRow
<1>5. CASE ~UniqueIn(p.user, row.email, row.username)
  <2>1. Answered("update", p.user, FALSE) /\ UNCHANGED account
    BY <1>5 DEF CommitProfile, p
  <2>2. PendingSound' /\ pending' \in [Client -> Change \cup Grant \cup {None}]
    BY <1>1, <2>1, EndKeeps DEF p, Exists
  <2>3. OutcomeOK'
    BY <1>2, <2>1, AnswerTyped
  <2>4. OneAccountEach'
    BY <2>1 DEF AccountInv, OneAccountEach, Exists
  <2> QED
    BY <1>1, <2>1, <2>2, <2>3, <2>4 DEF AccountInv, AccountTypeOK, OutcomeOK, AccountRow
<1> QED
  BY <1>4, <1>5

\* Tokens and answers alone.
LEMMA TokensKeep ==
  ASSUME AccountInv, UNCHANGED <<account, pending>>, OutcomeOK',
         token' \subseteq [user : User, email : Email, type : TokenType]
  PROVE  AccountInv'
<1>1. PendingSound'
  BY DEF AccountInv, PendingSound, Fits, Registering, Updating, Exists
<1>2. OneAccountEach'
  BY DEF AccountInv, OneAccountEach, Exists
<1> QED
  BY <1>1, <1>2 DEF AccountInv, AccountTypeOK, OutcomeOK

\* A request has read the account it will hand out tokens of.
LEMMA GrantKeeps ==
  ASSUME AccountInv, NEW c \in Client, NEW p \in Grant, pending[c] = None,
         pending' = [pending EXCEPT ![c] = p], UNCHANGED <<account, token>>, outcome' = None
  PROVE  AccountInv'
<1>1. p.op \notin {"register", "update"}
  BY DEF Grant
<1>2. PendingSound' /\ pending' \in [Client -> Change \cup Grant \cup {None}]
  BY <1>1, BeginChangeKeeps
<1>3. OneAccountEach'
  BY DEF AccountInv, OneAccountEach, Exists
<1> QED
  BY <1>2, <1>3 DEF AccountInv, AccountTypeOK

LEMMA LoginKeeps ==
  ASSUME AccountInv, NEW c \in Client, NEW u \in User, NEW name, Login(c, u, name)
  PROVE  AccountInv'
<1> DEFINE p == Reading("login", u, account[u].email, TokenType)
<1>1. CASE /\ pending[c] = None /\ pending' = [pending EXCEPT ![c] = p]
           /\ outcome' = None /\ UNCHANGED <<account, token>>
  <2>1. account[u].email \in Email
    BY RowOf DEF Login, Active, Exists, AccountRow
  <2>2. p \in Grant
    BY <2>1 DEF Reading, Grant
  <2> HIDE DEF p
  <2> QED
    BY <1>1, <2>2, GrantKeeps
<1>2. CASE Answered("login", u, FALSE) /\ UNCHANGED <<account, token, pending>>
  <2>1. OutcomeOK'
    BY <1>2, AnswerTyped
  <2> QED
    BY <1>2, <2>1, TokensKeep DEF AccountInv, AccountTypeOK
<1> QED
  BY <1>1, <1>2 DEF Login

LEMMA RenewKeeps ==
  ASSUME AccountInv, NEW c \in Client, NEW t \in token, NEW type \in TokenType, Renew(c, t, type)
  PROVE  AccountInv'
<1> DEFINE p == Reading("renew", t.user, t.email, {type})
<1>1. t.user \in User /\ t.email \in Email
  BY DEF AccountInv, AccountTypeOK
<1>2. p \in Grant
  BY <1>1 DEF Reading, Grant
<1>3. /\ pending[c] = None /\ pending' = [pending EXCEPT ![c] = p]
      /\ outcome' = None /\ UNCHANGED <<account, token>>
  BY DEF Renew
<1> HIDE DEF p
<1> QED
  BY <1>2, <1>3, GrantKeeps

\* A request ends that had only tokens to hand out.
LEMMA AnsweredKeeps ==
  ASSUME AccountInv, NEW c \in Client, pending[c] # None, pending' = [pending EXCEPT ![c] = None],
         UNCHANGED account, OutcomeOK',
         token' \subseteq [user : User, email : Email, type : TokenType]
  PROVE  AccountInv'
<1>1. PendingSound' /\ pending' \in [Client -> Change \cup Grant \cup {None}]
  BY EndKeeps DEF Exists
<1>2. OneAccountEach'
  BY DEF AccountInv, OneAccountEach, Exists
<1> QED
  BY <1>1, <1>2 DEF AccountInv, AccountTypeOK, OutcomeOK

LEMMA HandOutKeeps ==
  ASSUME AccountInv, NEW c \in Client, HandOut(c) \/ WelcomeFails(c)
  PROVE  AccountInv'
<1> DEFINE p == pending[c]
           made == {[user |-> p.user, email |-> p.email, type |-> t] : t \in p.types}
<1>1. p # None /\ p \in Grant
  BY DEF AccountInv, AccountTypeOK, Change, HandOut, WelcomeFails
<1>2. /\ p.user \in User /\ p.email \in Email /\ p.types \subseteq TokenType
      /\ p.op \in {"welcome", "login", "renew"}
  BY <1>1 DEF Grant
<1>3. /\ pending' = [pending EXCEPT ![c] = None] /\ UNCHANGED account
      /\ Answered(p.op, p.user, TRUE) \/ Answered("welcome", p.user, FALSE)
      /\ token' = token \/ token' = token \cup made
  BY DEF HandOut, WelcomeFails
<1> HIDE DEF p
<1>4. made \subseteq [user : User, email : Email, type : TokenType]
  BY <1>2
<1> HIDE DEF made
<1>5. token' \subseteq [user : User, email : Email, type : TokenType]
  BY <1>3, <1>4 DEF AccountInv, AccountTypeOK
<1>6. OutcomeOK'
  BY <1>2, <1>3, AnswerTyped
<1> QED
  BY <1>1, <1>3, <1>5, <1>6, AnsweredKeeps DEF p

LEMMA DeleteProfileKeeps == ASSUME AccountInv, NEW u \in User, DeleteMyProfile(u) PROVE AccountInv'
<1> DEFINE row == [account[u] EXCEPT !.state = "inactive"]
<1>1. account[u] \in AccountRow /\ Exists(u)
  BY RowOf DEF DeleteMyProfile, LoggedIn, Opens, Active, Exists
<1>2. row \in AccountRow /\ row.email = account[u].email /\ row.username = account[u].username
  BY <1>1 DEF AccountRow
<1>3. /\ account' = [account EXCEPT ![u] = row]
      /\ UNCHANGED <<pending, token>>
  BY DEF DeleteMyProfile
<1>4. Answered("delete", u, FALSE)
  BY DEF DeleteMyProfile
<1> HIDE DEF row
<1>5. UniqueIn(u, row.email, row.username)
  BY <1>1, <1>2 DEF UniqueIn, AccountInv, OneAccountEach
<1>6. /\ account' \in [User -> {NoAccount} \cup AccountRow]
      /\ OneAccountEach'
      /\ \A v \in User : Exists(v)' <=> Exists(v) \/ v = u
  BY <1>2, <1>3, <1>5, WriteKeeps
<1>7. \A c \in Client : pending[c] # None => pending[c].user \in User
  BY DEF AccountInv, AccountTypeOK, Change, Grant
<1>8. PendingSound'
  <2>1. ASSUME NEW c \in Client PROVE Fits(c)'
    <3>1. Fits(c)
      BY DEF AccountInv, PendingSound
    <3> QED
      BY <1>1, <1>3, <1>6, <1>7, <3>1 DEF Fits, Registering, Updating, Exists
  <2> QED
    BY <1>3, <2>1 DEF AccountInv, PendingSound, Registering
<1>9. OutcomeOK'
  BY <1>4, AnswerTyped
<1> QED
  BY <1>3, <1>6, <1>8, <1>9 DEF AccountInv, AccountTypeOK, OutcomeOK, AccountRow

LEMMA AdminKeeps == ASSUME AccountInv, NEW a \in User, NEW u \in User, AdminDeleteUser(a, u)
                    PROVE  AccountInv'
<1>1. OutcomeOK'
  BY AnswerTyped DEF AdminDeleteUser
<1> QED
  BY <1>1, TokensKeep DEF AdminDeleteUser, AccountInv, AccountTypeOK

-----------------------------------------------------------------------------
LEMMA AccountStep == AccountInv /\ [AccountNext]_accountVars => AccountInv'
<1> SUFFICES ASSUME AccountInv, [AccountNext]_accountVars PROVE AccountInv'
  OBVIOUS
<1>1. CASE AuthRequest
  <2>1. ASSUME NEW c \in Client, CommitRegister(c) PROVE AccountInv'
    BY <2>1, CommitRegisterKeeps
  <2>2. ASSUME NEW c \in Client, NEW u \in User, NEW e \in Email, NEW n \in Username,
               Register(c, u, e, n)
        PROVE  AccountInv'
    BY <2>2, RegisterKeeps
  <2>3. ASSUME NEW c \in Client, NEW u \in User, NEW name, Login(c, u, name) PROVE AccountInv'
    BY <2>3, LoginKeeps
  <2>4. ASSUME NEW c \in Client, NEW t \in token, AccessToken(c, t) \/ RefreshToken(c, t)
        PROVE  AccountInv'
    BY <2>4, RenewKeeps DEF AccessToken, RefreshToken, TokenType
  <2> QED
    BY <1>1, <2>1, <2>2, <2>3, <2>4, HandOutKeeps DEF AuthRequest
<1>2. CASE ProfileRequest
  <2>1. ASSUME NEW c \in Client, CommitProfile(c) PROVE AccountInv'
    BY <2>1, CommitProfileKeeps
  <2>2. ASSUME NEW c \in Client, NEW u \in User, NEW e \in Email \cup {None},
               NEW n \in Username \cup {None}, UpdateMyProfile(c, u, e, n)
        PROVE  AccountInv'
    BY <2>2, UpdateProfileKeeps
  <2>3. ASSUME NEW u \in User, DeleteMyProfile(u) PROVE AccountInv'
    BY <2>3, DeleteProfileKeeps
  <2> QED
    BY <1>2, <2>1, <2>2, <2>3 DEF ProfileRequest
<1>3. CASE \E a, u \in User : AdminDeleteUser(a, u)
  BY <1>3, AdminKeeps
<1>4. CASE UNCHANGED accountVars
  <2>1. UNCHANGED <<account, pending, token, outcome>>
    BY <1>4 DEF accountVars
  <2>2. OutcomeOK'
    BY <2>1 DEF AccountInv, AccountTypeOK, OutcomeOK
  <2> QED
    BY <2>1, <2>2, TokensKeep DEF AccountInv, AccountTypeOK
<1> QED
  BY <1>1, <1>2, <1>3, <1>4 DEF AccountNext

(* Rows, requests under way, tokens and answers have their types.           *)
THEOREM AccountTypes == AccountSpec => []AccountTypeOK
<1>1. AccountInv => AccountTypeOK
  BY DEF AccountInv
<1> QED
  BY AccountsStart, AccountStep, <1>1, PTL DEF AccountSpec

(* No two accounts share an address or a name, however many registrations   *)
(* and changes of profile are under way.                                    *)
THEOREM AccountsDistinct == AccountSpec => []OneAccountEach
<1>1. AccountInv => OneAccountEach
  BY DEF AccountInv
<1> QED
  BY AccountsStart, AccountStep, <1>1, PTL DEF AccountSpec

-----------------------------------------------------------------------------
\* What StaysDeleted says of one step.
DeletedKept ==
  \A u \in User : account[u].state = "inactive" =>
    account'[u].state = "inactive" /\ ~LoggedIn(u)'

\* Only the state of the row counts: no token opens a deleted account.
LEMMA StateDecides ==
  ASSUME \A u \in User : account[u].state = "inactive" => account'[u].state = "inactive"
  PROVE  DeletedKept
  BY DEF DeletedKept, LoggedIn, Opens, Active

LEMMA RegisteringKeepsDeleted ==
  ASSUME AccountInv, NEW c \in Client, CommitRegister(c)
  PROVE  DeletedKept
<1> DEFINE p == pending[c]
<1>1. p \in Change /\ Registering(c)
  BY DEF CommitRegister, Registering, AccountInv, AccountTypeOK, Grant
<1>2. p.user \in User /\ account[p.user].state = "none"
  BY <1>1 DEF AccountInv, PendingSound, Fits, Exists, Change
<1>3. account \in [User -> {NoAccount} \cup AccountRow]
  BY DEF AccountInv, AccountTypeOK, AccountRow
<1>4. \A u \in User \ {p.user} : account'[u] = account[u]
  BY <1>3 DEF CommitRegister
<1> QED
  BY <1>2, <1>4, StateDecides

LEMMA ProfileKeepsDeleted ==
  ASSUME AccountInv, NEW c \in Client, CommitProfile(c)
  PROVE  DeletedKept
<1> DEFINE p == pending[c]
           row == Changed(p.user, p.email, p.username)
<1>1. p \in Change /\ Updating(c)
  BY DEF CommitProfile, Updating, AccountInv, AccountTypeOK, Grant
<1>2. Exists(p.user) /\ p.user \in User
  BY <1>1 DEF AccountInv, PendingSound, Fits, Change
<1>3. row.state = account[p.user].state
  BY <1>1, <1>2, ChangedIsRow DEF Change
<1>4. account \in [User -> {NoAccount} \cup AccountRow]
  BY DEF AccountInv, AccountTypeOK, AccountRow
<1>5. \A u \in User : account'[u].state = account[u].state
  <2>1. CASE UNCHANGED account
    BY <2>1
  <2>2. CASE account' = [account EXCEPT ![p.user] = row]
    <3> HIDE DEF row
    <3> QED
      BY <1>3, <1>4, <2>2
  <2> QED
    BY <2>1, <2>2 DEF CommitProfile
<1> QED
  BY <1>5, StateDecides

LEMMA StepKeepsDeleted == AccountInv /\ [AccountNext]_accountVars => DeletedKept
<1> SUFFICES ASSUME AccountInv, [AccountNext]_accountVars PROVE DeletedKept
  OBVIOUS
<1>1. CASE AuthRequest
  <2>1. ASSUME NEW c \in Client, CommitRegister(c) PROVE DeletedKept
    BY <2>1, RegisteringKeepsDeleted
  <2>2. CASE UNCHANGED account
    BY <2>2, StateDecides
  <2> QED
    BY <1>1, <2>1, <2>2 DEF AuthRequest, Register, WelcomeFails, Login, AccessToken, RefreshToken,
                            Renew, HandOut
<1>2. CASE ProfileRequest
  <2>1. ASSUME NEW c \in Client, CommitProfile(c) PROVE DeletedKept
    BY <2>1, ProfileKeepsDeleted
  <2>2. ASSUME NEW c \in Client, NEW u \in User, NEW e \in Email \cup {None},
               NEW n \in Username \cup {None}, UpdateMyProfile(c, u, e, n)
        PROVE  DeletedKept
    BY <2>2, StateDecides DEF UpdateMyProfile
  <2>3. ASSUME NEW u \in User, DeleteMyProfile(u) PROVE DeletedKept
    <3>1. account \in [User -> {NoAccount} \cup AccountRow] /\ account[u] \in AccountRow
      BY <2>3, RowOf DEF AccountInv, AccountTypeOK, AccountRow, DeleteMyProfile, LoggedIn, Opens, Active, Exists
    <3>2. account'[u].state = "inactive" /\ \A v \in User \ {u} : account'[v] = account[v]
      BY <2>3, <3>1 DEF DeleteMyProfile, AccountRow
    <3> QED
      BY <3>2, StateDecides
  <2> QED
    BY <1>2, <2>1, <2>2, <2>3 DEF ProfileRequest
<1>3. CASE \E a, u \in User : AdminDeleteUser(a, u)
  BY <1>3, StateDecides DEF AdminDeleteUser
<1>4. CASE UNCHANGED accountVars
  BY <1>4, StateDecides DEF accountVars
<1> QED
  BY <1>1, <1>2, <1>3, <1>4 DEF AccountNext

(* A deleted account stays deleted and closed to every token, whatever was  *)
(* under way when it was deleted.                                           *)
THEOREM DeletedForGood == AccountSpec => StaysDeleted
<1>1. AccountSpec => []AccountInv
  BY AccountsStart, AccountStep, PTL DEF AccountSpec
<1>2. AccountInv /\ [AccountNext]_accountVars => [DeletedKept]_accountVars
  BY StepKeepsDeleted
<1>3. AccountSpec => [][DeletedKept]_accountVars
  BY <1>1, <1>2, PTL DEF AccountSpec
<1> QED
  BY <1>3 DEF StaysDeleted, DeletedKept
=============================================================================
