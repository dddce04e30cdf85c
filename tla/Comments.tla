------------------------------ MODULE Comments ------------------------------
(***************************************************************************)
(* Comments on tasks: service/comment.py with its transactions, repository *)
(* and endpoints.  A request reads first and writes later; the keys of the *)
(* table decide what a write that comes too late does.  After the commit a *)
(* document is saved, under an id Elasticsearch makes up: a comment has as *)
(* many as it was saved, and none of them is found by the id of the row.   *)
(***************************************************************************)
EXTENDS Platform, Naturals, Sequences

CONSTANTS Writer,      \* requests in progress, side by side
          Board,       \* tasks one may comment on
          Content,
          MaxComments  \* bound: comments ever inserted

ASSUME CommentAssumption == MaxComments \in Nat /\ None \notin Content \cup Board

VARIABLES
  open,        \* the tasks that are active
  comment,     \* the rows of table comments, by id; None once deleted
  commentDoc,  \* the documents of the comments, by the id they show
  writing,     \* per writer the request it is in
  missed       \* the comments Elasticsearch failed to take a document of

commentVars == <<open, comment, commentDoc, writing, missed>>

-----------------------------------------------------------------------------
CommentId == 1..MaxComments
CommentRow == [task : Board, author : User, parent : CommentId \cup {None}, content : Content]

ASSUME NoRowAssumption == None \notin CommentRow

NoWriting == [at |-> "idle"]
Present == {i \in DOMAIN comment : comment[i] # None}
Replies(i) == {j \in Present : comment[j].parent = i}
Free(w) == writing[w] = NoWriting

\* A request begins with its reads.
Begin(w, call) ==
  /\ Free(w)
  /\ writing' = [writing EXCEPT ![w] = call]
  /\ UNCHANGED <<open, comment, commentDoc, missed>>

\* Its transaction commits the row of comment i and goes on to the index, or fails.
Commit(w, rows, next) ==
  /\ comment' = rows
  /\ writing' = [writing EXCEPT ![w] = next]
  /\ UNCHANGED <<open, commentDoc, missed>>

Refuse(w) == Commit(w, comment, NoWriting)

-----------------------------------------------------------------------------
\* The task is deleted; its comments stay.
CloseTask(t) ==
  /\ open' = open \ {t}
  /\ UNCHANGED <<comment, commentDoc, writing, missed>>

\* create_comment reads the task and the parent, which is of the same task.
CreateComment(w, u, t, parent, content) ==
  /\ t \in open
  /\ parent # None => parent \in Present /\ comment[parent].task = t
  /\ Begin(w, [at |-> "insert", row |-> [task |-> t, author |-> u, parent |-> parent,
                                         content |-> content]])

\* The insert; the foreign key refuses a reply to what is no longer there.
InsertComment(w) ==
  LET row == writing[w].row IN
  /\ writing[w].at = "insert" /\ Len(comment) < MaxComments
  /\ IF row.parent = None \/ row.parent \in Present
     THEN Commit(w, Append(comment, row),
                 [at |-> "index", id |-> Len(comment) + 1, row |-> row])
     ELSE Refuse(w)

\* update_comment and delete_comment are for the author.
UpdateComment(w, u, i, content) ==
  /\ i \in Present /\ comment[i].author = u
  /\ Begin(w, [at |-> "update", id |-> i, row |-> [comment[i] EXCEPT !.content = content]])

\* Mutant: a change is not indexed.
CommitUpdateOnly(w) ==
  LET i == writing[w].id IN
  /\ writing[w].at = "update"
  /\ Commit(w, IF i \in Present THEN [comment EXCEPT ![i] = writing[w].row] ELSE comment, NoWriting)

\* The row takes the content, or the update finds no row and fails.
CommitCommentUpdate(w) ==
  LET i == writing[w].id
      row == writing[w].row
  IN
  /\ writing[w].at = "update"
  /\ IF i \in Present
     THEN Commit(w, [comment EXCEPT ![i] = row], [at |-> "index", id |-> i, row |-> row])
     ELSE Refuse(w)

DeleteComment(w, u, i) ==
  /\ i \in Present /\ comment[i].author = u
  /\ Begin(w, [at |-> "delete", id |-> i])

\* Mutant: the replies do not keep their parent.
CommitDeleteRegardless(w) ==
  /\ writing[w].at = "delete"
  /\ Commit(w, [comment EXCEPT ![writing[w].id] = None], [at |-> "unindex", id |-> writing[w].id])

\* A comment with replies cannot be deleted; one that is gone is deleted again.
CommitCommentDelete(w) ==
  LET i == writing[w].id IN
  /\ writing[w].at = "delete"
  /\ IF Replies(i) = {}
     THEN Commit(w, [comment EXCEPT ![i] = None], [at |-> "unindex", id |-> i])
     ELSE Refuse(w)

\* Indexer.index saves a document, or Elasticsearch fails.
IndexComment(w) ==
  LET i == writing[w].id IN
  /\ writing[w].at = "index"
  /\ writing' = [writing EXCEPT ![w] = NoWriting]
  /\ \/ /\ commentDoc' = [commentDoc EXCEPT ![i] = @ \cup {writing[w].row}]
        /\ UNCHANGED missed
     \/ /\ missed' = missed \cup {i}
        /\ UNCHANGED commentDoc
  /\ UNCHANGED <<open, comment>>

\* Indexer.delete looks under the id of the row, finds no document, and the
\* request ends with an error.
UnindexComment(w) ==
  /\ writing[w].at = "unindex"
  /\ writing' = [writing EXCEPT ![w] = NoWriting]
  /\ UNCHANGED <<open, comment, commentDoc, missed>>

-----------------------------------------------------------------------------
CommentInit ==
  /\ open = Board
  /\ comment = <<>>
  /\ commentDoc = [i \in CommentId |-> {}]
  /\ writing = [w \in Writer |-> NoWriting]
  /\ missed = {}

CommentRequest(w, u) ==
  \/ \E t \in Board, p \in DOMAIN comment \cup {None}, c \in Content : CreateComment(w, u, t, p, c)
  \/ \E i \in DOMAIN comment : \/ DeleteComment(w, u, i)
                               \/ \E c \in Content : UpdateComment(w, u, i, c)

CommentNext ==
  \/ \E t \in Board : CloseTask(t)
  \/ \E w \in Writer :
       \/ InsertComment(w) \/ CommitCommentUpdate(w) \/ CommitCommentDelete(w)
       \/ IndexComment(w) \/ UnindexComment(w)
       \/ \E u \in User : CommentRequest(w, u)

CommentSpec == CommentInit /\ [][CommentNext]_commentVars

-----------------------------------------------------------------------------
CommentTypeOK ==
  /\ open \in SUBSET Board
  /\ comment \in Seq(CommentRow \cup {None}) /\ Len(comment) <= MaxComments
  /\ commentDoc \in [CommentId -> SUBSET CommentRow]
  /\ missed \in SUBSET CommentId
  /\ \A w \in Writer :
       \/ writing[w] = NoWriting
       \/ writing[w] \in [at : {"insert"}, row : CommentRow]
       \/ writing[w] \in [at : {"update", "index"}, id : DOMAIN comment, row : CommentRow]
       \/ writing[w] \in [at : {"delete", "unindex"}, id : DOMAIN comment]

(* A reply always has its parent, on the same task: the parent cannot go    *)
(* while a reply is there, nor a reply come after it went (the comment      *)
(* transactions and the foreign key of Comment.parent_id).  The replies are *)
(* not deleted with it, as the endpoint's description has it.               *)
RepliesHaveParents ==
  \A i \in Present :
    LET p == comment[i].parent IN
    p # None => p \in Present /\ comment[p].task = comment[i].task

(* However requests overlap, and whichever commits or saves last: a comment *)
(* that exists is found as it is, once those that have changed it have      *)
(* saved its document, unless Elasticsearch failed one of them.  It may be  *)
(* found as it was, too, and so may one that was deleted (CommentService).  *)
CommentsFound ==
  \A i \in Present \ missed :
    (\A w \in Writer : writing[w].at = "index" => writing[w].id # i) => comment[i] \in commentDoc[i]
=============================================================================
