------------------------ MODULE DeploymentPage_proofs ------------------------
(* The parts of the deployment page that keep what is on the screen and what  *)
(* the API has in step: the workspace that is open, the Deploy tab, the Users *)
(* tab and the dialog of a device.  Each part has an inductive invariant of   *)
(* its own: under the flags that say which of the orders the code does not    *)
(* master has happened, it ties every answer that is still on its way to the  *)
(* state it was asked in.  What is proved of a part holds of the page         *)
(* (PageIsItsParts), and so do the types of all parts (PageKeepsTypes).       *)
EXTENDS MCWorkspacePage, FiniteSetTheorems, TLAPS

-----------------------------------------------------------------------------
\* The types of the open workspace: an operation is
\* a full record, one that opens the page has a candidate left while it asks
\* for one, and a creation names the workspace that it made.
Kinds == {"init", "select", "create", "delete", "change"}
Pcs == {"list", "files", "post", "made", "relist", "delete", "listed", "change"}
AnOp == [kind : Kinds,
         pc : Pcs, id : Maybe, rest : Seq(Maybe \cup {Stored}),
         user : {User, NoUser}, open : BOOLEAN, answered : BOOLEAN, reply : Replies]
\* An operation that opens the page has a candidate left while it asks for one.
HasCandidate(o) == o.kind = "init" => o.pc = "list" \/ (o.pc = "files" /\ o.rest # <<>>)
\* A creation names the workspace that it made.
NamesMade(o) ==
  /\ o.pc \in {"made", "listed", "change"} => o.id \in WorkspaceIds
  /\ o.pc = "post" /\ o.reply.ok => o.reply.id \in WorkspaceIds
Fits(o) == HasCandidate(o) /\ NamesMade(o)

ServerTyped ==
  /\ exists \in SUBSET WorkspaceIds /\ anonymous \in SUBSET WorkspaceIds /\ gone \in SUBSET WorkspaceIds
  /\ session \in {User, NoUser}
ListsTyped == list \in SUBSET WorkspaceIds /\ saved \in SUBSET WorkspaceIds /\ userId \in {User, NoUser} /\ initDue \in BOOLEAN
OpenTyped == workspaceId \in Maybe /\ tree \in Maybe \cup Lates /\ url \in Maybe /\ stored \in Maybe /\ panelLoading \in BOOLEAN
SelectionRest ==
  /\ ServerTyped /\ ListsTyped /\ OpenTyped
  /\ storedAny \in Maybe /\ deleting \in Maybe /\ torn \in BOOLEAN
  /\ ops \in [OpSlots -> AnOp \cup {NoOp}]
  /\ \A i \in OpSlots : ops[i] # NoOp => Fits(ops[i])

LEMMA AnOpIsNot == NoOp \notin AnOp /\ NoReply \in Replies /\ NoId \in Maybe
  BY DEF AnOp, NoOp, NoReply, Replies, Maybe
LEMMA Awaited == "list" \in Pcs /\ "files" \in Pcs /\ "post" \in Pcs /\ "made" \in Pcs /\ "relist" \in Pcs /\ "delete" \in Pcs /\ "listed" \in Pcs /\ "change" \in Pcs
  BY DEF Pcs
LEMMA Asked == "init" \in Kinds /\ "select" \in Kinds /\ "create" \in Kinds /\ "delete" \in Kinds /\ "change" \in Kinds
  BY DEF Kinds

\* An operation as it starts and as it goes on to another await.
LEMMA StartTyped ==
  ASSUME SelectionRest, NEW kind \in Kinds,
         NEW pc \in Pcs, NEW id \in Maybe
  PROVE  /\ Op(kind, pc, id, <<>>) \in AnOp /\ Op(kind, pc, id, <<>>).kind = kind /\ Op(kind, pc, id, <<>>).pc = pc
         /\ Op(kind, pc, id, <<>>).reply = NoReply
  BY AnOpIsNot DEF Op, AnOp, SelectionRest, ListsTyped

LEMMA AwaitTyped ==
  ASSUME NEW o \in AnOp, NEW pc \in Pcs, NEW id \in Maybe
  PROVE  /\ Await(o, pc, id) \in AnOp /\ Await(o, pc, id).kind = o.kind /\ Await(o, pc, id).pc = pc
         /\ Await(o, pc, id).id = id /\ Await(o, pc, id).reply = NoReply
  BY AnOpIsNot DEF Await, AnOp

\* It goes on with other candidates, or as a creation.
LEMMA CandidatesReplaced ==
  ASSUME NEW a \in AnOp, NEW rest \in Seq(Maybe \cup {Stored})
  PROVE  /\ [a EXCEPT !.rest = rest] \in AnOp
         /\ [a EXCEPT !.rest = rest].kind = a.kind
         /\ [a EXCEPT !.rest = rest].pc = a.pc
         /\ [a EXCEPT !.rest = rest].rest = rest
  BY DEF AnOp
LEMMA BecomesCreation ==
  ASSUME NEW a \in AnOp
  PROVE  /\ [a EXCEPT !.kind = "create", !.rest = <<>>] \in AnOp /\ [a EXCEPT !.kind = "create", !.rest = <<>>].kind = "create"
         /\ [a EXCEPT !.kind = "create", !.rest = <<>>].pc = a.pc /\ [a EXCEPT !.kind = "create", !.rest = <<>>].reply = a.reply
  <1>1. <<>> \in Seq(Maybe \cup {Stored})
    OBVIOUS
  <1> QED
    BY Asked, Awaited, <1>1 DEF AnOp

LEMMA GoToTyped ==
  ASSUME SelectionRest, NEW i \in OpSlots, NEW o \in AnOp \cup {NoOp}, o = NoOp \/ Fits(o), GoTo(i, o)
  PROVE  ops' \in [OpSlots -> AnOp \cup {NoOp}] /\ \A j \in OpSlots : ops'[j] # NoOp => Fits(ops'[j])
  <1>1. /\ ops' = [ops EXCEPT ![i] = o] /\ ops \in [OpSlots -> AnOp \cup {NoOp}]
        /\ \A j \in OpSlots : ops[j] # NoOp => Fits(ops[j])
    BY DEF GoTo, SelectionRest
  <1> QED
    BY <1>1

\* The next candidate is asked for, or a new workspace.
LEMMA TriesTyped ==
  ASSUME SelectionRest, NEW i \in OpSlots, NEW o \in AnOp, NEW rest \in Seq(Maybe \cup {Stored}), TryNext(i, o, rest)
  PROVE  /\ ops' \in [OpSlots -> AnOp \cup {NoOp}] /\ \A j \in OpSlots : ops'[j] # NoOp => Fits(ops'[j])
         /\ OpenTyped'
  <1> DEFINE next == IF rest = <<>> THEN NoId ELSE IF Head(rest) = Stored THEN storedAny ELSE Head(rest)
             x == [Await(o, "files", next) EXCEPT !.rest = rest]
             y == [Await(o, "post", NoId) EXCEPT !.kind = "create", !.rest = <<>>]
  <1>1. next \in Maybe
    BY AnOpIsNot DEF SelectionRest
  <1>2. CASE next = NoId
    <2>1. GoTo(i, y) /\ panelLoading' = TRUE /\ UNCHANGED <<workspaceId, tree, url, stored>>
      BY <1>2 DEF TryNext, Post
    <2>0. Await(o, "post", NoId) \in AnOp /\ Await(o, "post", NoId).pc = "post" /\ Await(o, "post", NoId).reply = NoReply
      BY Asked, Awaited, AnOpIsNot, AwaitTyped
    <2>2. y \in AnOp /\ y.kind = "create" /\ y.pc = "post" /\ y.reply = NoReply
      <3> DEFINE b == Await(o, "post", NoId)
      <3>1. b \in AnOp /\ b.pc = "post" /\ b.reply = NoReply
        BY <2>0
      <3> HIDE DEF b
      <3> QED
        BY Zenon, <3>1, BecomesCreation DEF b
    <2> HIDE DEF y
    <2>3. Fits(y)
      BY <2>2 DEF Fits, HasCandidate, NamesMade, NoReply
    <2>4. OpenTyped'
      BY <2>1 DEF SelectionRest, OpenTyped
    <2> QED
      BY <2>1, <2>2, <2>3, <2>4, GoToTyped
  <1>3. CASE next # NoId
    <2>1. GoTo(i, x) /\ tree' = NoId /\ panelLoading' = TRUE /\ UNCHANGED <<workspaceId, url, stored>>
      BY <1>3 DEF TryNext, Open
    <2>2. rest # <<>>
      BY <1>3
    <2> HIDE DEF next
    <2> DEFINE a == Await(o, "files", next)
    <2>0. a \in AnOp /\ a.kind = o.kind /\ a.pc = "files"
      BY Asked, Awaited, <1>1, AwaitTyped
    <2>3. x \in AnOp /\ x.kind = a.kind /\ x.pc = a.pc /\ x.rest = rest
      BY <2>0, CandidatesReplaced
    <2> HIDE DEF a
    <2> HIDE DEF x
    <2>4. Fits(x)
      BY <2>0, <2>2, <2>3 DEF Fits, HasCandidate, NamesMade
    <2>5. OpenTyped'
      BY <2>1, AnOpIsNot DEF SelectionRest, OpenTyped
    <2> QED
      BY <2>1, <2>3, <2>4, <2>5, GoToTyped
  <1> QED
    BY <1>2, <1>3

LEMMA CandidatesTyped ==
  ASSUME NEW w \in Maybe \cup {Stored}
  PROVE  Candidates(w) \in Seq(Maybe \cup {Stored})
  <1>1. <<>> \in Seq(Maybe \cup {Stored}) /\ <<w>> \in Seq(Maybe \cup {Stored})
    OBVIOUS
  <1> QED
    BY <1>1 DEF Candidates

LEMMA ServeTyped ==
  ASSUME SelectionRest, NEW i \in OpSlots, Serve(i)
  PROVE  SelectionRest'
  <1>1. PICK r \in {NoReply} \cup [ok : {TRUE}, known : BOOLEAN, ids : {{}, exists}, id : Maybe] :
       /\ CASE ops[i].pc \in {"list", "relist", "listed"} -> ListReply(r)
            [] ops[i].pc \in {"files", "made"} -> FilesReply(ops[i].id, r)
            [] ops[i].pc = "post" -> PostReply(r)
            [] ops[i].pc = "delete" -> DeleteReply(ops[i].id, r)
       /\ ops' = [ops EXCEPT ![i].answered = TRUE, ![i].reply = r]
    BY DEF Serve
  <1>2. r \in Replies /\ ops[i] \in AnOp
    BY AnOpIsNot DEF SelectionRest, ServerTyped, Replies, Serve
  <1>3. UNCHANGED <<panel, initDue, torn>>
    BY DEF Serve
  <1>4. /\ ops[i].pc \in {"list", "relist", "listed"} => ListReply(r)
        /\ ops[i].pc \in {"files", "made"} => FilesReply(ops[i].id, r)
        /\ ops[i].pc = "post" => PostReply(r)
        /\ ops[i].pc = "delete" => DeleteReply(ops[i].id, r)
    BY <1>1
  <1>5. ops[i].pc \in Pcs \ {"change"}
    BY <1>2 DEF AnOp, Serve
  <1>6. ServerTyped'
    <2>1. CASE UNCHANGED server
      BY <2>1 DEF server, SelectionRest, ServerTyped
    <2>2. CASE PostReply(r)
      <3>1. CASE r = NoReply /\ UNCHANGED server
        BY <2>1, <3>1
      <3>2. ASSUME NEW w \in Unused,
                   exists' = exists \cup IF session = User THEN {w} ELSE {},
                   anonymous' = anonymous \cup IF session = User THEN {} ELSE {w}, UNCHANGED <<gone, session>>
            PROVE  ServerTyped'
        BY <3>2 DEF Unused, SelectionRest, ServerTyped
      <3> QED
        BY Zenon, <2>2, <3>1, <3>2 DEF PostReply
    <2>3. CASE DeleteReply(ops[i].id, r)
      <3>1. ops[i].id \in exists => ops[i].id \in WorkspaceIds
        BY DEF SelectionRest, ServerTyped
      <3> QED
        BY <2>1, <2>3, <3>1 DEF DeleteReply, SelectionRest, ServerTyped
    <2> QED
      BY <1>4, <1>5, <2>1, <2>2, <2>3 DEF Pcs, ListReply, FilesReply
  <1> DEFINE x == [ops[i] EXCEPT !.answered = TRUE, !.reply = r]
  <1>7. /\ x \in AnOp /\ x.kind = ops[i].kind /\ x.pc = ops[i].pc /\ x.rest = ops[i].rest
        /\ x.id = ops[i].id /\ x.reply = r
    BY <1>2 DEF AnOp
  <1>8. ops' = [ops EXCEPT ![i] = x]
    BY <1>1, <1>2 DEF SelectionRest
  <1> HIDE DEF x
  <1>9. Fits(x)
    <2>1. Fits(ops[i])
      BY <1>2, AnOpIsNot DEF SelectionRest
    <2>2. PostReply(r) => (r.ok => r.id \in WorkspaceIds)
      <3>1. NoReply.ok = FALSE
        BY DEF NoReply
      <3>2. \A w \in Unused : w \in WorkspaceIds /\ [NoReply EXCEPT !.ok = TRUE, !.id = w].id = w
        BY DEF Unused, NoReply
      <3> QED
        BY <3>1, <3>2, Zenon DEF PostReply
    <2> QED
      BY <1>4, <1>7, <2>1, <2>2 DEF Fits, HasCandidate, NamesMade
  <1>10. ops' \in [OpSlots -> AnOp \cup {NoOp}] /\ \A j \in OpSlots : ops'[j] # NoOp => Fits(ops'[j])
    BY <1>7, <1>8, <1>9, GoToTyped DEF GoTo
  <1> QED
    BY <1>3, <1>6, <1>10 DEF panel, SelectionRest, ListsTyped, OpenTyped

\* What an answered operation carries.
LEMMA AnsweredTyped ==
  ASSUME SelectionRest, NEW i \in OpSlots, NEW pc, Answered(i, pc)
  PROVE  /\ ops[i] \in AnOp /\ ops[i].reply.ids \in SUBSET WorkspaceIds /\ ops[i].reply.id \in Maybe
         /\ ops[i].id \in Maybe /\ ops[i].rest \in Seq(Maybe \cup {Stored}) /\ ops[i].user \in {User, NoUser}
         /\ ops[i].pc = pc /\ Fits(ops[i])
  <1>1. ops[i] \in AnOp /\ ops[i].pc = pc /\ Fits(ops[i])
    BY DEF Answered, SelectionRest
  <1> QED
    BY <1>1 DEF AnOp, Replies

\* An operation ends.
LEMMA EndTyped ==
  ASSUME SelectionRest, NEW i \in OpSlots, GoTo(i, NoOp)
  PROVE  ops' \in [OpSlots -> AnOp \cup {NoOp}] /\ \A j \in OpSlots : ops'[j] # NoOp => Fits(ops'[j])
  BY GoToTyped

\* An operation that does not open the page awaits something else.
LEMMA OnTyped ==
  ASSUME SelectionRest, NEW i \in OpSlots, NEW o \in AnOp, o.kind # "init", NEW pc \in {"files", "made", "relist", "listed"},
         NEW id \in Maybe, pc \in {"made", "listed"} => id \in WorkspaceIds, GoTo(i, Await(o, pc, id))
  PROVE  ops' \in [OpSlots -> AnOp \cup {NoOp}] /\ \A j \in OpSlots : ops'[j] # NoOp => Fits(ops'[j])
  <1> DEFINE a == Await(o, pc, id)
  <1>0. pc \in Pcs
    BY Awaited
  <1>1. a \in AnOp /\ a.kind = o.kind /\ a.pc = pc /\ a.id = id
    BY <1>0, AnOpIsNot DEF Await, AnOp
  <1> HIDE DEF a
  <1>2. Fits(a)
    BY <1>1 DEF Fits, HasCandidate, NamesMade
  <1> QED
    BY <1>1, <1>2, GoToTyped DEF a

LEMMA SessionTyped ==
  ASSUME SelectionRest, NEW u \in {User, NoUser}, NEW ids \in SUBSET WorkspaceIds, SetUser(u, ids)
  PROVE  userId' \in {User, NoUser} /\ list' \in SUBSET WorkspaceIds /\ initDue' \in BOOLEAN
  BY DEF SetUser

LEMMA InitTyped ==
  ASSUME SelectionRest, NEW i \in OpSlots, InitSignedIn(i) \/ InitSignedOut(i) \/ InitOffline(i) \/ InitAnonymous(i)
  PROVE  SelectionRest'
  <1> DEFINE o == ops[i]
             Good == ops' \in [OpSlots -> AnOp \cup {NoOp}] /\ \A j \in OpSlots : ops'[j] # NoOp => Fits(ops'[j])
  <1>1. /\ o \in AnOp /\ o.reply.ids \in SUBSET WorkspaceIds /\ o.id \in Maybe
        /\ UNCHANGED <<server, deleting, storedAny>>
    <2>1. Answered(i, "list")
      BY DEF InitSignedIn, InitSignedOut, InitOffline, InitAnonymous
    <2> QED
      BY <2>1, AnsweredTyped DEF InitSignedIn, InitSignedOut, InitOffline, InitAnonymous
  <1>2. \A x, y, z \in Maybe : Candidates(x) \o Candidates(y) \o Candidates(z) \in Seq(Maybe \cup {Stored})
    <2> TAKE x, y, z \in Maybe
    <2>1. /\ Candidates(x) \in Seq(Maybe \cup {Stored}) /\ Candidates(y) \in Seq(Maybe \cup {Stored})
          /\ Candidates(z) \in Seq(Maybe \cup {Stored})
      BY CandidatesTyped
    <2> QED
      BY <2>1
  <1>3. ServerTyped' /\ deleting' \in Maybe /\ storedAny' \in Maybe
    BY <1>1 DEF server, SelectionRest, ServerTyped
  <1> HIDE DEF o
  <1>4. CASE InitSignedIn(i)
    <2>1. /\ SetUser(User, o.reply.ids) /\ saved' = o.reply.ids
          /\ \/ Close /\ stored' = NoId /\ LoadingDone(i) /\ Tear(i)
             \/ \E first \in o.reply.ids :
                  TryNext(i, o, Candidates(o.id) \o Candidates(stored) \o Candidates(first)) /\ UNCHANGED torn
      BY <1>4, Zenon DEF InitSignedIn, o
    <2>2. ListsTyped'
      BY <1>1, <2>1, SessionTyped DEF ListsTyped
    <2>3. CASE Close /\ stored' = NoId /\ LoadingDone(i) /\ Tear(i)
      <3>1. Good
        BY <2>3, EndTyped DEF LoadingDone
      <3>2. OpenTyped' /\ torn' \in BOOLEAN
        BY <2>3, AnOpIsNot DEF Close, LoadingDone, OpenTyped, Tear
      <3> QED
        BY <1>3, <2>2, <3>1, <3>2 DEF SelectionRest
    <2>4. ASSUME NEW first \in o.reply.ids,
                 TryNext(i, o, Candidates(o.id) \o Candidates(stored) \o Candidates(first)), UNCHANGED torn
          PROVE  SelectionRest'
      <3>1. first \in Maybe /\ stored \in Maybe
        BY <1>1 DEF Maybe, SelectionRest, OpenTyped
      <3>2. Candidates(o.id) \o Candidates(stored) \o Candidates(first) \in Seq(Maybe \cup {Stored})
        BY <1>1, <1>2, <3>1
      <3>3. Good /\ OpenTyped'
        BY <1>1, <2>4, <3>2, TriesTyped
      <3> QED
        BY <1>3, <2>2, <2>4, <3>3 DEF SelectionRest
    <2> QED
      BY <2>1, <2>3, <2>4
  <1>5. CASE InitSignedOut(i)
    <2>1. SetUser(NoUser, {}) /\ LoadingDone(i) /\ UNCHANGED <<saved, workspaceId, tree, url, stored, torn>>
      BY <1>5 DEF InitSignedOut
    <2>2. ListsTyped'
      BY <2>1, SessionTyped DEF ListsTyped, SelectionRest
    <2>3. Good
      BY <2>1, EndTyped DEF LoadingDone
    <2>4. OpenTyped' /\ torn' \in BOOLEAN
      BY <2>1 DEF LoadingDone, OpenTyped, SelectionRest
    <2> QED
      BY <1>3, <2>2, <2>3, <2>4 DEF SelectionRest
  <1>6. CASE InitOffline(i)
    <2>1. /\ list' = (IF userId = NoUser THEN {} ELSE saved) /\ UNCHANGED <<userId, saved, initDue, torn>>
          /\ \E first \in IF saved = {} THEN {NoId} ELSE saved :
               TryNext(i, o, Candidates(o.id) \o Candidates(stored) \o Candidates(first))
      BY <1>6, Zenon DEF InitOffline, o
    <2>2. PICK first \in IF saved = {} THEN {NoId} ELSE saved :
               TryNext(i, o, Candidates(o.id) \o Candidates(stored) \o Candidates(first))
      BY <2>1
    <2>3. ListsTyped' /\ torn' \in BOOLEAN
      BY <2>1 DEF ListsTyped, SelectionRest
    <2>4. first \in Maybe /\ stored \in Maybe
      BY DEF Maybe, SelectionRest, ListsTyped, OpenTyped
    <2>5. Candidates(o.id) \o Candidates(stored) \o Candidates(first) \in Seq(Maybe \cup {Stored})
      BY <1>1, <1>2, <2>4
    <2>6. Good /\ OpenTyped'
      BY <1>1, <2>2, <2>5, TriesTyped
    <2> QED
      BY <1>3, <2>3, <2>6 DEF SelectionRest
  <1>7. CASE InitAnonymous(i)
    <2>1. /\ list' = (IF o.reply.ok THEN {} ELSE list) /\ UNCHANGED <<userId, saved, initDue, torn>>
          /\ TryNext(i, o, Candidates(o.id) \o <<Stored>>)
      BY <1>7, Zenon DEF InitAnonymous, o
    <2>2. ListsTyped' /\ torn' \in BOOLEAN
      BY <2>1 DEF ListsTyped, SelectionRest
    <2>3. Candidates(o.id) \o <<Stored>> \in Seq(Maybe \cup {Stored})
      <3>1. Candidates(o.id) \in Seq(Maybe \cup {Stored})
        BY <1>1, CandidatesTyped
      <3> QED
        BY <3>1
    <2>4. Good /\ OpenTyped'
      BY <1>1, <2>1, <2>3, TriesTyped
    <2> QED
      BY <1>3, <2>2, <2>4 DEF SelectionRest
  <1> QED
    BY <1>4, <1>5, <1>6, <1>7

LEMMA OpenedTyped ==
  ASSUME SelectionRest, NEW i \in OpSlots, Opened(i) \/ NotOpened(i)
  PROVE  SelectionRest'
  <1> DEFINE o == ops[i]
             Good == ops' \in [OpSlots -> AnOp \cup {NoOp}] /\ \A j \in OpSlots : ops'[j] # NoOp => Fits(ops'[j])
  <1>1. /\ o \in AnOp /\ o.id \in Maybe /\ o.rest \in Seq(Maybe \cup {Stored}) /\ o.pc = "files" /\ Fits(o)
        /\ UNCHANGED <<server, userId, list, saved, initDue>>
    BY AnsweredTyped DEF Opened, NotOpened
  <1>2. ServerTyped' /\ ListsTyped'
    BY <1>1 DEF server, SelectionRest, ServerTyped, ListsTyped
  <1> HIDE DEF o
  <1>3. CASE Opened(i)
    <2>1. /\ workspaceId' = o.id /\ tree' = o.id /\ url' = o.id /\ storedAny' = o.id
          /\ (stored' = o.id \/ stored' = stored) /\ (deleting' = NoId \/ deleting' = deleting)
          /\ LoadingDone(i) /\ Tear(i)
      BY <1>3 DEF Opened, Show, o
    <2>2. Good
      BY <2>1, EndTyped DEF LoadingDone
    <2>3. OpenTyped' /\ torn' \in BOOLEAN /\ storedAny' \in Maybe /\ deleting' \in Maybe
      BY <1>1, <2>1, AnOpIsNot DEF LoadingDone, Tear, OpenTyped, SelectionRest
    <2> QED
      BY <1>2, <2>2, <2>3 DEF SelectionRest
  <1>4. CASE NotOpened(i) /\ o.kind = "init"
    <2>1. /\ (storedAny' = NoId \/ storedAny' = storedAny) /\ TryNext(i, o, Tail(o.rest)) /\ UNCHANGED <<deleting, torn>>
      BY <1>4 DEF NotOpened, o
    <2>2. Tail(o.rest) \in Seq(Maybe \cup {Stored})
      BY <1>1, <1>4 DEF Fits, HasCandidate
    <2>3. Good /\ OpenTyped'
      BY <1>1, <2>1, <2>2, TriesTyped
    <2> QED
      BY <1>2, <2>1, <2>3, AnOpIsNot DEF SelectionRest
  <1>5. CASE NotOpened(i) /\ o.kind # "init"
    <2>1. /\ (deleting' = NoId \/ deleting' = deleting) /\ LoadingDone(i)
          /\ UNCHANGED <<workspaceId, tree, url, stored, storedAny, torn>>
      BY <1>5 DEF NotOpened, o
    <2>2. Good
      BY <2>1, EndTyped DEF LoadingDone
    <2>3. OpenTyped' /\ torn' \in BOOLEAN /\ storedAny' \in Maybe /\ deleting' \in Maybe
      BY <1>1, <2>1, AnOpIsNot DEF LoadingDone, OpenTyped, SelectionRest
    <2> QED
      BY <1>2, <2>2, <2>3 DEF SelectionRest
  <1> QED
    BY <1>3, <1>4, <1>5

LEMMA CreationTyped ==
  ASSUME SelectionRest, NEW i \in OpSlots, Created(i) \/ CreatedFiles(i) \/ CreatedListed(i)
  PROVE  SelectionRest'
  <1> DEFINE o == ops[i]
             Good == ops' \in [OpSlots -> AnOp \cup {NoOp}] /\ \A j \in OpSlots : ops'[j] # NoOp => Fits(ops'[j])
  <1>1. /\ o \in AnOp /\ o.id \in Maybe /\ o.reply.id \in Maybe /\ o.reply.ids \in SUBSET WorkspaceIds /\ Fits(o)
        /\ o.pc \in {"post", "made", "listed"} /\ UNCHANGED <<server, deleting>>
    <2>1. PICK pc \in {"post", "made", "listed"} : Answered(i, pc)
      BY DEF Created, CreatedFiles, CreatedListed
    <2> QED
      BY <2>1, AnsweredTyped DEF Created, CreatedFiles, CreatedListed
  <1>2. ServerTyped' /\ deleting' \in Maybe
    BY <1>1 DEF server, SelectionRest, ServerTyped
  <1>6. o.kind # "init"
    BY <1>1 DEF Fits, HasCandidate
  <1> HIDE DEF o
  <1>3. CASE Created(i)
    <2>1. /\ \/ /\ workspaceId' = o.reply.id /\ tree' = NoId /\ GoTo(i, Await(o, "made", o.reply.id)) /\ o.reply.ok
                /\ Tear(i) /\ UNCHANGED panelLoading
             \/ LoadingDone(i) /\ UNCHANGED <<workspaceId, tree, torn>>
          /\ o.pc = "post" /\ UNCHANGED <<userId, list, saved, url, stored, storedAny, initDue>>
      BY <1>3, Zenon DEF Created, Answered, o
    <2>2. ListsTyped' /\ storedAny' \in Maybe
      BY <2>1 DEF SelectionRest, ListsTyped
    <2>3. OpenTyped' /\ torn' \in BOOLEAN
      BY <1>1, <2>1, AnOpIsNot DEF LoadingDone, Tear, OpenTyped, SelectionRest
    <2>4. Good
      <3>1. CASE LoadingDone(i)
        BY <3>1, EndTyped DEF LoadingDone
      <3>2. CASE GoTo(i, Await(o, "made", o.reply.id)) /\ o.reply.ok
        <4>1. o.reply.id \in WorkspaceIds
          BY <1>1, <2>1, <3>2 DEF Fits, NamesMade
        <4> QED
          BY <1>1, <1>6, <3>2, <4>1, OnTyped
      <3> QED
        BY <2>1, <3>1, <3>2
    <2> QED
      BY <1>2, <2>2, <2>3, <2>4 DEF SelectionRest
  <1>4. CASE CreatedFiles(i)
    <2>1. /\ \/ tree' = o.id /\ GoTo(i, Await(o, "listed", o.id)) /\ UNCHANGED <<panelLoading, torn>>
             \/ LoadingDone(i) /\ torn' = TRUE /\ UNCHANGED tree
          /\ o.pc = "made" /\ UNCHANGED <<userId, list, saved, workspaceId, url, stored, storedAny, initDue>>
      BY <1>4, Zenon DEF CreatedFiles, Answered, o
    <2>2. ListsTyped' /\ storedAny' \in Maybe
      BY <2>1 DEF SelectionRest, ListsTyped
    <2>3. OpenTyped' /\ torn' \in BOOLEAN
      BY <1>1, <2>1, AnOpIsNot DEF LoadingDone, OpenTyped, SelectionRest
    <2>4. Good
      <3>1. CASE LoadingDone(i)
        BY <3>1, EndTyped DEF LoadingDone
      <3>2. CASE GoTo(i, Await(o, "listed", o.id))
        <4>1. o.id \in WorkspaceIds
          BY <1>1, <2>1 DEF Fits, NamesMade
        <4> QED
          BY <1>1, <1>6, <3>2, <4>1, OnTyped
      <3> QED
        BY <2>1, <3>1, <3>2
    <2> QED
      BY <1>2, <2>2, <2>3, <2>4 DEF SelectionRest
  <1>5. CASE CreatedListed(i)
    <2>1. /\ \/ SetUser(User, o.reply.ids) /\ saved' = o.reply.ids
             \/ list' = {} /\ UNCHANGED <<userId, saved, initDue>>
             \/ /\ list' = (IF userId = NoUser THEN {} ELSE list \cup {o.id})
                /\ saved' = list \cup {o.id} /\ UNCHANGED <<userId, initDue>>
             \/ UNCHANGED <<userId, list, saved, initDue>>
          /\ (stored' = o.id \/ stored' = stored) /\ (storedAny' = o.id \/ storedAny' = storedAny)
          /\ o.pc = "listed" /\ url' = o.id /\ LoadingDone(i) /\ UNCHANGED <<workspaceId, tree, torn>>
      BY <1>5 DEF CreatedListed, Answered, o
    <2>2. o.id \in WorkspaceIds
      BY <1>1, <2>1 DEF Fits, NamesMade
    <2>3. ListsTyped'
      <3>1. CASE SetUser(User, o.reply.ids) /\ saved' = o.reply.ids
        BY <1>1, <3>1, SessionTyped DEF ListsTyped
      <3>2. CASE ~(SetUser(User, o.reply.ids) /\ saved' = o.reply.ids)
        BY <2>1, <2>2, <3>2 DEF ListsTyped, SelectionRest
      <3> QED
        BY <3>1, <3>2
    <2>4. OpenTyped' /\ torn' \in BOOLEAN /\ storedAny' \in Maybe
      BY <1>1, <2>1 DEF LoadingDone, OpenTyped, SelectionRest
    <2>5. Good
      BY <2>1, EndTyped DEF LoadingDone
    <2> QED
      BY <1>2, <2>3, <2>4, <2>5 DEF SelectionRest
  <1> QED
    BY <1>3, <1>4, <1>5

LEMMA DeletionTyped ==
  ASSUME SelectionRest, NEW i \in OpSlots, Deleted(i) \/ DeletedListed(i)
  PROVE  SelectionRest'
  <1> DEFINE o == ops[i]
             Good == ops' \in [OpSlots -> AnOp \cup {NoOp}] /\ \A j \in OpSlots : ops'[j] # NoOp => Fits(ops'[j])
  <1>1. /\ o \in AnOp /\ o.id \in Maybe /\ o.reply.ids \in SUBSET WorkspaceIds /\ Fits(o)
        /\ o.pc \in {"delete", "relist"} /\ UNCHANGED <<server, storedAny>>
    <2>1. PICK pc \in {"delete", "relist"} : Answered(i, pc)
      BY DEF Deleted, DeletedListed
    <2> QED
      BY <2>1, AnsweredTyped DEF Deleted, DeletedListed
  <1>2. ServerTyped' /\ storedAny' \in Maybe
    BY <1>1 DEF server, SelectionRest, ServerTyped
  <1>3. o.kind # "init"
    BY <1>1 DEF Fits, HasCandidate
  <1> HIDE DEF o
  <1>4. CASE Deleted(i)
    <2>1. /\ \/ GoTo(i, Await(o, "relist", o.id)) /\ UNCHANGED deleting
             \/ GoTo(i, NoOp) /\ deleting' = NoId
          /\ UNCHANGED <<userId, list, saved, workspaceId, tree, panelLoading, url, stored, initDue, torn>>
      BY <1>4, Zenon DEF Deleted, o
    <2>2. ListsTyped' /\ OpenTyped' /\ torn' \in BOOLEAN /\ deleting' \in Maybe
      BY <2>1, AnOpIsNot DEF SelectionRest, ListsTyped, OpenTyped
    <2>3. CASE GoTo(i, NoOp)
      BY <1>2, <2>2, <2>3, EndTyped DEF SelectionRest
    <2>4. CASE GoTo(i, Await(o, "relist", o.id))
      <3>1. Good
        BY <1>1, <1>3, <2>4, OnTyped
      <3> QED
        BY <1>2, <2>2, <3>1 DEF SelectionRest
    <2> QED
      BY <2>1, <2>3, <2>4
  <1>5. CASE DeletedListed(i)
    <2>1. /\ \/ SetUser(User, o.reply.ids) /\ saved' = o.reply.ids
             \/ list' = {} /\ UNCHANGED <<userId, saved, initDue>>
             \/ list' = list \ {o.id} /\ saved' = list \ {o.id} /\ UNCHANGED <<userId, initDue>>
             \/ UNCHANGED <<userId, list, saved, initDue>>
          /\ (stored' = NoId \/ stored' = stored)
          /\ UNCHANGED <<workspaceId, tree, url>> \/ Close
          /\ UNCHANGED torn \/ Tear(i)
          /\ \/ deleting' = NoId /\ GoTo(i, NoOp) /\ UNCHANGED panelLoading
             \/ \E w \in o.reply.ids \ {o.id} : GoTo(i, Await(o, "files", w)) /\ panelLoading' = TRUE /\ UNCHANGED deleting
      BY <1>5 DEF DeletedListed, o
    <2>2. ListsTyped'
      <3>1. CASE SetUser(User, o.reply.ids) /\ saved' = o.reply.ids
        BY <1>1, <3>1, SessionTyped DEF ListsTyped
      <3>2. CASE ~(SetUser(User, o.reply.ids) /\ saved' = o.reply.ids)
        BY <2>1, <3>2 DEF ListsTyped, SelectionRest
      <3> QED
        BY <3>1, <3>2
    <2>3. OpenTyped' /\ torn' \in BOOLEAN /\ deleting' \in Maybe
      BY <2>1, AnOpIsNot DEF Close, Tear, OpenTyped, SelectionRest
    <2>4. Good
      <3>1. CASE GoTo(i, NoOp)
        BY <3>1, EndTyped
      <3>2. ASSUME NEW w \in o.reply.ids \ {o.id}, GoTo(i, Await(o, "files", w)) PROVE Good
        <4>1. w \in Maybe
          BY <1>1 DEF Maybe
        <4> QED
          BY <1>1, <1>3, <3>2, <4>1, OnTyped
      <3> QED
        BY <2>1, <3>1, <3>2
    <2> QED
      BY <1>2, <2>2, <2>3, <2>4 DEF SelectionRest
  <1> QED
    BY <1>4, <1>5

LEMMA FilesTyped ==
  ASSUME SelectionRest, NEW i \in OpSlots, FilesChanged(i)
  PROVE  SelectionRest'
  <1>1. /\ ops[i].id \in WorkspaceIds
        /\ UNCHANGED <<server, userId, list, saved, workspaceId, panelLoading, deleting, url, stored, storedAny, initDue, torn>>
        /\ tree' \in {tree, ops[i].id, Late(ops[i].id)} /\ GoTo(i, NoOp)
    BY DEF FilesChanged, Fits, NamesMade, SelectionRest
  <1>2. tree' \in Maybe \cup Lates
    BY <1>1 DEF SelectionRest, OpenTyped, Maybe, Lates
  <1>3. ServerTyped' /\ ListsTyped' /\ OpenTyped'
    BY <1>1, <1>2 DEF server, SelectionRest, ServerTyped, ListsTyped, OpenTyped
  <1> QED
    BY <1>1, <1>3, EndTyped DEF SelectionRest

LEMMA AskedTyped ==
  ASSUME SelectionRest, NEW i \in OpSlots,
         \/ ChangeFiles(i)
         \/ InitWorkspace(i) \/ CreateWorkspace(i)
         \/ \E w \in WorkspaceIds : SelectWorkspace(i, w) \/ DeleteWorkspace(i, w)
  PROVE  SelectionRest'
  <1> DEFINE Good == ops' \in [OpSlots -> AnOp \cup {NoOp}] /\ \A j \in OpSlots : ops'[j] # NoOp => Fits(ops'[j])
  <1>1. CASE InitWorkspace(i)
    <2> DEFINE o == Op("init", "list", url, <<>>)
    <2>1. /\ initDue' = FALSE /\ panelLoading' = TRUE /\ GoTo(i, o)
          /\ UNCHANGED <<exists, anonymous, gone, session, userId, list, saved, workspaceId, tree, deleting, url, stored, storedAny, torn>>
      BY <1>1 DEF InitWorkspace, server
    <2>2. url \in Maybe
      BY DEF SelectionRest, OpenTyped
    <2>3. o \in AnOp /\ o.kind = "init" /\ o.pc = "list"
      BY Asked, Awaited, <2>2, StartTyped
    <2> HIDE DEF o
    <2>4. Fits(o)
      BY <2>3 DEF Fits, HasCandidate, NamesMade
    <2>5. Good
      BY <2>1, <2>3, <2>4, GoToTyped
    <2> QED
      BY <2>1, <2>5 DEF SelectionRest, ServerTyped, ListsTyped, OpenTyped
  <1>2. CASE CreateWorkspace(i)
    <2> DEFINE o == Op("create", "post", NoId, <<>>)
               y == [Await(o, "post", NoId) EXCEPT !.kind = "create", !.rest = <<>>]
    <2>1. /\ panelLoading' = TRUE /\ GoTo(i, y)
          /\ UNCHANGED <<exists, anonymous, gone, session, userId, list, saved, workspaceId, tree, deleting, url, stored, storedAny,
                         initDue, torn>>
      BY <1>2 DEF CreateWorkspace, Post, server
    <2>2. o \in AnOp
      BY Asked, Awaited, AnOpIsNot, StartTyped
    <2> HIDE DEF o
    <2>3. Await(o, "post", NoId) \in AnOp /\ Await(o, "post", NoId).pc = "post" /\ Await(o, "post", NoId).reply = NoReply
      BY Asked, Awaited, <2>2, AnOpIsNot, AwaitTyped
    <2>4. y \in AnOp /\ y.kind = "create" /\ y.pc = "post" /\ y.reply = NoReply
      <3> DEFINE b == Await(o, "post", NoId)
      <3>1. b \in AnOp /\ b.pc = "post" /\ b.reply = NoReply
        BY <2>3
      <3> HIDE DEF b
      <3> QED
        BY Zenon, <3>1, BecomesCreation DEF b
    <2> HIDE DEF y
    <2>5. Fits(y)
      BY <2>4 DEF Fits, HasCandidate, NamesMade, NoReply
    <2>6. Good
      BY <2>1, <2>4, <2>5, GoToTyped
    <2> QED
      BY <2>1, <2>6 DEF SelectionRest, ServerTyped, ListsTyped, OpenTyped
  <1>3. ASSUME NEW w \in WorkspaceIds, SelectWorkspace(i, w) PROVE SelectionRest'
    <2> DEFINE o == Op("select", "files", w, <<>>)
               a == Await(o, "files", w)
               x == [a EXCEPT !.rest = <<>>]
    <2>1. /\ panelLoading' = TRUE /\ tree' = NoId /\ GoTo(i, x)
          /\ UNCHANGED <<exists, anonymous, gone, session, userId, list, saved, workspaceId, deleting, url, stored, storedAny,
                         initDue, torn>>
      BY <1>3 DEF SelectWorkspace, Open, server
    <2>2. w \in Maybe
      BY DEF Maybe
    <2>3. o \in AnOp /\ o.kind = "select"
      BY Asked, Awaited, <2>2, StartTyped
    <2> HIDE DEF o
    <2>4. a \in AnOp /\ a.kind = o.kind /\ a.pc = "files"
      BY Asked, Awaited, <2>2, <2>3, AnOpIsNot DEF Await, AnOp
    <2> HIDE DEF a
    <2>0. <<>> \in Seq(Maybe \cup {Stored})
      OBVIOUS
    <2>5. x \in AnOp /\ x.kind = a.kind /\ x.pc = a.pc
      BY <2>0, <2>4, CandidatesReplaced
    <2> HIDE DEF x
    <2>6. Fits(x)
      BY <2>3, <2>4, <2>5 DEF Fits, HasCandidate, NamesMade
    <2>7. Good
      BY <2>1, <2>5, <2>6, GoToTyped
    <2> QED
      BY <2>1, <2>7, AnOpIsNot DEF SelectionRest, ServerTyped, ListsTyped, OpenTyped
  <1>4. ASSUME NEW w \in WorkspaceIds, DeleteWorkspace(i, w) PROVE SelectionRest'
    <2> DEFINE o == Op("delete", "delete", w, <<>>)
    <2>1. /\ deleting' = w /\ GoTo(i, o)
          /\ UNCHANGED <<exists, anonymous, gone, session, userId, list, saved, workspaceId, tree, panelLoading, url, stored, storedAny,
                         initDue, torn>>
      BY <1>4 DEF DeleteWorkspace, server
    <2>2. w \in Maybe
      BY DEF Maybe
    <2>3. o \in AnOp /\ o.kind = "delete" /\ o.pc = "delete"
      BY Asked, Awaited, <2>2, StartTyped
    <2> HIDE DEF o
    <2>4. Fits(o)
      BY <2>3 DEF Fits, HasCandidate, NamesMade
    <2>5. Good
      BY <2>1, <2>3, <2>4, GoToTyped
    <2> QED
      BY <2>1, <2>2, <2>5 DEF SelectionRest, ServerTyped, ListsTyped, OpenTyped
  <1>5. CASE ChangeFiles(i)
    <2> DEFINE o == Op("change", "change", workspaceId, <<>>)
    <2>1. /\ workspaceId \in Visible /\ GoTo(i, o)
          /\ UNCHANGED <<exists, anonymous, gone, session, userId, list, saved, workspaceId, tree, panelLoading, deleting, url,
                         stored, storedAny, initDue, torn>>
      BY <1>5 DEF ChangeFiles, server, panel
    <2>2. workspaceId \in Maybe /\ workspaceId \in WorkspaceIds
      BY <2>1 DEF SelectionRest, ServerTyped, Visible, Maybe
    <2>3. o \in AnOp /\ o.kind = "change" /\ o.pc = "change"
      BY Asked, Awaited, <2>2, StartTyped
    <2>4. o.id = workspaceId
      BY DEF Op
    <2> HIDE DEF o
    <2>5. Fits(o)
      BY <2>2, <2>3, <2>4 DEF Fits, HasCandidate, NamesMade
    <2>6. Good
      BY <2>1, <2>3, <2>5, GoToTyped
    <2> QED
      BY <2>1, <2>6 DEF SelectionRest, ServerTyped, ListsTyped, OpenTyped
  <1> QED
    BY <1>1, <1>2, <1>3, <1>4, <1>5

LEMMA SelectionRestStep ==
  ASSUME SelectionRest, [SelectionNext]_selectionVars
  PROVE  SelectionRest'
  <1>1. CASE UNCHANGED selectionVars
    BY <1>1 DEF selectionVars, server, panel, SelectionRest, ServerTyped, ListsTyped, OpenTyped
  <1>2. CASE SessionSync
    <2>1. /\ userId' = KnownUser /\ (list' = {} \/ list' = list) /\ initDue' \in BOOLEAN
          /\ UNCHANGED <<exists, anonymous, gone, session, saved, workspaceId, tree, panelLoading, deleting, url, stored, storedAny,
                         ops, torn>>
      BY <1>2 DEF SessionSync, server
    <2> QED
      BY <2>1, SelectionAssumption DEF SelectionRest, ServerTyped, ListsTyped, OpenTyped
  <1>3. ASSUME NEW i \in OpSlots, Continue(i) PROVE SelectionRest'
    BY <1>3, InitTyped, OpenedTyped, CreationTyped, DeletionTyped, FilesTyped DEF Continue
  <1> QED
    BY <1>1, <1>2, <1>3, ServeTyped, AskedTyped DEF SelectionNext

LEMMA SelectionRests == SelectionSpec => []SelectionRest
  <1>1. SelectionInit => SelectionRest
    <2> SUFFICES ASSUME SelectionInit PROVE SelectionRest
      OBVIOUS
    <2>1. ops \in [OpSlots -> AnOp \cup {NoOp}] /\ \A j \in OpSlots : ops[j] = NoOp
      BY DEF SelectionInit
    <2>2. stored \in Maybe
      BY SelectionAssumption DEF SelectionInit, Maybe
    <2>3. ServerTyped /\ ListsTyped /\ OpenTyped
      BY <2>2, AnOpIsNot, SelectionAssumption DEF SelectionInit, ServerTyped, ListsTyped, OpenTyped, Maybe
    <2> QED
      BY <2>1, <2>3, AnOpIsNot DEF SelectionInit, SelectionRest
  <1> QED
    BY <1>1, SelectionRestStep, PTL DEF SelectionSpec

LEMMA SelectionTyped == SelectionSpec => []SelectionTypeOK
  <1>2. SelectionRest => SelectionTypeOK
    <2> SUFFICES ASSUME SelectionRest PROVE SelectionTypeOK
      OBVIOUS
    <2>1. \A i \in OpSlots : ops[i] # NoOp => ops[i] \in AnOp
      BY DEF SelectionRest
    <2>2. \A o \in AnOp : /\ o.kind \in Kinds
                          /\ o.pc \in Pcs
                          /\ o.id \in Maybe /\ o.reply \in Replies
      BY DEF AnOp
    <2>3. {panelLoading, initDue, torn} \subseteq BOOLEAN
      BY Zenon DEF SelectionRest, ListsTyped, OpenTyped
    <2>4. {workspaceId, url, stored, storedAny, deleting} \subseteq Maybe /\ tree \in Maybe \cup Lates
      BY Zenon DEF SelectionRest, OpenTyped
    <2> QED
      BY <2>1, <2>2, <2>3, <2>4 DEF Kinds, Pcs, SelectionTypeOK, SelectionRest, ServerTyped, ListsTyped
  <1> QED
    BY <1>2, SelectionRests, PTL

-----------------------------------------------------------------------------
(***************************************************************************)
(* The workspace that is open.  Unless the selection is torn, at most one  *)
(* creation is half way, and the panel works on what it creates.           *)
(***************************************************************************)
IsOp(o) ==
  /\ o = [kind |-> o.kind, pc |-> o.pc, id |-> o.id, rest |-> o.rest, user |-> o.user,
          open |-> o.open, answered |-> o.answered, reply |-> o.reply]
  /\ o.kind \in Kinds
Half(o) == o # NoOp /\ o.pc \in {"made", "listed"}
\* What a tree shows beside an open workspace w: nothing, w, or a late listing of another one.
MayShow(t, w) == t \in {NoId, w} \cup {Late(v) : v \in WorkspaceIds \ {w}}

SelectionInv ==
  /\ DOMAIN ops = OpSlots /\ \A i \in OpSlots : ops[i] # NoOp => IsOp(ops[i])
  /\ torn \in BOOLEAN
  /\ torn = FALSE => \A i, j \in OpSlots : Half(ops[i]) /\ Half(ops[j]) => i = j
  /\ torn = FALSE => \A i \in OpSlots : Half(ops[i]) => workspaceId = ops[i].id /\ MayShow(tree, workspaceId)
  /\ SelectionAgrees

LEMMA ShowsEither == \A w : MayShow(NoId, w) /\ MayShow(w, w)
  BY DEF MayShow

LEMMA NotNoOp == \A o : IsOp(o) => o # NoOp
  BY DEF IsOp, NoOp

LEMMA NewOp ==
  ASSUME NEW kind \in Kinds, NEW pc, NEW id, NEW rest
  PROVE  IsOp(Op(kind, pc, id, rest)) /\ Op(kind, pc, id, rest).pc = pc
  BY DEF IsOp, Op

LEMMA Awaits ==
  ASSUME NEW o, IsOp(o), NEW pc, NEW id
  PROVE  /\ IsOp(Await(o, pc, id)) /\ Await(o, pc, id).pc = pc /\ Await(o, pc, id).id = id
  <1> DEFINE T == [kind : Kinds, pc : {o.pc, pc}, id : {o.id, id},
                   rest : {o.rest}, user : {o.user}, open : {o.open},
                   answered : {o.answered, FALSE}, reply : {o.reply, NoReply}]
             x == Await(o, pc, id)
  <1>1. o \in T
    BY DEF IsOp
  <1>2. x \in T /\ x.pc = pc /\ x.id = id
    BY <1>1 DEF Await
  <1>3. \A t \in T : IsOp(t)
    BY DEF IsOp
  <1> HIDE DEF x, T
  <1>4. IsOp(x)
    BY <1>2, <1>3
  <1> QED
    BY <1>2, <1>4 DEF x

LEMMA Carries ==
  ASSUME NEW o, IsOp(o), NEW rest, NEW kind \in Kinds
  PROVE  LET x == [o EXCEPT !.rest = rest]
             y == [o EXCEPT !.kind = kind, !.rest = rest]
         IN  IsOp(x) /\ x.pc = o.pc /\ IsOp(y) /\ y.pc = o.pc
  <1> DEFINE T == [kind : Kinds, pc : {o.pc}, id : {o.id},
                   rest : {o.rest, rest}, user : {o.user}, open : {o.open},
                   answered : {o.answered}, reply : {o.reply}]
             x == [o EXCEPT !.rest = rest]
             y == [o EXCEPT !.kind = kind, !.rest = rest]
  <1>1. o \in T
    BY DEF IsOp
  <1>2. x \in T /\ x.pc = o.pc
    BY <1>1
  <1>3. y \in T /\ y.pc = o.pc
    BY <1>1
  <1>4. \A t \in T : IsOp(t)
    BY DEF IsOp
  <1> HIDE DEF x, y, T
  <1>5. IsOp(x) /\ IsOp(y)
    BY <1>2, <1>3, <1>4
  <1> QED
    BY <1>2, <1>3, <1>5 DEF x, y

LEMMA Answers ==
  ASSUME NEW o, IsOp(o), NEW r
  PROVE  LET x == [o EXCEPT !.answered = TRUE, !.reply = r] IN IsOp(x) /\ x.pc = o.pc /\ x.id = o.id
  <1> DEFINE T == [kind : Kinds, pc : {o.pc}, id : {o.id},
                   rest : {o.rest}, user : {o.user}, open : {o.open},
                   answered : {o.answered, TRUE}, reply : {o.reply, r}]
             x == [o EXCEPT !.answered = TRUE, !.reply = r]
  <1>1. o \in T
    BY DEF IsOp
  <1>2. x \in T /\ x.pc = o.pc /\ x.id = o.id
    BY <1>1
  <1>3. \A t \in T : IsOp(t)
    BY DEF IsOp
  <1> HIDE DEF x, T
  <1>4. IsOp(x)
    BY <1>2, <1>3
  <1> QED
    BY <1>2, <1>4 DEF x

LEMMA OneOp ==
  ASSUME SelectionInv, NEW i \in OpSlots, NEW o, o = NoOp \/ IsOp(o), ops' = [ops EXCEPT ![i] = o]
  PROVE  /\ DOMAIN ops' = OpSlots /\ ops'[i] = o /\ \A j \in OpSlots \ {i} : ops'[j] = ops[j]
         /\ \A j \in OpSlots : ops'[j] # NoOp => IsOp(ops'[j])
  BY DEF SelectionInv

\* An operation goes on; what is open stays.
LEMMA GoesOn ==
  ASSUME SelectionInv, NEW i \in OpSlots, NEW o, o = NoOp \/ IsOp(o), ops' = [ops EXCEPT ![i] = o],
         Half(o) <=> Half(ops[i]), Half(o) => o.id = ops[i].id,
         UNCHANGED <<workspaceId, url, torn>>, tree' = tree \/ MayShow(tree', workspaceId)
  PROVE  SelectionInv'
  <1>1. /\ DOMAIN ops' = OpSlots /\ ops'[i] = o /\ \A j \in OpSlots \ {i} : ops'[j] = ops[j]
        /\ \A j \in OpSlots : ops'[j] # NoOp => IsOp(ops'[j])
    BY OneOp
  <1>2. \A j \in OpSlots : (Half(ops'[j]) <=> Half(ops[j])) /\ (Half(ops'[j]) => ops'[j].id = ops[j].id)
    BY <1>1
  <1>3. SelectionAgrees'
    BY <1>2 DEF SelectionInv, SelectionAgrees, HalfMade, Half, MayShow
  <1> QED
    BY <1>1, <1>2, <1>3 DEF SelectionInv

\* What is open changes: whatever is half way is torn.
LEMMA Opens ==
  ASSUME SelectionInv, NEW i \in OpSlots, NEW o, o = NoOp \/ IsOp(o), ops' = [ops EXCEPT ![i] = o], Tear(i),
         \/ ~Half(o) /\ url' = workspaceId' /\ tree' = workspaceId'
         \/ Half(o) /\ workspaceId' = o.id /\ tree' = NoId
  PROVE  SelectionInv'
  <1>1. /\ DOMAIN ops' = OpSlots /\ ops'[i] = o /\ \A j \in OpSlots \ {i} : ops'[j] = ops[j]
        /\ \A j \in OpSlots : ops'[j] # NoOp => IsOp(ops'[j])
    BY OneOp
  <1>2. torn' \in BOOLEAN /\ (torn' = FALSE => \A j \in OpSlots \ {i} : ~Half(ops'[j]))
    BY <1>1 DEF Tear, HalfMade, Half
  <1>3. SelectionAgrees'
    BY <1>1, <1>2 DEF SelectionAgrees, HalfMade, Half
  <1> QED
    BY <1>1, <1>2, <1>3, ShowsEither DEF SelectionInv

\* A candidate is opened, or a workspace is created.
LEMMA Tries ==
  ASSUME SelectionInv, NEW i \in OpSlots, NEW o, IsOp(o), ~Half(ops[i]), UNCHANGED torn,
         (\E rest : TryNext(i, o, rest)) \/ Post(i, o) \/ (\E w, rest : Open(i, o, w, rest))
  PROVE  SelectionInv'
  <1>1. PICK w, some, x : /\ x = [Await(o, "files", w) EXCEPT !.rest = some]
                             \/ x = [Await(o, "post", NoId) EXCEPT !.kind = "create", !.rest = <<>>]
                          /\ ops' = [ops EXCEPT ![i] = x]
                          /\ UNCHANGED <<workspaceId, url>> /\ tree' \in {tree, NoId}
    BY DEF TryNext, Post, Open, GoTo
  <1>2. IsOp(x) /\ x.pc \in {"files", "post"}
    <2>1. CASE x = [Await(o, "files", w) EXCEPT !.rest = some]
      <3>1. IsOp(Await(o, "files", w)) /\ Await(o, "files", w).pc = "files"
        BY Awaits
      <3> DEFINE a == Await(o, "files", w)
      <3> HIDE DEF a
      <3>2. x = [a EXCEPT !.rest = some] /\ IsOp(a) /\ a.pc = "files"
        BY <2>1, <3>1 DEF a
      <3> QED
        BY Zenon, <3>2, Asked, Carries
    <2>2. CASE x = [Await(o, "post", NoId) EXCEPT !.kind = "create", !.rest = <<>>]
      <3>1. IsOp(Await(o, "post", NoId)) /\ Await(o, "post", NoId).pc = "post"
        BY Awaits
      <3> DEFINE a == Await(o, "post", NoId)
      <3> HIDE DEF a
      <3>2. x = [a EXCEPT !.kind = "create", !.rest = <<>>] /\ IsOp(a) /\ a.pc = "post"
        BY <2>2, <3>1 DEF a
      <3> QED
        BY Zenon, <3>2, Asked, Carries
    <2> QED
      BY <1>1, <2>1, <2>2
  <1> QED
    BY <1>1, <1>2, ShowsEither, GoesOn DEF Half

LEMMA AskedStep ==
  ASSUME SelectionInv, NEW i \in OpSlots,
         \/ Serve(i) \/ InitWorkspace(i) \/ CreateWorkspace(i) \/ ChangeFiles(i)
         \/ \E w \in WorkspaceIds : SelectWorkspace(i, w) \/ DeleteWorkspace(i, w)
  PROVE  SelectionInv'
  <1>1. CASE Serve(i)
    <2>1. PICK r : ops' = [ops EXCEPT ![i].answered = TRUE, ![i].reply = r]
      BY <1>1 DEF Serve
    <2>0. ops[i] # NoOp /\ UNCHANGED <<workspaceId, url, torn, tree>>
      BY <1>1 DEF Serve, panel
    <2>2. UNCHANGED <<workspaceId, url, torn, tree>> /\ IsOp(ops[i])
      BY <2>0 DEF SelectionInv
    <2> DEFINE o == ops[i]
               x == [o EXCEPT !.answered = TRUE, !.reply = r]
    <2>3. ops' = [ops EXCEPT ![i] = x]
      BY <2>1 DEF SelectionInv
    <2>4. IsOp(x) /\ x.pc = ops[i].pc /\ x.id = ops[i].id
      <3>1. IsOp(o)
        BY <2>2
      <3>2. IsOp(x) /\ x.pc = o.pc /\ x.id = o.id
        <4> HIDE DEF o
        <4> QED
          BY Zenon, <3>1, Answers
      <3> QED
        BY <3>2
    <2> HIDE DEF x
    <2> QED
      BY <2>2, <2>3, <2>4, NotNoOp, GoesOn DEF Half
  <1>2. CASE InitWorkspace(i)
    <2> DEFINE x == Op("init", "list", url, <<>>)
    <2>1. /\ ops' = [ops EXCEPT ![i] = x] /\ ops[i] = NoOp
          /\ UNCHANGED <<workspaceId, url, torn, tree>>
      BY <1>2 DEF InitWorkspace, GoTo
    <2>2. IsOp(x) /\ ~Half(x) /\ ~Half(ops[i])
      BY Asked, Awaited, <2>1, NewOp DEF Half
    <2> HIDE DEF x
    <2> QED
      BY <2>1, <2>2, GoesOn
  <1>3. CASE CreateWorkspace(i)
    <2> DEFINE x == Op("create", "post", NoId, <<>>)
    <2>1. Post(i, x) /\ ops[i] = NoOp /\ UNCHANGED torn
      BY <1>3 DEF CreateWorkspace
    <2>2. IsOp(x) /\ ~Half(ops[i])
      BY Asked, Awaited, <2>1, NewOp DEF Half
    <2> HIDE DEF x
    <2> QED
      BY <2>1, <2>2, Tries
  <1>4. ASSUME NEW w \in WorkspaceIds, SelectWorkspace(i, w) PROVE SelectionInv'
    <2> DEFINE x == Op("select", "files", w, <<>>)
    <2>1. Open(i, x, w, <<>>) /\ ops[i] = NoOp /\ UNCHANGED torn
      BY <1>4 DEF SelectWorkspace
    <2>2. IsOp(x) /\ ~Half(ops[i])
      BY Asked, Awaited, <2>1, NewOp DEF Half
    <2> HIDE DEF x
    <2> QED
      BY <2>1, <2>2, Tries
  <1>5. ASSUME NEW w \in WorkspaceIds, DeleteWorkspace(i, w) PROVE SelectionInv'
    <2> DEFINE x == Op("delete", "delete", w, <<>>)
    <2>1. /\ ops' = [ops EXCEPT ![i] = x] /\ ops[i] = NoOp
          /\ UNCHANGED <<workspaceId, url, torn, tree>>
      BY <1>5 DEF DeleteWorkspace, GoTo
    <2>2. IsOp(x) /\ ~Half(x) /\ ~Half(ops[i])
      BY Asked, Awaited, <2>1, NewOp DEF Half
    <2> HIDE DEF x
    <2> QED
      BY <2>1, <2>2, GoesOn
  <1>6. CASE ChangeFiles(i)
    <2> DEFINE x == Op("change", "change", workspaceId, <<>>)
    <2>1. /\ ops' = [ops EXCEPT ![i] = x] /\ ops[i] = NoOp
          /\ UNCHANGED <<workspaceId, url, torn, tree>>
      BY <1>6 DEF ChangeFiles, GoTo, panel
    <2>2. IsOp(x) /\ ~Half(x) /\ ~Half(ops[i])
      BY Asked, Awaited, <2>1, NewOp DEF Half
    <2> HIDE DEF x
    <2> QED
      BY <2>1, <2>2, GoesOn
  <1> QED
    BY <1>1, <1>2, <1>3, <1>4, <1>5, <1>6

\* What follows each await.
LEMMA ContinueStep ==
  ASSUME SelectionInv, SelectionRest, NEW i \in OpSlots, Continue(i)
  PROVE  SelectionInv'
  <1> DEFINE o == ops[i]
  <1>0. IsOp(o) /\ o # NoOp /\ o.kind \in Kinds
    BY DEF Continue, InitSignedIn, InitSignedOut, InitOffline, InitAnonymous, Opened, NotOpened, Created,
           CreatedFiles, CreatedListed, Deleted, DeletedListed, FilesChanged, Answered, SelectionInv, IsOp
  <1>1. CASE InitSignedIn(i)
    <2>1. ~Half(o)
      BY <1>1 DEF InitSignedIn, Answered, Half
    <2>2. CASE Close /\ LoadingDone(i) /\ Tear(i)
      <3>1. ops' = [ops EXCEPT ![i] = NoOp] /\ url' = workspaceId' /\ tree' = workspaceId' /\ ~Half(NoOp)
        BY <2>2 DEF Close, LoadingDone, GoTo, Half
      <3> QED
        BY <2>2, <3>1, Opens
    <2>3. CASE \E rest : TryNext(i, o, rest) /\ UNCHANGED torn
      BY <1>0, <2>1, <2>3, Tries
    <2> QED
      BY <1>1, <2>2, <2>3 DEF InitSignedIn
  <1>2. CASE InitSignedOut(i)
    <2>1. ops' = [ops EXCEPT ![i] = NoOp] /\ UNCHANGED <<workspaceId, url, torn, tree>> /\ ~Half(NoOp) /\ ~Half(o)
      BY <1>2 DEF InitSignedOut, LoadingDone, GoTo, Answered, Half
    <2> QED
      BY <2>1, GoesOn
  <1>3. CASE InitOffline(i) \/ InitAnonymous(i)
    <2>1. ~Half(o) /\ UNCHANGED torn /\ \E rest : TryNext(i, o, rest)
      BY <1>3 DEF InitOffline, InitAnonymous, Answered, Half
    <2> QED
      BY <1>0, <2>1, Tries
  <1>4. CASE Opened(i)
    <2>1. ops' = [ops EXCEPT ![i] = NoOp] /\ url' = workspaceId' /\ tree' = workspaceId' /\ Tear(i) /\ ~Half(NoOp)
      BY <1>4 DEF Opened, Show, LoadingDone, GoTo, Half
    <2> QED
      BY <2>1, Opens
  <1>5. CASE NotOpened(i)
    <2>1. ~Half(o) /\ UNCHANGED torn
      BY <1>5 DEF NotOpened, Answered, Half
    <2>2. CASE TryNext(i, o, Tail(o.rest))
      BY <1>0, <2>1, <2>2, Tries
    <2>3. CASE LoadingDone(i) /\ UNCHANGED <<workspaceId, tree, url>>
      <3>1. ops' = [ops EXCEPT ![i] = NoOp] /\ ~Half(NoOp)
        BY <2>3 DEF LoadingDone, GoTo, Half
      <3> QED
        BY <2>1, <2>3, <3>1, GoesOn
    <2> QED
      BY <1>5, <2>2, <2>3 DEF NotOpened
  <1>6. CASE Created(i)
    <2> DEFINE x == Await(o, "made", o.reply.id)
    <2>1. ~Half(o) /\ ~Half(NoOp) /\ UNCHANGED url
      BY <1>6 DEF Created, Answered, Half
    <2>2. IsOp(x) /\ x.pc = "made" /\ x.id = o.reply.id
      BY <1>0, Awaits
    <2>3. Half(x)
      BY <2>2, NotNoOp DEF Half
    <2>4. CASE workspaceId' = o.reply.id /\ tree' = NoId /\ GoTo(i, x) /\ Tear(i)
      <3> HIDE DEF x
      <3> QED
        BY <2>2, <2>3, <2>4, Opens DEF GoTo
    <2>5. CASE LoadingDone(i) /\ UNCHANGED <<workspaceId, tree, torn>>
      BY <2>1, <2>5, GoesOn DEF LoadingDone, GoTo
    <2> QED
      BY <1>6, <2>4, <2>5 DEF Created
  <1>7. CASE CreatedFiles(i)
    <2> DEFINE x == Await(o, "listed", o.id)
    <2>1. Half(o) /\ UNCHANGED <<workspaceId, url>>
      BY <1>7 DEF CreatedFiles, Answered, Half
    <2>2. IsOp(x) /\ x.pc = "listed" /\ x.id = o.id
      BY <1>0, Awaits
    <2>3. CASE tree' = o.id /\ GoTo(i, x) /\ UNCHANGED torn
      <3> HIDE DEF x
      <3>0. ops' = [ops EXCEPT ![i] = x] /\ Half(x)
        BY <2>2, <2>3, NotNoOp DEF GoTo, Half
      <3>1. /\ DOMAIN ops' = OpSlots /\ ops'[i] = x /\ \A j \in OpSlots \ {i} : ops'[j] = ops[j]
            /\ \A j \in OpSlots : ops'[j] # NoOp => IsOp(ops'[j])
        BY <2>2, <3>0, OneOp
      <3>2. \A j \in OpSlots : Half(ops'[j]) <=> Half(ops[j])
        BY <2>1, <3>0, <3>1
      <3>3. torn = FALSE => \A j \in OpSlots : Half(ops'[j]) => j = i
        BY <2>1, <3>2 DEF SelectionInv
      <3>4. torn = FALSE => workspaceId = o.id
        BY <2>1 DEF SelectionInv
      <3>5. SelectionAgrees'
        BY <3>0, <3>1 DEF SelectionAgrees, HalfMade, Half
      <3> QED
        BY <2>1, <2>2, <2>3, <3>1, <3>3, <3>4, <3>5, ShowsEither DEF SelectionInv
    <2>4. CASE LoadingDone(i) /\ torn' = TRUE
      <3>1. /\ DOMAIN ops' = OpSlots /\ \A j \in OpSlots : ops'[j] # NoOp => IsOp(ops'[j])
        BY <2>4, OneOp DEF LoadingDone, GoTo
      <3> QED
        BY <2>4, <3>1 DEF SelectionInv, SelectionAgrees
    <2> QED
      BY <1>7, <2>3, <2>4 DEF CreatedFiles
  <1>8. CASE CreatedListed(i)
    <2>1. /\ Half(o) /\ UNCHANGED <<workspaceId, tree, torn>> /\ url' = o.id /\ ops' = [ops EXCEPT ![i] = NoOp]
      BY <1>8 DEF CreatedListed, Answered, Half, LoadingDone, GoTo
    <2>2. /\ DOMAIN ops' = OpSlots /\ ops'[i] = NoOp /\ \A j \in OpSlots \ {i} : ops'[j] = ops[j]
          /\ \A j \in OpSlots : ops'[j] # NoOp => IsOp(ops'[j])
      BY <2>1, OneOp
    <2>3. torn = FALSE => workspaceId = o.id /\ MayShow(tree, workspaceId) /\ \A j \in OpSlots : ~Half(ops'[j])
      BY <2>1, <2>2 DEF SelectionInv, Half
    <2>4. SelectionAgrees' /\ torn' \in BOOLEAN
      BY <2>1, <2>3 DEF SelectionInv, SelectionAgrees, MayShow
    <2> QED
      BY <2>1, <2>2, <2>3, <2>4 DEF SelectionInv
  <1>9. CASE Deleted(i)
    <2>1. ~Half(o) /\ ~Half(NoOp) /\ UNCHANGED <<workspaceId, tree, url, torn>>
      BY <1>9 DEF Deleted, Answered, Half
    <2>2. PICK x \in {NoOp, Await(o, "relist", o.id)} : ops' = [ops EXCEPT ![i] = x]
      BY <1>9 DEF Deleted, GoTo
    <2>3. x = NoOp \/ (IsOp(x) /\ ~Half(x))
      BY <1>0, <2>2, Awaits DEF Half
    <2> QED
      BY <2>1, <2>2, <2>3, GoesOn
  <1>10. CASE DeletedListed(i)
    <2>1. ~Half(o) /\ ~Half(NoOp)
      BY <1>10 DEF DeletedListed, Answered, Half
    <2>2. CASE GoTo(i, NoOp) /\ UNCHANGED <<workspaceId, tree, url, torn>>
      BY <2>1, <2>2, GoesOn DEF GoTo
    <2>3. CASE Close /\ Tear(i) /\ \/ GoTo(i, NoOp) \/ \E w : GoTo(i, Await(o, "files", w))
      <3>1. PICK x, w : x \in {NoOp, Await(o, "files", w)} /\ ops' = [ops EXCEPT ![i] = x]
        BY <2>3 DEF GoTo
      <3>2. x = NoOp \/ IsOp(x)
        BY <1>0, <3>1, Awaits
      <3>3. ~Half(x)
        BY <1>0, <2>1, <3>1, Awaits DEF Half
      <3>4. url' = workspaceId' /\ tree' = workspaceId'
        BY <2>3 DEF Close
      <3> QED
        BY <2>3, <3>1, <3>2, <3>3, <3>4, Opens
    <2> QED
      BY <1>10, <2>2, <2>3 DEF DeletedListed
  <1>11. CASE FilesChanged(i)
    <2>1. /\ ops' = [ops EXCEPT ![i] = NoOp] /\ ~Half(NoOp) /\ ~Half(o)
          /\ UNCHANGED <<workspaceId, url, torn>>
      BY <1>11 DEF FilesChanged, Answered, GoTo, Half
    <2>2. o.id \in WorkspaceIds
      BY <1>11 DEF FilesChanged, Fits, NamesMade, SelectionRest
    <2>3. tree' = tree \/ MayShow(tree', workspaceId)
      BY <1>11, <2>2 DEF FilesChanged, MayShow
    <2> QED
      BY <2>1, <2>3, GoesOn
  <1> QED
    BY <1>1, <1>2, <1>3, <1>4, <1>5, <1>6, <1>7, <1>8, <1>9, <1>10, <1>11 DEF Continue

LEMMA SelectionInitially == SelectionInit => SelectionInv
  BY DEF SelectionInit, SelectionInv, SelectionAgrees, Half

LEMMA SelectionStep == SelectionInv /\ SelectionRest /\ [SelectionNext]_selectionVars => SelectionInv'
  <1> SUFFICES ASSUME SelectionInv, SelectionRest, [SelectionNext]_selectionVars PROVE SelectionInv'
    OBVIOUS
  <1>1. CASE UNCHANGED selectionVars \/ SessionSync
    <2>1. UNCHANGED <<workspaceId, tree, url, ops, torn>>
      BY <1>1 DEF selectionVars, panel, SessionSync
    <2> QED
      BY <2>1 DEF SelectionInv, SelectionAgrees, HalfMade
  <1> QED
    BY <1>1, AskedStep, ContinueStep DEF SelectionNext

(* However replies interleave, the URL and the workspace the panel works on  *)
(* are one, and the file tree is of it, unless a creation was overtaken or   *)
(* failed half way (workspaces.ts) or a file operation that began in another *)
(* workspace listed its files last (refreshFiles).                           *)
THEOREM SelectionStaysAgreed == SelectionSpec => []SelectionAgrees
  <1>1. SelectionInv => SelectionAgrees
    BY DEF SelectionInv
  <1> QED
    BY <1>1, SelectionInitially, SelectionStep, SelectionRests, PTL DEF SelectionSpec

-----------------------------------------------------------------------------
(***************************************************************************)
(* The Deploy tab.  Unless deployments are mixed, the remembered selection *)
(* was sent with the POST that is under way or with the page's own job,    *)
(* which is the only one a stream is attached to meanwhile.                *)
(***************************************************************************)
Job == [place : Places, devices : SUBSET Devices, status : {"running"} \cup Terminal]

LiveTypes ==
  /\ jobs \in Seq(Job) /\ place \in Places /\ complete \subseteq Devices /\ selection \subseteq complete
  /\ post \in [pc : {"idle", "first", "second"}, place : Places, devices : SUBSET Devices]
  /\ jobId \in 0 .. Len(jobs) /\ mine \in 0 .. Len(jobs)
  /\ view \in [jobId : 0 .. Len(jobs), status : {NoStatus, "running"} \cup Terminal, connected : BOOLEAN]
  /\ stream \in [job : 0 .. Len(jobs), said : {NoStatus, "running"} \cup Terminal]
  /\ linked \in BOOLEAN /\ shown \in BOOLEAN /\ mixed \in BOOLEAN /\ moved \in BOOLEAN

\* A stream is of a job there is, and a job it called ended has ended so.
StreamOK ==
  /\ stream # NoStream => stream.job # NoJob
  /\ stream # NoStream /\ stream.said \in Terminal => jobs[stream.job].status = stream.said
  /\ ~shown => stream = NoStream

ViewOK ==
  shown /\ ~moved => /\ linked = (stream # NoStream) /\ view.connected = (stream # NoStream)
                     /\ view.jobId = jobId

CancelsOK ==
  ~moved => cancels \subseteq asked /\ \A id \in DOMAIN jobs : jobs[id].status = "canceled" => id \in asked

ReferenceOK ==
  reference # NoDevices =>
    /\ stream # NoStream => stream.job = mine
    /\ mine # NoJob => jobs[mine].place = place /\ reference \subseteq jobs[mine].devices
    /\ post.pc # "idle" => post.place = place /\ reference \subseteq post.devices

WasDeployed == \A d \in deployed : \E id \in DOMAIN jobs : IncludedIn(id) /\ d \in jobs[id].devices

LiveInv == LiveTypes /\ StreamOK /\ ViewOK /\ CancelsOK /\ (~mixed => ReferenceOK /\ WasDeployed)

-----------------------------------------------------------------------------
\* Jobs are added, and end once.
JobsKept(old, new) ==
  /\ new \in Seq(Job) /\ Len(old) \in Nat /\ Len(new) \in Nat /\ Len(old) <= Len(new)
  /\ \A id \in 1 .. Len(old) :
       /\ new[id].place = old[id].place /\ new[id].devices = old[id].devices
       /\ old[id].status \in Terminal => new[id].status = old[id].status

LEMMA JobsStay == jobs \in Seq(Job) => JobsKept(jobs, jobs) /\ DOMAIN jobs = 1 .. Len(jobs)
  BY DEF JobsKept

LEMMA JobAdded ==
  ASSUME jobs \in Seq(Job), NEW j \in Job
  PROVE  /\ JobsKept(jobs, Append(jobs, j)) /\ Len(Append(jobs, j)) = Len(jobs) + 1
         /\ Append(jobs, j)[Len(jobs) + 1] = j
         /\ \A id \in 1 .. Len(jobs) : Append(jobs, j)[id] = jobs[id]
         /\ DOMAIN Append(jobs, j) = 1 .. Len(jobs) + 1
  BY DEF JobsKept

LEMMA JobEnded ==
  ASSUME jobs \in Seq(Job), NEW id \in DOMAIN jobs, NEW status \in Terminal, jobs[id].status = "running"
  PROVE  LET new == [jobs EXCEPT ![id].status = status]
         IN  /\ JobsKept(jobs, new) /\ Len(new) = Len(jobs)
             /\ new[id].status = status /\ \A j \in DOMAIN jobs \ {id} : new[j] = jobs[j]
  <1> DEFINE new == [jobs EXCEPT ![id].status = status]
             r == [jobs[id] EXCEPT !.status = status]
  <1>1. jobs[id] \in Job /\ DOMAIN jobs = 1 .. Len(jobs) /\ Len(jobs) \in Nat
    OBVIOUS
  <1>2. r \in Job /\ r.place = jobs[id].place /\ r.devices = jobs[id].devices /\ r.status = status
    BY <1>1 DEF Job
  <1>3. new = [jobs EXCEPT ![id] = r]
    BY <1>1
  <1> HIDE DEF r
  <1>4. new \in Seq(Job) /\ Len(new) = Len(jobs) /\ new[id] = r /\ \A j \in DOMAIN jobs \ {id} : new[j] = jobs[j]
    BY <1>1, <1>2, <1>3
  <1> HIDE DEF new
  <1>5. JobsKept(jobs, new)
    BY <1>1, <1>2, <1>4 DEF JobsKept, Terminal
  <1> QED
    BY <1>2, <1>4, <1>5 DEF new

\* What was deployed stays so in the same workspace.
LEMMA DeployedStays ==
  ASSUME LiveTypes, JobsKept(jobs, jobs'), place' = place, deployed' \subseteq deployed, WasDeployed
  PROVE  WasDeployed'
  <1>1. DOMAIN jobs = 1 .. Len(jobs) /\ DOMAIN jobs' = 1 .. Len(jobs') /\ Len(jobs) \in Nat /\ Len(jobs') \in Nat
    BY DEF LiveTypes, JobsKept
  <1>2. ASSUME NEW d \in deployed'
        PROVE  \E id \in DOMAIN jobs' : IncludedIn(id)' /\ d \in jobs'[id].devices
    <2>1. PICK id \in DOMAIN jobs : IncludedIn(id) /\ d \in jobs[id].devices
      BY <1>2 DEF WasDeployed
    <2>2. id \in DOMAIN jobs'
      BY <1>1 DEF JobsKept
    <2>3. jobs'[id].place = jobs[id].place /\ jobs'[id].devices = jobs[id].devices /\ jobs'[id].status = jobs[id].status
      BY <1>1, <2>1 DEF JobsKept, IncludedIn, Terminal
    <2> QED
      BY <2>1, <2>2, <2>3 DEF IncludedIn
  <1> QED
    BY <1>2 DEF WasDeployed

-----------------------------------------------------------------------------
\* What a step that leaves a part alone keeps of it.
LEMMA IdsStay ==
  ASSUME LiveTypes, JobsKept(jobs, jobs')
  PROVE  0 .. Len(jobs) \subseteq 0 .. Len(jobs')
  BY DEF LiveTypes, JobsKept

LEMMA StreamStays ==
  ASSUME LiveTypes, StreamOK, JobsKept(jobs, jobs'), stream' \in {stream, NoStream},
         ~shown' => ~shown \/ stream' = NoStream
  PROVE  StreamOK'
  <1>1. CASE stream' = NoStream
    BY <1>1 DEF StreamOK, NoStream
  <1>2. CASE stream' = stream /\ stream # NoStream
    <2>1. stream.job \in 1 .. Len(jobs)
      BY <1>2 DEF StreamOK, LiveTypes, NoJob
    <2>2. jobs[stream.job].status \in Terminal => jobs'[stream.job].status = jobs[stream.job].status
      BY <2>1 DEF JobsKept
    <2> QED
      BY <1>2, <2>2 DEF StreamOK, NoStream
  <1> QED
    BY <1>1, <1>2

LEMMA ReferenceStays ==
  ASSUME LiveTypes, ReferenceOK, JobsKept(jobs, jobs'), stream' \in {stream, NoStream},
         mine' = mine, place' = place, reference' \in {reference, NoDevices},
         post'.pc # "idle" => post.pc # "idle" /\ post'.place = post.place /\ post'.devices = post.devices
  PROVE  ReferenceOK'
  <1> SUFFICES ASSUME reference' # NoDevices
               PROVE  ReferenceOK'
    BY DEF ReferenceOK
  <1>1. reference' = reference /\ reference # NoDevices
    OBVIOUS
  <1>2. mine # NoJob => jobs'[mine].place = jobs[mine].place /\ jobs'[mine].devices = jobs[mine].devices
    BY DEF LiveTypes, JobsKept, NoJob
  <1> QED
    BY <1>1, <1>2 DEF ReferenceOK, NoStream

LEMMA CancelsStay ==
  ASSUME CancelsOK, moved' = moved, asked' = asked, cancels' \subseteq cancels,
         \A id \in DOMAIN jobs' : jobs'[id].status = "canceled" =>
             (id \in DOMAIN jobs /\ jobs[id].status = "canceled") \/ id \in cancels
  PROVE  CancelsOK'
  BY DEF CancelsOK

\* What the page takes from a status of the stream.
LEMMA Taken ==
  ASSUME LiveInv, NEW status, TakeReference(status), jobs' = jobs, place' = place, complete' = complete,
         stream # NoStream, status = "succeeded" => jobs[stream.job].status = "succeeded"
  PROVE  /\ reference' \in {reference, NoDevices} /\ selection' \subseteq complete
         /\ ~mixed => WasDeployed'
  <1>1. reference' \in {reference, NoDevices} /\ selection' \subseteq complete
    BY DEF LiveInv, LiveTypes, TakeReference, Kept
  <1>2. ASSUME ~mixed
        PROVE  WasDeployed'
    <2>1. CASE deployed' = deployed
      BY <1>2, <2>1 DEF LiveInv, WasDeployed, IncludedIn
    <2>2. CASE deployed' # deployed
      <3>1. status = "succeeded" /\ reference # NoDevices /\ deployed' = deployed \cup reference
        BY <2>2 DEF TakeReference
      <3>2. stream.job = mine /\ mine \in 1 .. Len(jobs)
        BY <1>2, <3>1 DEF LiveInv, LiveTypes, StreamOK, ReferenceOK, NoJob
      <3>3. mine \in DOMAIN jobs /\ IncludedIn(mine) /\ reference \subseteq jobs[mine].devices
        BY <1>2, <3>1, <3>2 DEF LiveInv, LiveTypes, ReferenceOK, IncludedIn, NoJob
      <3> QED
        BY <1>2, <3>1, <3>3 DEF LiveInv, WasDeployed, IncludedIn
    <2> QED
      BY <2>1, <2>2
  <1> QED
    BY <1>1, <1>2

\* The servers a deployment is of include those that are selected.
LEMMA AllTargeted == LiveTypes => selection \subseteq Targeted /\ Targeted \in SUBSET Devices
  BY DEF LiveTypes, Targeted

LEMMA StreamsDiffer == \A id, said : id # NoJob => [job |-> id, said |-> said] # NoStream
  BY DEF NoStream

-----------------------------------------------------------------------------
LEMMA ChoiceStep ==
  ASSUME LiveInv,
         \/ SelectAll \/ DeselectAll \/ \E d \in Devices : ToggleDeployAlias(d)
         \/ \E c \in SUBSET Devices : EditServers(c)
  PROVE  LiveInv'
  <1>1. /\ UNCHANGED <<jobs, place, deployed, reference, post, controls, live, cancels, remembered>>
        /\ complete' \subseteq Devices /\ selection' \subseteq complete'
    BY DEF LiveInv, LiveTypes, SelectAll, DeselectAll, ToggleDeployAlias, Select, selectable, EditServers, Kept
  <1>2. JobsKept(jobs, jobs')
    BY <1>1, JobsStay DEF LiveInv, LiveTypes
  <1>3. LiveTypes'
    BY <1>1 DEF LiveInv, LiveTypes, controls, live, remembered
  <1>4. StreamOK' /\ ViewOK' /\ CancelsOK'
    BY <1>1 DEF LiveInv, StreamOK, ViewOK, CancelsOK, controls, live, remembered
  <1>5. ~mixed' => ReferenceOK' /\ WasDeployed'
    BY <1>1 DEF LiveInv, ReferenceOK, WasDeployed, IncludedIn, controls, live, remembered
  <1> QED
    BY <1>3, <1>4, <1>5 DEF LiveInv

LEMMA StreamStep ==
  ASSUME LiveInv, StreamStatus \/ StreamDone \/ StreamLost
  PROVE  LiveInv'
  <1>0. /\ stream # NoStream /\ stream.job \in 1 .. Len(jobs) /\ shown = TRUE
        /\ jobs[stream.job] \in Job /\ jobs[stream.job].status \in {"running"} \cup Terminal
    <2>1. stream # NoStream /\ stream.job \in 1 .. Len(jobs) /\ shown = TRUE
      BY DEF StreamStatus, StreamDone, StreamLost, LiveInv, LiveTypes, StreamOK, NoJob
    <2>2. jobs[stream.job] \in Job
      BY <2>1 DEF LiveInv, LiveTypes
    <2> QED
      BY <2>1, <2>2 DEF Job
  <1>1. /\ jobs' = jobs /\ place' = place /\ complete' = complete /\ post' = post /\ jobId' = jobId
        /\ shown' = shown /\ cancels' = cancels /\ mine' = mine /\ asked' = asked /\ mixed' = mixed /\ moved' = moved
    BY DEF StreamStatus, StreamDone, StreamLost, targets, controls, remembered
  <1>2. JobsKept(jobs, jobs')
    BY <1>1, JobsStay DEF LiveInv, LiveTypes
  <1>3. /\ reference' \in {reference, NoDevices} /\ selection' \subseteq complete
        /\ ~mixed => WasDeployed'
    <2>1. CASE StreamStatus
      BY <1>0, <1>1, <2>1, Taken DEF StreamStatus
    <2>2. CASE StreamDone
      <3>1. stream.said = jobs[stream.job].status
        BY <2>2 DEF StreamDone, LiveInv, StreamOK
      <3> QED
        BY <1>0, <1>1, <2>2, <3>1, Taken DEF StreamDone
    <2>3. CASE StreamLost
      BY <1>1, <2>3 DEF StreamLost, targets, LiveInv, LiveTypes, WasDeployed, IncludedIn
    <2> QED
      BY <2>1, <2>2, <2>3
  <1>4. /\ stream' # NoStream => stream'.job = stream.job
        /\ stream' # NoStream /\ stream'.said \in Terminal => stream'.said = jobs[stream.job].status
        /\ stream' \in [job : 0 .. Len(jobs), said : {NoStatus, "running"} \cup Terminal]
        /\ view' \in [jobId : 0 .. Len(jobs), status : {NoStatus, "running"} \cup Terminal, connected : BOOLEAN]
        /\ linked' \in BOOLEAN
    <2>1. CASE StreamStatus
      <3> DEFINE status == jobs[stream.job].status
      <3>1. /\ stream' = [stream EXCEPT !.said = status] /\ view' = [view EXCEPT !.status = status]
            /\ linked' = linked
        BY <2>1 DEF StreamStatus, controls
      <3>2. status \in {NoStatus, "running"} \cup Terminal /\ status = jobs[stream.job].status
        BY <1>0
      <3> HIDE DEF status
      <3>3. /\ stream'.job = stream.job /\ stream'.said = status
            /\ stream' \in [job : 0 .. Len(jobs), said : {NoStatus, "running"} \cup Terminal]
        BY <3>1, <3>2 DEF LiveInv, LiveTypes
      <3>4. view' \in [jobId : 0 .. Len(jobs), status : {NoStatus, "running"} \cup Terminal, connected : BOOLEAN]
        BY <3>1, <3>2 DEF LiveInv, LiveTypes
      <3> QED
        BY <3>1, <3>2, <3>3, <3>4 DEF LiveInv, LiveTypes
    <2>2. CASE StreamDone \/ StreamLost
      <3>1. stream' = NoStream /\ view' = [view EXCEPT !.connected = FALSE] /\ linked' = FALSE
        BY <2>2 DEF StreamDone, StreamLost, Detach
      <3>2. NoStream \in [job : 0 .. Len(jobs), said : {NoStatus, "running"} \cup Terminal]
        BY DEF LiveInv, LiveTypes, NoStream, NoJob
      <3>3. view' \in [jobId : 0 .. Len(jobs), status : {NoStatus, "running"} \cup Terminal, connected : BOOLEAN]
        BY <3>1 DEF LiveInv, LiveTypes
      <3> QED
        BY <3>1, <3>2, <3>3
    <2> QED
      BY <2>1, <2>2
  <1>5. LiveTypes'
    BY <1>1, <1>3, <1>4 DEF LiveInv, LiveTypes
  <1>6. StreamOK'
    BY <1>0, <1>1, <1>4 DEF StreamOK, NoJob
  <1>7. ViewOK'
    <2>1. CASE StreamStatus
      <3>1. linked' = linked /\ view'.jobId = view.jobId /\ view'.connected = view.connected
        BY <2>1 DEF StreamStatus, controls, LiveInv, LiveTypes
      <3>2. stream' # NoStream
        BY <1>0, <2>1 DEF StreamStatus, LiveInv, LiveTypes, NoStream, NoJob
      <3> QED
        BY <1>0, <1>1, <3>1, <3>2 DEF LiveInv, LiveTypes, ViewOK
    <2>2. CASE StreamDone \/ StreamLost
      <3>1. linked' = FALSE /\ view'.jobId = view.jobId /\ view'.connected = FALSE /\ stream' = NoStream
        BY <2>2 DEF StreamDone, StreamLost, Detach, LiveInv, LiveTypes
      <3> QED
        BY <1>0, <1>1, <3>1 DEF LiveInv, ViewOK
    <2> QED
      BY <2>1, <2>2
  <1>8. CancelsOK'
    BY <1>1, CancelsStay DEF LiveInv
  <1>9. ~mixed' => ReferenceOK' /\ WasDeployed'
    <2>1. ASSUME ~mixed, reference' # NoDevices
          PROVE  ReferenceOK'
      <3>1. reference' = reference /\ reference # NoDevices /\ ReferenceOK
        BY <1>3, <2>1 DEF LiveInv
      <3>2. stream' # NoStream => stream'.job = mine'
        BY <1>0, <1>1, <1>4, <3>1 DEF ReferenceOK
      <3> QED
        BY <1>1, <3>1, <3>2 DEF ReferenceOK
    <2> QED
      BY <1>1, <1>3, <2>1 DEF ReferenceOK
  <1> QED
    BY <1>5, <1>6, <1>7, <1>8, <1>9 DEF LiveInv

LEMMA TabStep ==
  ASSUME LiveInv, CloseTab \/ OpenTab
  PROVE  LiveInv'
  <1>1. /\ UNCHANGED <<jobs, targets, reference, post, jobId, cancels, remembered>>
        /\ linked' \in BOOLEAN /\ stream' = NoStream /\ shown' \in BOOLEAN
        /\ view' \in [jobId : {NoJob, jobId}, status : {NoStatus}, connected : {FALSE}]
        /\ shown' => linked' = FALSE /\ view'.jobId = jobId
    <2>1. CASE CloseTab
      BY <2>1 DEF CloseTab, View, controls, LiveInv, LiveTypes
    <2>2. CASE OpenTab
      BY <2>2 DEF OpenTab, Mount, View, LiveInv, LiveTypes, StreamOK
    <2> QED
      BY <2>1, <2>2
  <1>2. JobsKept(jobs, jobs')
    BY <1>1, JobsStay DEF LiveInv, LiveTypes
  <1>3. LiveTypes'
    <2>1. 0 \in 0 .. Len(jobs) /\ jobId \in 0 .. Len(jobs) /\ NoJob = 0
      BY DEF LiveInv, LiveTypes, NoJob
    <2>2. /\ view' \in [jobId : 0 .. Len(jobs), status : {NoStatus, "running"} \cup Terminal, connected : BOOLEAN]
          /\ stream' \in [job : 0 .. Len(jobs), said : {NoStatus, "running"} \cup Terminal]
      BY <1>1, <2>1 DEF NoStream
    <2> QED
      BY <1>1, <2>2 DEF LiveInv, LiveTypes, targets, remembered
  <1>4. StreamOK' /\ CancelsOK'
    BY <1>1, <1>2, StreamStays DEF LiveInv, CancelsOK, remembered
  <1>5. ViewOK'
    BY <1>1 DEF ViewOK
  <1>6. ~mixed' => ReferenceOK' /\ WasDeployed'
    BY <1>1, <1>2, ReferenceStays DEF LiveInv, targets, remembered, WasDeployed, IncludedIn
  <1> QED
    BY <1>3, <1>4, <1>5, <1>6 DEF LiveInv

LEMMA StartStep ==
  ASSUME LiveInv, StartDeployment
  PROVE  LiveInv'
  <1>1. /\ UNCHANGED <<jobs, targets, linked, bumped, shown, stream, cancels, asked, moved>>
        /\ reference' = selection /\ jobId' = NoJob /\ mine' = NoJob /\ shown = TRUE
        /\ post' = [pc |-> "first", place |-> place, devices |-> Targeted]
        /\ mixed' = (mixed \/ stream # NoStream) /\ view' = Follow(NoJob)
    BY DEF StartDeployment, LiveInv, LiveTypes
  <1>2. /\ view' \in [jobId : {view.jobId, NoJob}, status : {view.status}, connected : {view.connected}]
        /\ view.jobId = jobId => view'.jobId = jobId'
    BY <1>1 DEF Follow, LiveInv, LiveTypes, NoJob
  <1>3. post' \in [pc : {"idle", "first", "second"}, place : Places, devices : SUBSET Devices]
    BY <1>1, AllTargeted DEF LiveInv, LiveTypes
  <1>4. LiveTypes'
    BY <1>1, <1>2, <1>3 DEF LiveInv, LiveTypes, targets, NoJob
  <1>5. StreamOK' /\ CancelsOK'
    BY <1>1 DEF LiveInv, StreamOK, CancelsOK
  <1>6. ViewOK'
    BY <1>1, <1>2 DEF LiveInv, ViewOK
  <1>7. ~mixed' => ReferenceOK' /\ WasDeployed'
    BY <1>1, AllTargeted DEF LiveInv, LiveTypes, targets, ReferenceOK, WasDeployed, IncludedIn
  <1> QED
    BY <1>4, <1>5, <1>6, <1>7 DEF LiveInv

LEMMA CreatedStep ==
  ASSUME LiveInv, DeploymentCreated
  PROVE  LiveInv'
  <1> DEFINE id == Len(jobs) + 1
             new == [place |-> post.place, devices |-> post.devices, status |-> "running"]
  <1>0. id \in Nat /\ id # NoJob /\ new \in Job /\ jobs \in Seq(Job)
    BY DEF LiveInv, LiveTypes, Job, NoJob
  <1>1. /\ UNCHANGED <<targets, reference, shown, cancels, acts, asked, mixed, moved>>
        /\ jobs' = Append(jobs, new) /\ jobId' = id /\ mine' = id /\ post.pc # "idle"
        /\ post' = NoPost
        /\ shown => Attach(id)
        /\ ~shown => UNCHANGED <<view, stream, linked>>
    BY DEF DeploymentCreated, Deployed, LiveInv, LiveTypes
  <1>2. new.place = post.place /\ new.devices = post.devices /\ new.status = "running"
    OBVIOUS
  <1> HIDE DEF new
  <1>3. /\ JobsKept(jobs, jobs') /\ Len(jobs') = id /\ jobs'[id] = new /\ DOMAIN jobs' = 1 .. id
        /\ \A j \in 1 .. Len(jobs) : jobs'[j] = jobs[j]
    BY <1>0, <1>1, JobAdded
  <1>4. /\ 0 .. Len(jobs) \subseteq 0 .. Len(jobs') /\ id \in 0 .. Len(jobs') /\ jobs' \in Seq(Job)
        /\ DOMAIN jobs = 1 .. Len(jobs)
    BY <1>0, <1>3, IdsStay, JobsStay DEF LiveInv, JobsKept
  <1> HIDE DEF id
  <1>5. /\ view' \in [jobId : {view.jobId, id}, status : {view.status, NoStatus}, connected : {view.connected, TRUE}]
        /\ stream' \in [job : {stream.job, id}, said : {stream.said, NoStatus}] /\ linked' \in BOOLEAN
        /\ ~shown => stream' = stream /\ stream = NoStream
        /\ shown => stream' # NoStream /\ stream'.job = id /\ stream'.said = NoStatus
                    /\ view'.jobId = id /\ view'.connected = TRUE /\ linked' = (linked \/ ~view.connected)
    <2>1. CASE shown
      <3>1. /\ view' = [jobId |-> id, status |-> NoStatus, connected |-> TRUE]
            /\ stream' = [job |-> id, said |-> NoStatus] /\ linked' = (linked \/ ~view.connected)
        BY <1>1, <2>1 DEF Attach, View
      <3>2. stream' # NoStream
        BY <1>0, <3>1, StreamsDiffer
      <3> QED
        BY <2>1, <3>1, <3>2 DEF LiveInv, LiveTypes
    <2>2. CASE ~shown
      BY <1>0, <1>1, <2>2 DEF LiveInv, LiveTypes, StreamOK
    <2> QED
      BY <2>1, <2>2
  <1>6. LiveTypes'
    <2>1. post' \in [pc : {"idle", "first", "second"}, place : Places, devices : SUBSET Devices]
      BY <1>1 DEF NoPost, LiveInv, LiveTypes
    <2> QED
      BY <1>1, <1>4, <1>5, <2>1 DEF LiveInv, LiveTypes, targets
  <1>7. StreamOK'
    BY <1>0, <1>1, <1>5, LiveAssumption DEF LiveInv, LiveTypes, StreamOK, Terminal, NoStream
  <1>8. ViewOK'
    BY <1>1, <1>5 DEF LiveInv, LiveTypes, ViewOK
  <1>9. CancelsOK'
    <2>1. \A j \in DOMAIN jobs' : jobs'[j].status = "canceled" => j \in DOMAIN jobs /\ jobs[j].status = "canceled"
      BY <1>0, <1>2, <1>3, <1>4 DEF id
    <2> QED
      BY <1>1, <2>1, CancelsStay DEF LiveInv
  <1>10. ASSUME ~mixed'
         PROVE  ReferenceOK' /\ WasDeployed'
    <2>1. ~mixed /\ ReferenceOK /\ WasDeployed
      BY <1>1, <1>10 DEF LiveInv
    <2>2. WasDeployed'
      BY <1>1, <1>3, <2>1, DeployedStays DEF LiveInv, targets
    <2>3. ReferenceOK'
      BY <1>1, <1>2, <1>3, <1>5, <2>1 DEF ReferenceOK, targets, NoPost
    <2> QED
      BY <2>2, <2>3
  <1> QED
    BY <1>6, <1>7, <1>8, <1>9, <1>10 DEF LiveInv

LEMMA PostStep ==
  ASSUME LiveInv, NeedsPassword \/ DeploymentRefused
  PROVE  LiveInv'
  <1> DEFINE new == [place |-> post.place, devices |-> post.devices, status |-> "running"]
  <1>1. /\ UNCHANGED <<targets, reference, controls, live, cancels, acts, remembered>>
        /\ jobs' \in {jobs, Append(jobs, new)} /\ post.pc # "idle"
        /\ post' \in [pc : {"idle", "first", "second"}, place : Places, devices : SUBSET Devices]
        /\ post'.pc # "idle" => post'.place = post.place /\ post'.devices = post.devices
    <2>1. CASE NeedsPassword
      <3>1. /\ UNCHANGED <<jobs, targets, reference, controls, live, cancels, acts, remembered>>
            /\ post' = [post EXCEPT !.pc = "second"] /\ post.pc = "first"
        BY <2>1 DEF NeedsPassword
      <3> QED
        BY <3>1 DEF LiveInv, LiveTypes
    <2>2. CASE DeploymentRefused
      <3>1. /\ UNCHANGED <<targets, reference, controls, live, cancels, acts, remembered>>
            /\ jobs' \in {jobs, Append(jobs, new)} /\ post' = NoPost /\ post.pc # "idle"
        BY <2>2 DEF DeploymentRefused, Deployed
      <3> QED
        BY <3>1 DEF LiveInv, LiveTypes, NoPost
    <2> QED
      BY <2>1, <2>2
  <1>2. new \in Job /\ new.status = "running" /\ jobs \in Seq(Job)
    BY DEF LiveInv, LiveTypes, Job
  <1> HIDE DEF new
  <1>3. /\ JobsKept(jobs, jobs')
        /\ \A id \in DOMAIN jobs' : jobs'[id].status = "canceled" => id \in DOMAIN jobs /\ jobs[id].status = "canceled"
    <2>1. CASE jobs' = jobs
      BY <1>2, <2>1, JobsStay
    <2>2. CASE jobs' = Append(jobs, new)
      <3>1. /\ JobsKept(jobs, jobs') /\ DOMAIN jobs = 1 .. Len(jobs) /\ Len(jobs) \in Nat
            /\ jobs'[Len(jobs) + 1] = new /\ \A id \in 1 .. Len(jobs) : jobs'[id] = jobs[id]
            /\ DOMAIN jobs' = 1 .. Len(jobs) + 1
        BY <1>2, <2>2, JobAdded
      <3> QED
        BY <1>2, <3>1
    <2> QED
      BY <1>1, <2>1, <2>2
  <1>4. LiveTypes'
    <2>1. 0 .. Len(jobs) \subseteq 0 .. Len(jobs') /\ jobs' \in Seq(Job)
      BY <1>3, IdsStay DEF LiveInv, JobsKept
    <2> QED
      BY <1>1, <2>1 DEF LiveInv, LiveTypes, targets, controls, live, remembered
  <1>5. StreamOK'
    BY <1>1, <1>3, StreamStays DEF LiveInv, live, StreamOK
  <1>6. ViewOK'
    BY <1>1 DEF LiveInv, ViewOK, live, controls, remembered
  <1>7. CancelsOK'
    BY <1>1, <1>3, CancelsStay DEF LiveInv, remembered
  <1>8. ASSUME ~mixed'
        PROVE  ReferenceOK' /\ WasDeployed'
    <2>1. ~mixed /\ ReferenceOK /\ WasDeployed
      BY <1>1, <1>8 DEF LiveInv, remembered
    <2> QED
      BY <1>1, <1>3, <2>1, ReferenceStays, DeployedStays DEF LiveInv, targets, live, remembered
  <1> QED
    BY <1>4, <1>5, <1>6, <1>7, <1>8 DEF LiveInv

LEMMA ButtonStep ==
  ASSUME LiveInv, RequestConnect \/ RequestCancel \/ \E id \in 0 .. MaxJobs : TypeJobId(id)
  PROVE  LiveInv'
  <1>1. CASE RequestConnect
    <2>1. /\ UNCHANGED <<jobs, targets, reference, post, jobId, shown, cancels, mine, asked, moved>>
          /\ shown = TRUE /\ jobId # NoJob /\ linked' = (linked \/ ~view.connected)
          /\ view' = [jobId |-> jobId, status |-> NoStatus, connected |-> TRUE]
          /\ stream' = [job |-> jobId, said |-> NoStatus]
          /\ mixed' = (mixed \/ (reference # NoDevices /\ jobId # mine))
      BY <1>1 DEF RequestConnect, Attach, View, LiveInv, LiveTypes
    <2>2. stream' # NoStream
      BY <2>1, StreamsDiffer
    <2>3. LiveTypes'
      BY <2>1 DEF LiveInv, LiveTypes, targets
    <2>4. StreamOK'
      BY <2>1, LiveAssumption DEF StreamOK, Terminal
    <2>5. ViewOK' /\ CancelsOK'
      BY <2>1, <2>2 DEF LiveInv, LiveTypes, ViewOK, CancelsOK
    <2>6. ~mixed' => ReferenceOK' /\ WasDeployed'
      BY <2>1 DEF LiveInv, LiveTypes, ReferenceOK, WasDeployed, IncludedIn, targets
    <2> QED
      BY <2>3, <2>4, <2>5, <2>6 DEF LiveInv
  <1>2. CASE RequestCancel
    <2>1. /\ UNCHANGED <<jobs, targets, reference, post, jobId, linked, live, mine, mixed, moved>>
          /\ cancels' = cancels \cup Cancelable /\ asked' = asked \cup Cancelable
      BY <1>2 DEF RequestCancel
    <2>2. LiveTypes' /\ StreamOK' /\ ViewOK' /\ CancelsOK'
      BY <2>1 DEF LiveInv, LiveTypes, StreamOK, ViewOK, CancelsOK, targets, live
    <2>3. ~mixed' => ReferenceOK' /\ WasDeployed'
      BY <2>1 DEF LiveInv, ReferenceOK, WasDeployed, IncludedIn, targets, live
    <2> QED
      BY <2>2, <2>3 DEF LiveInv
  <1>3. ASSUME NEW id \in 0 .. MaxJobs, TypeJobId(id)
        PROVE  LiveInv'
    <2>1. /\ UNCHANGED <<jobs, targets, reference, post, linked, bumped, shown, stream, cancels, remembered>>
          /\ shown = TRUE /\ id \in 0 .. Len(jobs) /\ jobId' = id /\ view' = [view EXCEPT !.jobId = id]
      BY <1>3 DEF TypeJobId, Follow, LiveInv, LiveTypes
    <2>2. /\ view' \in [jobId : 0 .. Len(jobs), status : {NoStatus, "running"} \cup Terminal, connected : BOOLEAN]
          /\ view'.jobId = id /\ view'.connected = view.connected
      BY <2>1 DEF LiveInv, LiveTypes
    <2>3. LiveTypes' /\ StreamOK' /\ ViewOK' /\ CancelsOK'
      BY <2>1, <2>2 DEF LiveInv, LiveTypes, StreamOK, ViewOK, CancelsOK, targets, remembered
    <2>4. ~mixed' => ReferenceOK' /\ WasDeployed'
      BY <2>1 DEF LiveInv, ReferenceOK, WasDeployed, IncludedIn, targets, remembered
    <2> QED
      BY <2>3, <2>4 DEF LiveInv
  <1> QED
    BY <1>1, <1>2, <1>3

LEMMA SwitchStep ==
  ASSUME LiveInv, NEW p \in Places, SwitchWorkspace(p)
  PROVE  LiveInv'
  <1>1. /\ UNCHANGED <<jobs, reference, post, shown, mine, asked>>
        /\ place' = p /\ complete' = Devices /\ selection' = Devices /\ deployed' = {} /\ jobId' = NoJob
        /\ mixed' = (mixed \/ reference # NoDevices \/ post.pc # "idle") /\ moved' = (moved \/ shown)
        /\ ~shown => cancels' = cancels
        /\ ~(shown /\ "connect" \in bumped /\ view.jobId # NoJob) =>
             view' = Follow(NoJob) /\ linked' = FALSE /\ UNCHANGED stream
        /\ shown /\ "connect" \in bumped /\ view.jobId # NoJob =>
             /\ view' = [jobId |-> view.jobId, status |-> NoStatus, connected |-> TRUE]
             /\ stream' = [job |-> view.jobId, said |-> NoStatus] /\ linked' = ~view.connected
    BY DEF SwitchWorkspace, View
  <1>2. /\ view' \in [jobId : {view.jobId, NoJob}, status : {view.status, NoStatus},
                      connected : {view.connected, TRUE}]
        /\ linked' \in BOOLEAN
        /\ stream' = stream \/ (shown /\ view.jobId # NoJob /\ stream' = [job |-> view.jobId, said |-> NoStatus])
    <2>1. CASE shown /\ "connect" \in bumped /\ view.jobId # NoJob
      <3>1. /\ view' = [jobId |-> view.jobId, status |-> NoStatus, connected |-> TRUE]
            /\ stream' = [job |-> view.jobId, said |-> NoStatus] /\ linked' = ~view.connected
        BY <1>1, <2>1
      <3> QED
        BY <2>1, <3>1 DEF LiveInv, LiveTypes
    <2>2. CASE ~(shown /\ "connect" \in bumped /\ view.jobId # NoJob)
      <3>1. view' = Follow(NoJob) /\ linked' = FALSE /\ stream' = stream
        BY <1>1, <2>2
      <3>2. view' = view \/ view' = [view EXCEPT !.jobId = NoJob]
        BY <3>1 DEF Follow
      <3>3. view' \in [jobId : {view.jobId, NoJob}, status : {view.status}, connected : {view.connected}]
        BY <3>2 DEF LiveInv, LiveTypes
      <3> QED
        BY <3>1, <3>3
    <2> QED
      BY <2>1, <2>2
  <1>3. LiveTypes'
    <2>1. 0 \in 0 .. Len(jobs)
      BY DEF LiveInv, LiveTypes
    <2>2. view' \in [jobId : 0 .. Len(jobs), status : {NoStatus, "running"} \cup Terminal, connected : BOOLEAN]
      BY <1>2, <2>1 DEF LiveInv, LiveTypes, NoJob
    <2>3. stream' \in [job : 0 .. Len(jobs), said : {NoStatus, "running"} \cup Terminal]
      BY <1>2 DEF LiveInv, LiveTypes
    <2> QED
      BY <1>1, <1>2, <2>1, <2>2, <2>3 DEF LiveInv, LiveTypes, NoJob
  <1>4. StreamOK'
    BY <1>1, <1>2, LiveAssumption DEF LiveInv, StreamOK, Terminal
  <1>5. ViewOK' /\ CancelsOK'
    BY <1>1 DEF LiveInv, LiveTypes, ViewOK, CancelsOK
  <1>6. ~mixed' => ReferenceOK' /\ WasDeployed'
    BY <1>1 DEF LiveInv, LiveTypes, ReferenceOK, WasDeployed
  <1> QED
    BY <1>3, <1>4, <1>5, <1>6 DEF LiveInv

LEMMA JobStep ==
  ASSUME LiveInv, \E id \in 0 .. MaxJobs : JobEnds(id) \/ CancelArrives(id)
  PROVE  LiveInv'
  <1>1. PICK id \in 0 .. MaxJobs : JobEnds(id) \/ CancelArrives(id)
    OBVIOUS
  <1>2. UNCHANGED <<targets, reference, post, controls, live, acts, remembered>> /\ cancels' \subseteq cancels
    BY <1>1 DEF JobEnds, CancelArrives
  <1>3. jobs \in Seq(Job) /\ DOMAIN jobs = 1 .. Len(jobs)
    BY DEF LiveInv, LiveTypes
  <1> DEFINE Ended(status) == [jobs EXCEPT ![id].status = status]
  <1>4. \/ jobs' = jobs
        \/ /\ id \in DOMAIN jobs /\ jobs[id].status = "running"
           /\ \E status \in Terminal : jobs' = Ended(status) /\ (status = "canceled" => id \in cancels)
    <2>1. CASE JobEnds(id)
      BY <2>1 DEF JobEnds, Terminal
    <2>2. CASE CancelArrives(id) /\ jobs' # jobs
      <3> DEFINE status == IF jobs[id].status = "running" THEN "canceled" ELSE jobs[id].status
      <3>1. jobs' = [jobs EXCEPT ![id].status = status] /\ id \in cancels
        BY <2>2 DEF CancelArrives
      <3>2. id \in DOMAIN jobs
        <4>1. CASE id \notin DOMAIN jobs
          <5> HIDE DEF status
          <5>1. [jobs EXCEPT ![id].status = status] = jobs
            BY <1>3, <4>1
          <5> QED
            BY <2>2, <3>1, <5>1
        <4> QED
          BY <4>1
      <3>3. jobs[id].status = "running"
        <4>1. CASE jobs[id].status # "running"
          <5>1. jobs[id] \in Job /\ status = jobs[id].status
            BY <1>3, <3>2, <4>1
          <5>2. [jobs[id] EXCEPT !.status = jobs[id].status] = jobs[id]
            BY <5>1 DEF Job
          <5>3. jobs' = jobs
            BY <1>3, <3>1, <3>2, <5>1, <5>2
          <5> QED
            BY <2>2, <5>3
        <4> QED
          BY <4>1
      <3> QED
        BY <3>1, <3>2, <3>3 DEF Terminal
    <2> QED
      BY <1>1, <2>1, <2>2
  <1>5. /\ JobsKept(jobs, jobs') /\ Len(jobs') = Len(jobs)
        /\ \A j \in DOMAIN jobs' : jobs'[j].status = "canceled" =>
             (j \in DOMAIN jobs /\ jobs[j].status = "canceled") \/ j \in cancels
    <2>1. CASE jobs' = jobs
      BY <1>3, <2>1, JobsStay DEF JobsKept
    <2>2. CASE jobs' # jobs
      <3>1. PICK status \in Terminal : jobs' = Ended(status) /\ (status = "canceled" => id \in cancels)
        BY <1>4, <2>2
      <3>2. id \in DOMAIN jobs /\ jobs[id].status = "running"
        BY <1>4, <2>2
      <3>3. /\ JobsKept(jobs, jobs') /\ Len(jobs') = Len(jobs)
            /\ jobs'[id].status = status /\ \A j \in DOMAIN jobs \ {id} : jobs'[j] = jobs[j]
        BY <1>3, <3>1, <3>2, JobEnded
      <3>4. DOMAIN jobs' = DOMAIN jobs
        BY <1>3, <3>3 DEF JobsKept
      <3> QED
        BY <3>1, <3>2, <3>3, <3>4
    <2> QED
      BY <2>1, <2>2
  <1>6. LiveTypes'
    BY <1>2, <1>5 DEF LiveInv, LiveTypes, JobsKept, targets, controls, live, remembered
  <1>7. StreamOK'
    BY <1>2, <1>5, StreamStays DEF LiveInv, live, StreamOK
  <1>8. ViewOK'
    BY <1>2 DEF LiveInv, ViewOK, live, controls, remembered
  <1>9. CancelsOK'
    BY <1>2, <1>5, CancelsStay DEF LiveInv, remembered
  <1>10. ASSUME ~mixed'
         PROVE  ReferenceOK' /\ WasDeployed'
    <2>1. ~mixed /\ ReferenceOK /\ WasDeployed
      BY <1>2, <1>10 DEF LiveInv, remembered
    <2> QED
      BY <1>2, <1>5, <2>1, ReferenceStays, DeployedStays DEF LiveInv, targets, live, remembered
  <1> QED
    BY <1>6, <1>7, <1>8, <1>9, <1>10 DEF LiveInv

-----------------------------------------------------------------------------
LEMMA LiveInitially == LiveInit => LiveInv
  <1> SUFFICES ASSUME LiveInit
               PROVE  LiveInv
    OBVIOUS
  <1>1. place \in Places /\ jobs = <<>> /\ Len(jobs) = 0 /\ jobs \in Seq(Job) /\ DOMAIN jobs = {}
    BY LiveAssumption DEF LiveInit
  <1>2. LiveTypes
    <2>1. post = [pc |-> "idle", place |-> place, devices |-> {}]
      BY DEF LiveInit, NoPost
    <2>2. /\ view = [jobId |-> 0, status |-> NoStatus, connected |-> FALSE]
          /\ stream = [job |-> 0, said |-> NoStatus] /\ jobId = 0 /\ mine = 0
      BY DEF LiveInit, View, NoStream, NoJob
    <2>3. /\ linked \in BOOLEAN /\ shown \in BOOLEAN /\ mixed \in BOOLEAN /\ moved \in BOOLEAN
          /\ complete = Devices /\ selection = Devices
      BY DEF LiveInit
    <2> QED
      BY <1>1, <2>1, <2>2, <2>3 DEF LiveTypes
  <1>3. StreamOK /\ ViewOK /\ CancelsOK /\ ReferenceOK /\ WasDeployed
    BY <1>1 DEF LiveInit, StreamOK, ViewOK, CancelsOK, ReferenceOK, WasDeployed, View
  <1> QED
    BY <1>2, <1>3 DEF LiveInv

LEMMA LiveStep == LiveInv /\ [LiveNext]_liveVars => LiveInv'
  <1> SUFFICES ASSUME LiveInv, [LiveNext]_liveVars
               PROVE  LiveInv'
    OBVIOUS
  <1>1. CASE \/ SelectAll \/ DeselectAll \/ \E d \in Devices : ToggleDeployAlias(d)
             \/ \E c \in SUBSET Devices : EditServers(c)
    BY <1>1, ChoiceStep
  <1>2. CASE StreamStatus \/ StreamDone \/ StreamLost
    BY <1>2, StreamStep
  <1>3. CASE CloseTab \/ OpenTab
    BY <1>3, TabStep
  <1>4. CASE StartDeployment
    BY <1>4, StartStep
  <1>5. CASE DeploymentCreated
    BY <1>5, CreatedStep
  <1>6. CASE NeedsPassword \/ DeploymentRefused
    BY <1>6, PostStep
  <1>7. CASE RequestConnect \/ RequestCancel \/ \E id \in 0 .. MaxJobs : TypeJobId(id)
    BY <1>7, ButtonStep
  <1>8. CASE \E p \in Places : SwitchWorkspace(p)
    BY <1>8, SwitchStep
  <1>9. CASE \E id \in 0 .. MaxJobs : JobEnds(id) \/ CancelArrives(id)
    BY <1>9, JobStep
  <1>10. CASE UNCHANGED liveVars
    BY <1>10 DEF liveVars, targets, controls, live, remembered, LiveInv, LiveTypes, StreamOK, ViewOK,
       CancelsOK, ReferenceOK, WasDeployed, IncludedIn
  <1> QED
    BY <1>1, <1>2, <1>3, <1>4, <1>5, <1>6, <1>7, <1>8, <1>9, <1>10 DEF LiveNext

LEMMA LiveAlways == LiveSpec => []LiveInv
  BY LiveInitially, LiveStep, PTL DEF LiveSpec

(***************************************************************************)
(* A device is marked as deployed (DeployPanel) only if a deployment of    *)
(* this workspace that included it succeeded, on every page that never had *)
(* two deployments mixed.                                                  *)
(***************************************************************************)
THEOREM MarkedWasDeployed == LiveSpec => []DeployedUnlessMixed
  <1>1. LiveInv => DeployedUnlessMixed
    BY DEF LiveInv, DeployedUnlessMixed, WasDeployed
  <1> QED
    BY LiveAlways, <1>1, PTL

(***************************************************************************)
(* A job is canceled only when somebody asked for it, and the page says    *)
(* Connected exactly while its view has a stream, of the same job id, as   *)
(* long as the workspace is not switched on the Deploy tab.                *)
(***************************************************************************)
THEOREM LiveViewStaysAgreed == LiveSpec => []LiveViewFollows
  <1>1. LiveInv => LiveViewFollows
    BY DEF LiveInv, LiveViewFollows, CanceledOnRequest, LiveViewAgrees, CancelsOK, ViewOK
  <1> QED
    BY LiveAlways, <1>1, PTL

-----------------------------------------------------------------------------
(***************************************************************************)
(* The Users tab.                                                          *)
(***************************************************************************)
\* SetToSeq lists every element once.
LEMMA ListedRow ==
  ASSUME NEW S, IsFiniteSet(S)
  PROVE  /\ SetToSeq(S) \in [1 .. Cardinality(S) -> S]
         /\ \A x \in S : \E i \in 1 .. Cardinality(S) : SetToSeq(S)[i] = x
         /\ \A i, j \in 1 .. Cardinality(S) : SetToSeq(S)[i] = SetToSeq(S)[j] => i = j
         /\ Cardinality(S) \in Nat
  <1> DEFINE n == Cardinality(S)
  <1>1. n \in Nat
    BY FS_CardinalityType
  <1>2. PICK m \in Nat : ExistsBijection(1 .. m, S)
    BY FS_NatBijection
  <1>3. m = n
    BY <1>2, FS_CountingElements
  <1>4. \E f \in [1 .. n -> S] : IsInjective(f)
    BY <1>2, <1>3 DEF ExistsBijection, Bijection, Injection
  <1>5. SetToSeq(S) \in [1 .. n -> S] /\ IsInjective(SetToSeq(S))
    BY <1>4 DEF SetToSeq
  <1>6. SetToSeq(S) \in Injection(1 .. n, S)
    BY <1>5 DEF Injection
  <1>7. Cardinality(1 .. n) = n
    BY <1>1, FS_Interval
  <1>8. SetToSeq(S) \in Surjection(1 .. n, S)
    BY <1>6, <1>7, FS_Injection
  <1> QED
    BY <1>1, <1>5, <1>8 DEF Surjection, IsInjective

\* The rows that are shown of a users map are written as the same map.
LEMMA RowsShown ==
  ASSUME NEW us, us = [n \in UserNames |-> us[n]]
  PROVE  YamlMap(RowsOf(us)) = us
  <1> DEFINE names == {m \in UserNames : us[m] # Gone}
             S == {[name |-> n, val |-> us[n]] : n \in names}
             rs == SetToSeq(S)
  <1>1. IsFiniteSet(S)
    <2>1. IsFiniteSet(UserNames)
      BY FS_Interval, UsersAssumption DEF UserNames
    <2>2. IsFiniteSet(names)
      BY <2>1, FS_Subset
    <2>3. [n \in names |-> [name |-> n, val |-> us[n]]] \in Surjection(names, S)
      BY DEF Surjection
    <2> QED
      BY <2>2, <2>3, FS_Surjection
  <1>2. RowsOf(us) = rs
    BY DEF RowsOf
  <1> DEFINE k == Cardinality(S)
  <1>3. /\ rs \in [1 .. k -> S] /\ \A x \in S : \E i \in 1 .. k : rs[i] = x
        /\ \A i, j \in 1 .. k : rs[i] = rs[j] => i = j
        /\ k \in Nat
    BY <1>1, ListedRow
  <1> HIDE DEF rs, k
  <1>4. ASSUME NEW n \in UserNames
        PROVE  YamlMap(rs)[n] = us[n]
    <2>1. CASE n \in names
      <3>1. PICK i \in 1 .. k : rs[i] = [name |-> n, val |-> us[n]]
        BY <1>3, <2>1
      <3>2. \A j \in DOMAIN rs : rs[j].name = n => j = i
        BY <1>3, <3>1
      <3>3. i \in DOMAIN rs /\ rs[i].name = n /\ \A j \in DOMAIN rs : rs[j].name = n => j <= i
        BY <1>3, <3>1, <3>2
      <3> DEFINE last == CHOOSE l \in DOMAIN rs : rs[l].name = n /\ \A j \in DOMAIN rs : rs[j].name = n => j <= l
      <3>4. last \in DOMAIN rs /\ rs[last].name = n
        BY <3>3
      <3>5. last = i
        BY <3>2, <3>4
      <3> HIDE DEF last
      <3>6. YamlMap(rs)[n] = rs[last].val
        BY <3>3 DEF YamlMap, last
      <3> QED
        BY <3>1, <3>5, <3>6
    <2>2. CASE n \notin names
      <3>1. \A i \in DOMAIN rs : rs[i].name # n
        BY <1>3, <2>2
      <3> QED
        BY <2>2, <3>1 DEF YamlMap
    <2> QED
      BY <2>1, <2>2
  <1> QED
    BY <1>2, <1>4 DEF YamlMap

-----------------------------------------------------------------------------
Calm == ~lossy /\ ~strayed
IsFile(f) ==
  f = NoFile \/ (f = [users |-> f.users, rest |-> f.rest] /\ f.users = [n \in UserNames |-> f.users[n]])
IsPut(p) ==
  /\ p = [rows |-> p.rows, home |-> p.home, doc |-> p.doc, mounted |-> p.mounted, state |-> p.state]
  /\ p.home \in Homes /\ p.doc \in {p.home, NoOne} /\ p.state \in {"sent", "done"}
IsGet(g) ==
  /\ g = [kind |-> g.kind, home |-> g.home, state |-> g.state, reply |-> g.reply] /\ g.home \in Homes
  /\ g.state \in {"sent", "read", "stale", "failed"} /\ g.kind \in {"load", "poll"}

\* Whose rows the table shows.
Shows(w) == onTab /\ (docOf = w \/ (docOf = NoOne /\ home = w /\ ~loading))
Content(s) == [users |-> YamlMap(s.rows), rest |-> s.doc]
Waits(w) == saveTimer # NoTimer /\ saveTimer.home = w

UsersTypes ==
  /\ home \in Homes /\ meant = [w \in Homes |-> meant[w]]
  /\ allYml = [w \in Homes |-> allYml[w]] /\ \A w \in Homes : IsFile(allYml[w]) /\ allYml[w].rest \in {w, NoOne}
  /\ saveTimer # NoTimer => saveTimer.home \in Homes /\ saveTimer.doc \in {saveTimer.home, NoOne}
  /\ \A p \in puts : IsPut(p)
  /\ \A g \in gets : IsGet(g) /\ (g.state = "read" => g.reply = allYml[g.home])

TabOK ==
  /\ ~onTab => saveTimer = NoTimer /\ gets = {} /\ enc = NoOne
  /\ detailKey # NoOne => ~loading
  /\ onTab /\ ~loading => docOf \in {home, NoOne}

\* At most one save is on its way; an edit made meanwhile differs from the file.
OnePut ==
  /\ \A p, q \in puts : p = q
  /\ saveTimer # NoTimer /\ puts # {} => localFp # remoteFp

\* What is meant: the rows that wait, else those that are sent, else the file.
MeantOK ==
  /\ saveTimer # NoTimer => meant[saveTimer.home] = Content(saveTimer)
  /\ \A p \in puts : p.state = "sent" /\ ~Waits(p.home) => meant[p.home] = Content(p)
  /\ \A p \in puts : p.state = "done" => allYml[p.home] = Content(p)
  /\ \A w \in Homes : ~Waits(w) /\ (\A p \in puts : p.home = w => p.state = "done") => meant[w] = allYml[w]

PendingOK ==
  /\ \A w \in Homes : Shows(w) =>
       /\ saveTimer # NoTimer => saveTimer.home = w
       /\ \A p \in puts : p.home = w /\ p.mounted
  /\ saveTimer # NoTimer => saveTimer.home \notin unseen
  /\ \A p \in puts : p.home \notin unseen

ShownOK ==
  \A w \in Homes : Shows(w) /\ w \notin unseen =>
    /\ YamlMap(rows) = InFile(meant[w]) /\ docOf = meant[w].rest
    /\ (\A p \in puts : p.state = "sent") => remoteFp = allYml[w].users

UsersOK == UsersTypes /\ TabOK /\ OnePut /\ MeantOK /\ PendingOK /\ ShownOK
UsersInv == Calm => UsersOK

LEMMA MapShape ==
  ASSUME NEW rs
  PROVE  YamlMap(rs) = [n \in UserNames |-> YamlMap(rs)[n]] /\ YamlMap(rs) # <<>>
  <1>1. YamlMap(rs) = [n \in UserNames |-> YamlMap(rs)[n]]
    BY DEF YamlMap
  <1>2. 1 \in UserNames /\ DOMAIN <<>> = {}
    BY UsersAssumption DEF UserNames
  <1>3. DOMAIN YamlMap(rs) = UserNames
    BY <1>1
  <1> QED
    BY <1>1, <1>2, <1>3

LEMMA WrittenShape ==
  ASSUME NEW rs, NEW doc
  PROVE  IsFile([users |-> YamlMap(rs), rest |-> doc]) /\ [users |-> YamlMap(rs), rest |-> doc] # NoFile
  BY MapShape DEF IsFile, NoFile

LEMMA InFileShape ==
  ASSUME NEW f, IsFile(f)
  PROVE  InFile(f) = [n \in UserNames |-> InFile(f)[n]]
  BY DEF InFile, IsFile

-----------------------------------------------------------------------------
\* An edit of the rows that are shown, made when nothing about them is unseen.
LEMMA EditKeeps ==
  ASSUME UsersOK, NEW next, ScheduleSave(next, home, docOf), Shows(home), home \notin unseen, ~adrift',
         meant' = [meant EXCEPT ![home] = Meaning(next, home)],
         UNCHANGED <<allYml, home, onTab, docOf, remoteFp, loading, puts, gets, unseen>>,
         enc' \in {enc, NoOne}, detailKey' # NoOne => ~loading
  PROVE  UsersOK'
  <1> DEFINE t == [rows |-> next, home |-> home, doc |-> docOf]
             c == [users |-> YamlMap(next), rest |-> docOf]
  <1>1. /\ home \in Homes /\ onTab /\ docOf \in {home, NoOne}
        /\ YamlMap(rows) = InFile(meant[home]) /\ docOf = meant[home].rest
        /\ saveTimer # NoTimer => saveTimer.home = home
        /\ \A p \in puts : p.home = home /\ p.mounted
    BY DEF UsersOK, UsersTypes, Shows, PendingOK, ShownOK
  <1>2. /\ t # NoTimer /\ t.rows = next /\ t.home = home /\ t.doc = docOf /\ Content(t) = c
    BY <1>1, UsersAssumption DEF NoTimer, Content
  <1>3. Meaning(next, home) = c
    <2>1. \A n \in UserNames : Meaning(next, home).users[n] = YamlMap(next)[n]
      BY <1>1 DEF Meaning
    <2> QED
      BY <1>1, <2>1, MapShape DEF Meaning
  <1>4. meant' = [meant EXCEPT ![home] = c] /\ meant'[home] = c /\ \A w \in Homes \ {home} : meant'[w] = meant[w]
    BY <1>1, <1>3 DEF UsersOK, UsersTypes
  <1> HIDE DEF t, c
  <1>5. c.users = YamlMap(next) /\ c.rest = docOf /\ c # NoFile /\ InFile(c) = YamlMap(next)
    BY WrittenShape DEF c, InFile
  <1>6. rows' = next /\ localFp' = YamlMap(next)
    BY DEF ScheduleSave
  <1>7. \/ YamlMap(next) # remoteFp /\ saveTimer' = t
        \/ YamlMap(next) = remoteFp /\ saveTimer' = NoTimer /\ saveTimer = NoTimer /\ puts = {}
    BY DEF ScheduleSave, t
  <1>8. YamlMap(next) = remoteFp => allYml[home] = c
    <2>1. CASE YamlMap(next) = remoteFp
      <3>1. remoteFp = allYml[home].users /\ meant[home] = allYml[home]
        BY <1>1, <1>7, <2>1 DEF UsersOK, ShownOK, MeantOK, Waits
      <3>2. allYml[home] # NoFile
        BY <2>1, <3>1, MapShape DEF NoFile
      <3>3. allYml[home] = [users |-> allYml[home].users, rest |-> allYml[home].rest]
        BY <1>1, <3>2 DEF UsersOK, UsersTypes, IsFile
      <3> QED
        BY <1>1, <2>1, <3>1, <3>3 DEF c
    <2> QED
      BY <2>1
  <1>9. UsersTypes' /\ TabOK'
    BY <1>1, <1>2, <1>4, <1>7 DEF UsersOK, UsersTypes, TabOK
  <1>10. OnePut'
    BY <1>6, <1>7 DEF UsersOK, OnePut
  <1>11. MeantOK'
    BY <1>1, <1>2, <1>4, <1>7, <1>8 DEF UsersOK, UsersTypes, MeantOK, Waits
  <1>12. PendingOK' /\ ShownOK'
    <2>1. \A w \in Homes : Shows(w)' => w = home
      BY <1>1, UsersAssumption DEF Shows
    <2>2. \A p \in puts : p.home \notin unseen
      BY DEF UsersOK, PendingOK
    <2>3. PendingOK'
      BY <1>1, <1>2, <1>7, <2>1, <2>2 DEF PendingOK
    <2>4. (\A p \in puts : p.state = "sent") => remoteFp = allYml[home].users
      BY <1>1 DEF UsersOK, ShownOK
    <2> QED
      BY <1>1, <1>4, <1>5, <1>6, <2>1, <2>3, <2>4 DEF ShownOK
  <1> QED
    BY <1>9, <1>10, <1>11, <1>12 DEF UsersOK

\* An answer that is shown when it says what the file holds and is meant to hold.
LEMMA ShowKeeps ==
  ASSUME UsersOK, NEW g \in gets, g.state = "read", g.home = home, ShowAnswer(g), gets' = gets \ {g},
         loading' \in {FALSE, loading}, UNCHANGED <<allYml, home, onTab, saveTimer, enc, puts, meant>>,
         meant[home] = allYml[home],
         saveTimer # NoTimer \/ puts # {} => ~loading /\ saveTimer = NoTimer /\ \A p \in puts : p.state = "done"
  PROVE  UsersOK'
  <1>1. /\ onTab /\ home \in Homes /\ g.reply = allYml[home] /\ IsFile(allYml[home])
        /\ allYml[home].rest \in {home, NoOne}
    BY DEF UsersOK, UsersTypes, TabOK
  <1>2. /\ rows' = RowsOf(InFile(allYml[home])) /\ docOf' = allYml[home].rest
        /\ remoteFp' = allYml[home].users /\ detailKey' \in {detailKey, NoOne} /\ unseen' = unseen \ {home}
    BY <1>1 DEF ShowAnswer
  <1>3. YamlMap(rows') = InFile(meant[home])
    BY <1>1, <1>2, InFileShape, RowsShown
  <1>4. \A w \in Homes : Shows(w)' => w = home
    BY <1>1, <1>2, UsersAssumption DEF Shows
  <1>5. UsersTypes'
    BY DEF UsersOK, UsersTypes
  <1>51. TabOK'
    <2>1. detailKey' # NoOne => ~loading
      BY <1>2 DEF UsersOK, TabOK
    <2>2. ~loading => ~loading'
      OBVIOUS
    <2> QED
      BY <1>1, <1>2, <2>1, <2>2 DEF TabOK
  <1>6. OnePut' /\ MeantOK'
    BY DEF UsersOK, OnePut, MeantOK, Waits
  <1>7. PendingOK'
    <2>1. saveTimer # NoTimer \/ puts # {} => Shows(home)
      BY <1>1 DEF UsersOK, TabOK, Shows
    <2> QED
      BY <1>1, <1>2, <1>4, <2>1 DEF UsersOK, PendingOK
  <1>8. ShownOK'
    BY <1>1, <1>2, <1>3, <1>4 DEF ShownOK
  <1> QED
    BY <1>5, <1>51, <1>6, <1>7, <1>8 DEF UsersOK

-----------------------------------------------------------------------------
LEMMA SaveStep ==
  ASSUME UsersOK, Calm', FireSave \/ \E p \in puts : PutApplied(p) \/ PutAnswered(p)
  PROVE  UsersOK'
  <1>1. CASE FireSave
    <2> DEFINE p == [rows |-> saveTimer.rows, home |-> saveTimer.home, doc |-> saveTimer.doc,
                     mounted |-> TRUE, state |-> "sent"]
    <2>1. /\ saveTimer # NoTimer /\ saveTimer' = NoTimer /\ puts = {} /\ puts' = {p}
          /\ UNCHANGED <<allYml, home, onTab, rows, docOf, remoteFp, localFp, loading, detailKey, enc, gets,
                         meant, unseen>>
      BY <1>1 DEF FireSave, Calm
    <2>2. IsPut(p) /\ p.home = saveTimer.home /\ p.state = "sent" /\ p.mounted /\ Content(p) = Content(saveTimer)
      BY <2>1 DEF UsersOK, UsersTypes, IsPut, Content
    <2> HIDE DEF p
    <2>3. UsersTypes' /\ TabOK' /\ OnePut'
      BY <2>1, <2>2 DEF UsersOK, UsersTypes, TabOK, OnePut
    <2>4. MeantOK'
      BY <2>1, <2>2 DEF UsersOK, MeantOK, Waits
    <2>5. PendingOK' /\ ShownOK'
      BY <2>1, <2>2 DEF UsersOK, PendingOK, ShownOK, Shows
    <2> QED
      BY <2>3, <2>4, <2>5 DEF UsersOK
  <1>2. ASSUME NEW p \in puts, PutApplied(p)
        PROVE  UsersOK'
    <2> DEFINE q == [p EXCEPT !.state = "done"]
               c == [users |-> YamlMap(p.rows), rest |-> p.doc]
    <2>1. /\ p.state = "sent" /\ puts' = (puts \ {p}) \cup {q}
          /\ allYml' = [allYml EXCEPT ![p.home] = c] /\ gets' = Stale(p.home, gets)
          /\ UNCHANGED <<home, onTab, panelState, enc, meant, unseen>>
      BY <1>2 DEF PutApplied, Calm
    <2>2. puts = {p} /\ puts' = {q}
      BY <2>1 DEF UsersOK, OnePut
    <2>3. /\ IsPut(p) /\ IsPut(q) /\ q.home = p.home /\ q.state = "done" /\ q.mounted = p.mounted
          /\ Content(p) = c /\ Content(q) = c
      BY DEF UsersOK, UsersTypes, IsPut, Content
    <2> HIDE DEF q
    <2>4. IsFile(c) /\ c.rest = p.doc
      BY WrittenShape DEF c
    <2> HIDE DEF c
    <2>5. /\ p.home \in Homes /\ allYml'[p.home] = c /\ \A w \in Homes \ {p.home} : allYml'[w] = allYml[w]
          /\ p.doc \in {p.home, NoOne}
      BY <2>1, <2>3 DEF IsPut, UsersOK, UsersTypes
    <2>6. UsersTypes'
      <3>1. ASSUME NEW g \in gets'
            PROVE  IsGet(g) /\ (g.state = "read" => g.reply = allYml'[g.home])
        <4>1. PICK h \in gets : g = IF h.home = p.home /\ h.state = "read" THEN [h EXCEPT !.state = "stale"] ELSE h
          BY <2>1, <3>1 DEF Stale
        <4>2. IsGet(h) /\ (h.state = "read" => h.reply = allYml[h.home])
          BY DEF UsersOK, UsersTypes
        <4>3. CASE h.home = p.home /\ h.state = "read"
          BY <4>1, <4>2, <4>3 DEF IsGet
        <4>4. CASE ~(h.home = p.home /\ h.state = "read")
          BY <2>5, <4>1, <4>2, <4>4 DEF IsGet
        <4> QED
          BY <4>3, <4>4
      <3>2. \A w \in Homes : IsFile(allYml'[w]) /\ allYml'[w].rest \in {w, NoOne}
        BY <2>4, <2>5 DEF UsersOK, UsersTypes
      <3> QED
        BY <2>1, <2>2, <2>3, <3>1, <3>2 DEF UsersOK, UsersTypes, panelState
    <2>7. TabOK'
      <3>1. gets = {} => gets' = {}
        BY <2>1 DEF Stale
      <3> QED
        BY <2>1, <3>1 DEF UsersOK, TabOK, panelState
    <2>8. OnePut'
      BY <2>1, <2>2 DEF UsersOK, OnePut, panelState
    <2>9. MeantOK'
      BY <2>1, <2>2, <2>3, <2>5 DEF UsersOK, UsersTypes, MeantOK, Waits, panelState
    <2>10. PendingOK' /\ ShownOK'
      BY <2>1, <2>2, <2>3 DEF UsersOK, PendingOK, ShownOK, Shows, panelState
    <2> QED
      BY <2>6, <2>7, <2>8, <2>9, <2>10 DEF UsersOK
  <1>3. ASSUME NEW p \in puts, PutAnswered(p)
        PROVE  UsersOK'
    <2>1. /\ p.state = "done" /\ puts = {p} /\ puts' = {}
          /\ UNCHANGED <<allYml, home, onTab, rows, docOf, saveTimer, loading, detailKey, enc, gets, meant, unseen>>
          /\ p.mounted => remoteFp' = YamlMap(p.rows)
          /\ ~p.mounted => remoteFp' = remoteFp
      <3>1. IsPut(p) /\ puts = {p}
        BY DEF UsersOK, UsersTypes, OnePut
      <3>2. p.state = "done"
        BY <1>3, <3>1 DEF PutAnswered, IsPut
      <3> QED
        BY <1>3, <3>1, <3>2 DEF PutAnswered
    <2>2. allYml[p.home].users = YamlMap(p.rows)
      BY <2>1 DEF UsersOK, MeantOK, Content
    <2>3. UsersTypes' /\ TabOK' /\ OnePut'
      BY <2>1 DEF UsersOK, UsersTypes, TabOK, OnePut
    <2>4. MeantOK' /\ PendingOK'
      BY <2>1 DEF UsersOK, MeantOK, Waits, PendingOK, Shows
    <2>5. ShownOK'
      BY <2>1, <2>2 DEF UsersOK, ShownOK, PendingOK, Shows
    <2> QED
      BY <2>3, <2>4, <2>5 DEF UsersOK
  <1> QED
    BY <1>1, <1>2, <1>3

LEMMA RequestStep ==
  ASSUME UsersOK, Calm',
         OpenUsersTab \/ LeaveUsersTab \/ Reload \/ PollTick \/ (\E w \in Homes : SwitchHome(w))
         \/ \E g \in gets : FileRead(g)
  PROVE  UsersOK'
  <1>0. home \in Homes
    BY DEF UsersOK, UsersTypes
  <1>1. CASE OpenUsersTab
    <2>1. /\ onTab' = TRUE /\ loading' = TRUE /\ docOf' = NoOne /\ detailKey' = NoOne /\ ~onTab
          /\ gets' = gets \cup {Get("load")}
          /\ UNCHANGED <<allYml, home, saveTimer, enc, puts, meant, unseen>>
      BY <1>1 DEF OpenUsersTab, Request
    <2>2. IsGet(Get("load")) /\ Get("load").state = "sent" /\ saveTimer = NoTimer
      BY <1>0, <2>1 DEF UsersOK, TabOK, IsGet, Get
    <2>3. \A w \in Homes : ~Shows(w)'
      BY <2>1, UsersAssumption DEF Shows
    <2> QED
      BY <2>1, <2>2, <2>3 DEF UsersOK, UsersTypes, TabOK, OnePut, MeantOK, Waits, PendingOK, ShownOK
  <1>2. CASE LeaveUsersTab
    <2>1. /\ onTab' = FALSE /\ saveTimer = NoTimer /\ saveTimer' = NoTimer /\ gets' = {} /\ enc' = NoOne
          /\ detailKey' = NoOne /\ puts' = {[p EXCEPT !.mounted = FALSE] : p \in puts}
          /\ UNCHANGED <<allYml, home, rows, docOf, remoteFp, localFp, loading, meant, unseen>>
      BY <1>2 DEF LeaveUsersTab, Calm
    <2>2. ASSUME NEW p \in puts, NEW q, q = [p EXCEPT !.mounted = FALSE]
          PROVE  IsPut(q) /\ q.home = p.home /\ q.state = p.state /\ Content(q) = Content(p)
      <3>1. IsPut(p)
        BY DEF UsersOK, UsersTypes
      <3>2. q = [rows |-> p.rows, home |-> p.home, doc |-> p.doc, mounted |-> FALSE, state |-> p.state]
        BY <2>2, <3>1 DEF IsPut
      <3> QED
        BY <3>1, <3>2 DEF IsPut, Content
    <2>3. /\ \A q \in puts' : IsPut(q)
          /\ \A q \in puts' : \E p \in puts : q.home = p.home /\ q.state = p.state /\ Content(q) = Content(p)
          /\ \A p \in puts : \E q \in puts' : q.home = p.home /\ q.state = p.state
          /\ \A p, q \in puts' : p = q
      BY <2>1, <2>2 DEF UsersOK, OnePut
    <2>4. \A w \in Homes : ~Shows(w)'
      BY <2>1 DEF Shows
    <2>5. UsersTypes' /\ TabOK' /\ OnePut'
      BY <2>1, <2>3 DEF UsersOK, UsersTypes, TabOK, OnePut
    <2>6. MeantOK'
      <3>1. \A q \in puts' : q.state = "sent" => meant[q.home] = Content(q)
        BY <2>1, <2>3 DEF UsersOK, MeantOK, Waits
      <3>2. ASSUME NEW q \in puts', q.state = "done"
            PROVE  allYml[q.home] = Content(q)
        <4>1. PICK p \in puts : q.home = p.home /\ q.state = p.state /\ Content(q) = Content(p)
          BY <2>3
        <4> QED
          BY <3>2, <4>1 DEF UsersOK, MeantOK
      <3>4. ASSUME NEW w \in Homes, \A q \in puts' : q.home = w => q.state = "done"
            PROVE  meant[w] = allYml[w]
        <4>1. \A p \in puts : p.home = w => p.state = "done"
          BY <2>3, <3>4
        <4>2. \A v \in Homes :
                (\A p \in puts : p.home = v => p.state = "done") /\ ~Waits(v) => meant[v] = allYml[v]
          BY <2>1 DEF UsersOK, MeantOK
        <4> QED
          BY <2>1, <4>1, <4>2 DEF Waits
      <3> QED
        BY <2>1, <3>1, <3>2, <3>4 DEF MeantOK, Waits
    <2>7. PendingOK' /\ ShownOK'
      BY <2>1, <2>3, <2>4 DEF UsersOK, PendingOK, ShownOK
    <2> QED
      BY <2>5, <2>6, <2>7 DEF UsersOK
  <1>3. CASE Reload \/ PollTick
    <2>1. \E kind \in {"load", "poll"} :
            /\ gets' = gets \cup {Get(kind)} /\ onTab /\ loading' \in {TRUE, loading}
            /\ loading' # loading => detailKey = NoOne
            /\ UNCHANGED <<allYml, home, onTab, rows, docOf, remoteFp, localFp, saveTimer, detailKey, enc, puts,
                           meant, unseen>>
      BY <1>3 DEF Reload, PollTick, Request, panelState
    <2>2. \A kind \in {"load", "poll"} : IsGet(Get(kind)) /\ Get(kind).state = "sent"
      BY <1>0 DEF IsGet, Get
    <2>3. \A w \in Homes : Shows(w)' => Shows(w)
      BY <2>1 DEF Shows
    <2>4. UsersTypes' /\ OnePut'
      BY <2>1, <2>2 DEF UsersOK, UsersTypes, OnePut
    <2>41. TabOK'
      <3>1. ~loading' => ~loading
        BY <2>1
      <3>2. detailKey' # NoOne => ~loading'
        BY <2>1 DEF UsersOK, TabOK
      <3> QED
        BY <2>1, <3>1, <3>2 DEF UsersOK, TabOK
    <2>5. MeantOK' /\ PendingOK' /\ ShownOK'
      BY <2>1, <2>3 DEF UsersOK, MeantOK, Waits, PendingOK, ShownOK
    <2> QED
      BY <2>4, <2>41, <2>5 DEF UsersOK
  <1>4. ASSUME NEW v \in Homes, SwitchHome(v)
        PROVE  UsersOK'
    <2> DEFINE new == [Get("load") EXCEPT !.home = v]
    <2>1. /\ home' = v /\ detailKey' = detailKey /\ detailKey = NoOne
          /\ onTab => gets' = gets \cup {new} /\ loading' = TRUE
          /\ ~onTab => gets' = gets /\ loading' = loading
          /\ UNCHANGED <<allYml, onTab, rows, docOf, remoteFp, localFp, saveTimer, enc, puts, meant, unseen>>
      BY <1>4 DEF SwitchHome
    <2>2. IsGet(new) /\ new.state = "sent"
      BY <1>0 DEF IsGet, Get
    <2> HIDE DEF new
    <2>3. \A w \in Homes : Shows(w)' => Shows(w)
      BY <2>1 DEF Shows
    <2>4. UsersTypes' /\ TabOK' /\ OnePut'
      BY <2>1, <2>2 DEF UsersOK, UsersTypes, TabOK, OnePut
    <2>5. MeantOK' /\ PendingOK' /\ ShownOK'
      BY <2>1, <2>3 DEF UsersOK, MeantOK, Waits, PendingOK, ShownOK
    <2> QED
      BY <2>4, <2>5 DEF UsersOK
  <1>5. ASSUME NEW g \in gets, FileRead(g)
        PROVE  UsersOK'
    <2>1. PICK r \in {[g EXCEPT !.state = "read", !.reply = allYml[g.home]], [g EXCEPT !.state = "failed"]} :
            /\ gets' = (gets \ {g}) \cup {r}
            /\ UNCHANGED <<allYml, home, onTab, panelState, enc, puts, meant, unseen>>
      BY <1>5 DEF FileRead
    <2>2. IsGet(r) /\ (r.state = "read" => r.reply = allYml[r.home])
      <3>1. IsGet(g)
        BY DEF UsersOK, UsersTypes
      <3>2. \/ r = [kind |-> g.kind, home |-> g.home, state |-> "read", reply |-> allYml[g.home]]
            \/ r = [kind |-> g.kind, home |-> g.home, state |-> "failed", reply |-> g.reply]
        <4>1. CASE r = [g EXCEPT !.state = "read", !.reply = allYml[g.home]]
          BY <3>1, <4>1 DEF IsGet
        <4>2. CASE r = [g EXCEPT !.state = "failed"]
          BY <3>1, <4>2 DEF IsGet
        <4> QED
          BY <4>1, <4>2
      <3> QED
        BY <3>1, <3>2 DEF IsGet
    <2>3. UsersTypes' /\ TabOK' /\ OnePut'
      BY <2>1, <2>2 DEF UsersOK, UsersTypes, TabOK, OnePut, panelState
    <2>4. MeantOK' /\ PendingOK' /\ ShownOK'
      BY <2>1 DEF UsersOK, MeantOK, Waits, PendingOK, ShownOK, Shows, panelState
    <2> QED
      BY <2>3, <2>4 DEF UsersOK
  <1> QED
    BY <1>1, <1>2, <1>3, <1>4, <1>5

\* What waits or runs is a save of the rows that are shown: a poll that shows
\* other rows has found them saved.
LEMMA AnswerStep ==
  ASSUME UsersOK, Calm', NEW g \in gets, LoadAnswered(g) \/ PollAnswered(g)
  PROVE  UsersOK'
  <1>0. IsGet(g) /\ (g.state = "read" => g.reply = allYml[g.home]) /\ onTab /\ home \in Homes
    BY DEF UsersOK, UsersTypes, TabOK
  <1>1. CASE LoadAnswered(g) /\ g.state = "failed"
    <2>1. /\ gets' = gets \ {g} /\ loading' = FALSE /\ docOf = home
          /\ UNCHANGED <<allYml, home, onTab, rows, docOf, remoteFp, localFp, saveTimer, detailKey, enc, puts,
                         meant, unseen>>
      BY <1>1 DEF LoadAnswered, Calm
    <2>2. \A w \in Homes : Shows(w)' => Shows(w)
      BY <1>0, <2>1, UsersAssumption DEF Shows
    <2> QED
      BY <1>0, <2>1, <2>2 DEF UsersOK, UsersTypes, TabOK, OnePut, MeantOK, Waits, PendingOK, ShownOK
  <1>2. CASE LoadAnswered(g) /\ g.state # "failed"
    <2>1. /\ ShowAnswer(g) /\ gets' = gets \ {g} /\ loading' = FALSE /\ g.state = "read" /\ g.home = home
          /\ saveTimer = NoTimer /\ puts = {}
          /\ UNCHANGED <<allYml, home, onTab, saveTimer, enc, puts, meant>>
      BY <1>0, <1>2 DEF LoadAnswered, ShowAnswer, IsGet, Calm
    <2>2. meant[home] = allYml[home]
      BY <1>0, <2>1 DEF UsersOK, MeantOK, Waits
    <2> QED
      BY <2>1, <2>2, ShowKeeps
  <1>3. CASE PollAnswered(g) /\ (g.state = "failed" \/ g.reply = NoFile \/ InFile(g.reply) = remoteFp \/ localFp # remoteFp)
    <2>1. /\ gets' = gets \ {g}
          /\ UNCHANGED <<allYml, home, onTab, rows, docOf, remoteFp, localFp, saveTimer, loading, detailKey, enc, puts,
                         meant, unseen>>
      BY <1>3 DEF PollAnswered
    <2> QED
      BY <1>0, <2>1 DEF UsersOK, UsersTypes, TabOK, OnePut, MeantOK, Waits, PendingOK, ShownOK, Shows
  <1>4. CASE PollAnswered(g) /\ ~(g.state = "failed" \/ g.reply = NoFile \/ InFile(g.reply) = remoteFp \/ localFp # remoteFp)
    <2>1. /\ ShowAnswer(g) /\ gets' = gets \ {g} /\ loading' = loading /\ g.state = "read" /\ g.home = home
          /\ saveTimer # NoTimer \/ puts # {} => ~loading
          /\ UNCHANGED <<allYml, home, onTab, saveTimer, enc, puts, meant>>
      BY <1>0, <1>4 DEF PollAnswered, ShowAnswer, IsGet, Calm
    <2>2. allYml[home].users # remoteFp /\ localFp = remoteFp
      BY <1>0, <1>4, <2>1 DEF InFile
    <2>3. saveTimer # NoTimer \/ puts # {} =>
            Shows(home) /\ home \notin unseen /\ (saveTimer # NoTimer => saveTimer.home = home) /\ \A p \in puts : p.home = home
      BY <1>0, <2>1 DEF UsersOK, TabOK, Shows, PendingOK
    <2>4. saveTimer # NoTimer \/ puts # {} => ~(\A p \in puts : p.state = "sent")
      BY <1>0, <2>2, <2>3 DEF UsersOK, ShownOK
    <2>5. saveTimer # NoTimer \/ puts # {} => saveTimer = NoTimer /\ \A p \in puts : p.state = "done"
      BY <2>2, <2>4 DEF UsersOK, UsersTypes, OnePut, IsPut
    <2>6. meant[home] = allYml[home]
      BY <1>0, <2>5 DEF UsersOK, MeantOK, Waits
    <2> QED
      BY <2>1, <2>5, <2>6, ShowKeeps
  <1> QED
    BY <1>1, <1>2, <1>3, <1>4

-----------------------------------------------------------------------------
LEMMA TableEdit ==
  ASSUME UsersOK, Calm', NEW next, Edit(next), onTab, ~loading \/ docOf = home,
         detailKey' # NoOne => ~loading
  PROVE  UsersOK'
  <1>1. Shows(home)
    BY DEF UsersOK, TabOK, Shows
  <1>2. /\ ScheduleSave(next, home, docOf) /\ home \notin unseen /\ ~adrift'
        /\ meant' = [meant EXCEPT ![home] = Meaning(next, home)]
        /\ UNCHANGED <<allYml, home, onTab, docOf, remoteFp, loading, puts, gets, unseen, enc>>
    BY DEF Edit, Calm
  <1> QED
    BY <1>1, <1>2, EditKeeps

LEMMA EditStep ==
  ASSUME UsersOK, Calm',
         \/ \E n \in UserNames : CreateUser(n)
         \/ \E i \in DOMAIN rows : ChangeInTable(i) \/ ChangeInDialog(i) \/ RemoveUser(i)
         \/ \E i \in DOMAIN rows, n \in UserNames :
              RenameInDialog(i, n) \/ \E beside \in SUBSET DOMAIN rows : RenameInTable(i, n, beside)
         \/ \E us : ImportFile(us)
  PROVE  UsersOK'
  <1>0. detailKey # NoOne => ~loading
    BY DEF UsersOK, TabOK
  <1>1. ASSUME NEW n \in UserNames, CreateUser(n)
        PROVE  UsersOK'
    BY <1>0, <1>1, TableEdit DEF CreateUser, InTable, Free
  <1>2. ASSUME NEW i \in DOMAIN rows, ChangeInTable(i)
        PROVE  UsersOK'
    BY <1>0, <1>2, TableEdit DEF ChangeInTable, ChangeField, InTable, Free
  <1>3. ASSUME NEW i \in DOMAIN rows, ChangeInDialog(i)
        PROVE  UsersOK'
    BY <1>0, <1>3, TableEdit DEF ChangeInDialog, ChangeField, InDialog, Free
  <1>4. ASSUME NEW i \in DOMAIN rows, RemoveUser(i)
        PROVE  UsersOK'
    BY <1>0, <1>4, TableEdit DEF RemoveUser, InTable, Free
  <1>5. ASSUME NEW i \in DOMAIN rows, NEW n \in UserNames, RenameInDialog(i, n)
        PROVE  UsersOK'
    BY <1>0, <1>5, TableEdit DEF RenameInDialog, InDialog, Free
  <1>6. ASSUME NEW i \in DOMAIN rows, NEW n \in UserNames, NEW beside \in SUBSET DOMAIN rows,
               RenameInTable(i, n, beside)
        PROVE  UsersOK'
    BY <1>0, <1>6, TableEdit DEF RenameInTable, InTable, Free
  <1>7. ASSUME NEW us, ImportFile(us)
        PROVE  UsersOK'
    <2>1. docOf = home
      BY <1>7 DEF ImportFile, Calm
    <2> QED
      BY <1>0, <1>7, <2>1, TableEdit DEF ImportFile, Free
  <1> QED
    BY <1>1, <1>2, <1>3, <1>4, <1>5, <1>6, <1>7

LEMMA PasswordStep ==
  ASSUME UsersOK, Calm', (\E i \in DOMAIN rows : OpenDetail(i) \/ EncryptPassword(i)) \/ CloseDetail
                          \/ PasswordEncrypted \/ EncryptFailed
  PROVE  UsersOK'
  <1>1. CASE PasswordEncrypted
    <2> DEFINE next == Patched(enc.name, LAMBDA r : [r EXCEPT !.val = 1])
    <2>1. /\ enc # NoOne /\ enc.home = home /\ enc.doc = docOf /\ ~loading /\ enc' = NoOne
          /\ ScheduleSave(next, home, docOf) /\ home \notin unseen /\ ~adrift'
          /\ meant' = [meant EXCEPT ![home] = Meaning(next, home)]
          /\ UNCHANGED <<allYml, home, onTab, docOf, remoteFp, loading, detailKey, puts, gets, unseen>>
      BY <1>1 DEF PasswordEncrypted, Calm
    <2> HIDE DEF next
    <2>2. Shows(home)
      BY <2>1 DEF UsersOK, TabOK, Shows
    <2> QED
      BY <2>1, <2>2, EditKeeps
  <1>2. CASE (\E i \in DOMAIN rows : OpenDetail(i) \/ EncryptPassword(i)) \/ CloseDetail \/ EncryptFailed
    <2>1. /\ UNCHANGED <<allYml, home, onTab, rows, docOf, remoteFp, localFp, saveTimer, loading, puts, gets,
                         meant, unseen>>
          /\ detailKey' # NoOne => ~loading
          /\ ~onTab => enc' = NoOne
      BY <1>2 DEF OpenDetail, EncryptPassword, CloseDetail, EncryptFailed, InTable, InDialog, Free, panelState, UsersOK, TabOK
    <2> QED
      BY <2>1 DEF UsersOK, UsersTypes, TabOK, OnePut, MeantOK, Waits, PendingOK, ShownOK, Shows
  <1> QED
    BY <1>1, <1>2

LEMMA OthersStep ==
  ASSUME UsersOK, Calm', NEW v \in Homes, WrittenByOthers(v)
  PROVE  UsersOK'
  <1>1. PICK f : /\ f = NoFile \/ \E x : f = [users |-> [InFile(allYml[v]) EXCEPT ![1] = x], rest |-> v]
                 /\ allYml' = [allYml EXCEPT ![v] = f] /\ meant' = [meant EXCEPT ![v] = f]
    BY DEF WrittenByOthers
  <1>2. /\ saveTimer = NoTimer /\ puts = {} /\ gets' = Stale(v, gets) /\ unseen' = unseen \cup {v}
        /\ UNCHANGED <<home, onTab, panelState, enc, puts>>
    BY DEF WrittenByOthers, Calm
  <1>3. IsFile(f) /\ f.rest \in {v, NoOne}
    <2>1. CASE f = NoFile
      BY <2>1 DEF IsFile, NoFile
    <2>2. ASSUME NEW x, f = [users |-> [InFile(allYml[v]) EXCEPT ![1] = x], rest |-> v]
          PROVE  IsFile(f) /\ f.rest = v
      <3>1. InFile(allYml[v]) = [n \in UserNames |-> InFile(allYml[v])[n]]
        BY InFileShape DEF UsersOK, UsersTypes
      <3>2. [InFile(allYml[v]) EXCEPT ![1] = x] = [n \in UserNames |-> [InFile(allYml[v]) EXCEPT ![1] = x][n]]
        BY <3>1
      <3> QED
        BY <2>2, <3>2 DEF IsFile
    <2> QED
      BY <1>1, <2>1, <2>2
  <1>4. meant = allYml
    BY <1>2 DEF UsersOK, UsersTypes, MeantOK, Waits
  <1>5. allYml'[v] = f /\ meant' = allYml' /\ \A w \in Homes \ {v} : allYml'[w] = allYml[w]
    BY <1>1, <1>4 DEF UsersOK, UsersTypes
  <1>6. UsersTypes'
    <2>1. ASSUME NEW g \in gets'
          PROVE  IsGet(g) /\ (g.state = "read" => g.reply = allYml'[g.home])
      <3>1. PICK h \in gets : g = IF h.home = v /\ h.state = "read" THEN [h EXCEPT !.state = "stale"] ELSE h
        BY <1>2, <2>1 DEF Stale
      <3>2. IsGet(h) /\ (h.state = "read" => h.reply = allYml[h.home])
        BY DEF UsersOK, UsersTypes
      <3>3. CASE h.home = v /\ h.state = "read"
        BY <3>1, <3>2, <3>3 DEF IsGet
      <3>4. CASE ~(h.home = v /\ h.state = "read")
        BY <1>5, <3>1, <3>2, <3>4 DEF IsGet
      <3> QED
        BY <3>3, <3>4
    <2>2. \A w \in Homes : IsFile(allYml'[w]) /\ allYml'[w].rest \in {w, NoOne}
      BY <1>3, <1>5 DEF UsersOK, UsersTypes
    <2> QED
      BY <1>1, <1>2, <2>1, <2>2 DEF UsersOK, UsersTypes, panelState
  <1>7. TabOK'
    <2>1. gets = {} => gets' = {}
      BY <1>2 DEF Stale
    <2> QED
      BY <1>2, <2>1 DEF UsersOK, TabOK, panelState
  <1>8. OnePut' /\ MeantOK' /\ PendingOK'
    BY <1>2, <1>5 DEF OnePut, MeantOK, PendingOK, panelState
  <1>9. ShownOK'
    BY <1>2, <1>4, <1>5 DEF UsersOK, ShownOK, Shows, panelState
  <1> QED
    BY <1>6, <1>7, <1>8, <1>9 DEF UsersOK

-----------------------------------------------------------------------------
LEMMA UsersInitially == UsersInit => UsersInv
  <1> SUFFICES ASSUME UsersInit
               PROVE  UsersOK
    BY DEF UsersInv
  <1>1. home \in Homes /\ ~onTab /\ gets = {} /\ puts = {} /\ saveTimer = NoTimer /\ meant = allYml
    BY UsersAssumption DEF UsersInit
  <1>2. allYml \in [Homes -> {NoFile} \cup FirstFiles] /\ \A w \in Homes : allYml[w] # NoFile => allYml[w].rest = w
    BY DEF UsersInit
  <1>3. \A f \in FirstFiles : IsFile(f)
    BY DEF FirstFiles, IsFile
  <1>4. \A w \in Homes : IsFile(allYml[w]) /\ allYml[w].rest \in {w, NoOne}
    BY <1>2, <1>3 DEF IsFile, NoFile
  <1>5. UsersTypes /\ TabOK /\ OnePut /\ MeantOK /\ PendingOK /\ ShownOK
    BY <1>1, <1>2, <1>4 DEF UsersInit, UsersTypes, TabOK, OnePut, MeantOK, PendingOK, ShownOK, Shows
  <1> QED
    BY <1>5 DEF UsersOK

\* Excuses are never taken back.
LEMMA StaysExcused ==
  ASSUME UsersNext, Calm'
  PROVE  Calm
  <1>1. CASE FireSave \/ OpenUsersTab \/ LeaveUsersTab \/ Reload \/ PollTick \/ CloseDetail \/ PasswordEncrypted \/ EncryptFailed
    <2>1. CASE FireSave
      BY <2>1 DEF FireSave, Calm
    <2>2. CASE OpenUsersTab
      BY <2>2 DEF OpenUsersTab, Calm
    <2>3. CASE LeaveUsersTab
      BY <2>3 DEF LeaveUsersTab, Calm
    <2>4. CASE Reload \/ PollTick \/ CloseDetail \/ EncryptFailed
      BY <2>4 DEF Reload, PollTick, CloseDetail, EncryptFailed, Calm
    <2>5. CASE PasswordEncrypted
      BY <2>5 DEF PasswordEncrypted, Calm
    <2> QED
      BY <1>1, <2>1, <2>2, <2>3, <2>4, <2>5
  <1>2. ASSUME NEW p \in puts, PutApplied(p) \/ PutAnswered(p)
        PROVE  Calm
    <2>1. CASE PutApplied(p)
      BY <2>1 DEF PutApplied, Calm
    <2>2. CASE PutAnswered(p)
      BY <2>2 DEF PutAnswered, Calm
    <2> QED
      BY <1>2, <2>1, <2>2
  <1>3. ASSUME NEW g \in gets, FileRead(g) \/ LoadAnswered(g) \/ PollAnswered(g)
        PROVE  Calm
    <2>1. CASE FileRead(g)
      BY <2>1 DEF FileRead, Calm
    <2>2. CASE LoadAnswered(g)
      BY <2>2 DEF LoadAnswered, ShowAnswer, Calm
    <2>3. CASE PollAnswered(g)
      BY <2>3 DEF PollAnswered, ShowAnswer, Calm
    <2> QED
      BY <1>3, <2>1, <2>2, <2>3
  <1>4. ASSUME NEW w \in Homes, SwitchHome(w) \/ WrittenByOthers(w)
        PROVE  Calm
    <2>1. CASE SwitchHome(w)
      BY <2>1 DEF SwitchHome, Calm
    <2>2. CASE WrittenByOthers(w)
      BY <2>2 DEF WrittenByOthers, Calm
    <2> QED
      BY <1>4, <2>1, <2>2
  <1>5. ASSUME NEW next, Edit(next), strayed' = strayed \/ strayed' = (strayed \/ docOf # home)
        PROVE  Calm
    <2>1. lossy' = (lossy \/ adrift' \/ Twins(next) \/ home \in unseen)
      BY <1>5 DEF Edit
    <2>2. ~lossy
      BY <2>1 DEF Calm
    <2>3. CASE strayed' = strayed
      BY <2>2, <2>3 DEF Calm
    <2>4. CASE strayed' = (strayed \/ docOf # home)
      BY <2>2, <2>4 DEF Calm
    <2> QED
      BY <1>5, <2>3, <2>4
  <1>6. ASSUME UNCHANGED strayed, NEW n \in UserNames, CreateUser(n)
        PROVE  Calm
    BY <1>5, <1>6 DEF CreateUser
  <1>7. ASSUME UNCHANGED strayed, NEW i \in DOMAIN rows,
               \/ ChangeInTable(i) \/ ChangeInDialog(i) \/ RemoveUser(i)
               \/ \E n \in UserNames : RenameInDialog(i, n) \/ \E beside \in SUBSET DOMAIN rows : RenameInTable(i, n, beside)
        PROVE  Calm
    BY <1>5, <1>7 DEF ChangeInTable, ChangeInDialog, ChangeField, RemoveUser, RenameInDialog, RenameInTable
  <1>8. ASSUME UNCHANGED strayed, NEW i \in DOMAIN rows, OpenDetail(i) \/ EncryptPassword(i)
        PROVE  Calm
    BY <1>8 DEF OpenDetail, EncryptPassword, Calm
  <1>9. ASSUME NEW us, ImportFile(us)
        PROVE  Calm
    BY <1>5, <1>9 DEF ImportFile
  <1> QED
    BY <1>1, <1>2, <1>3, <1>4, <1>6, <1>7, <1>8, <1>9 DEF UsersNext

LEMMA UsersStep == UsersInv /\ [UsersNext]_usersVars => UsersInv'
  <1> SUFFICES ASSUME UsersInv, [UsersNext]_usersVars, Calm'
               PROVE  UsersOK'
    BY DEF UsersInv
  <1>1. CASE UNCHANGED usersVars
    BY <1>1 DEF usersVars, panelState, UsersInv, Calm, UsersOK, UsersTypes, TabOK, OnePut, MeantOK, Waits,
       PendingOK, ShownOK, Shows
  <1>2. CASE UsersNext
    <2>1. UsersOK
      BY <1>2, StaysExcused DEF UsersInv
    <2>2. CASE FireSave \/ \E p \in puts : PutApplied(p) \/ PutAnswered(p)
      BY <2>1, <2>2, SaveStep
    <2>3. CASE \/ OpenUsersTab \/ LeaveUsersTab \/ Reload \/ PollTick \/ (\E w \in Homes : SwitchHome(w))
               \/ \E g \in gets : FileRead(g)
      BY <2>1, <2>3, RequestStep
    <2>4. CASE \E g \in gets : LoadAnswered(g) \/ PollAnswered(g)
      BY <2>1, <2>4, AnswerStep
    <2>5. CASE \/ \E n \in UserNames : CreateUser(n)
               \/ \E i \in DOMAIN rows : ChangeInTable(i) \/ ChangeInDialog(i) \/ RemoveUser(i)
               \/ \E i \in DOMAIN rows, n \in UserNames :
                    RenameInDialog(i, n) \/ \E beside \in SUBSET DOMAIN rows : RenameInTable(i, n, beside)
               \/ ImportFile([n \in UserNames |-> IF n = 1 THEN 1 ELSE Gone])
      BY <2>1, <2>5, EditStep
    <2>6. CASE (\E i \in DOMAIN rows : OpenDetail(i) \/ EncryptPassword(i)) \/ CloseDetail \/ PasswordEncrypted \/ EncryptFailed
      BY <2>1, <2>6, PasswordStep
    <2>7. CASE \E w \in Homes : WrittenByOthers(w)
      BY <2>1, <2>7, OthersStep
    <2> QED
      BY <1>2, <2>2, <2>3, <2>4, <2>5, <2>6, <2>7 DEF UsersNext
  <1> QED
    BY <1>1, <1>2

(***************************************************************************)
(* Autosave (scheduleSave, writeYaml, the poll): once no save waits or     *)
(* runs, every group_vars/all.yml holds what its users were last given,    *)
(* for any number of workspaces, users, edits and requests.                *)
(***************************************************************************)
THEOREM EveryEditReachesItsFile == UsersSpec => []EditsReachFile
  <1>1. UsersInv => EditsReachFile
    BY DEF UsersInv, Calm, UsersOK, UsersTypes, MeantOK, Waits, EditsReachFile, NothingToSave
  <1>2. UsersSpec => []UsersInv
    BY UsersInitially, UsersStep, PTL DEF UsersSpec
  <1> QED
    BY <1>1, <1>2, PTL

-----------------------------------------------------------------------------
(***************************************************************************)
(* The dialog of a device.                                                 *)
(***************************************************************************)
DetailsTypes ==
  /\ devices \in [Names -> Device \cup {NoDevice}]
  /\ hostVars \in [Names -> HostVars \cup {NoHostVars}] /\ DOMAIN meantConn = Names /\ DOMAIN keyFile = Names /\ DOMAIN passphrases = Names
  /\ detailActionBusy \in BOOLEAN /\ keysMade \in Nat
  /\ focus # NoFocus => focus.name \in Present
  /\ \A s \in saves : s = [name |-> s.name, conn |-> s.conn, state |-> s.state, last |-> s.last] /\ s.last \in BOOLEAN /\ s.conn \in Conns
  /\ \A l \in looks : l = [name |-> l.name, look |-> l.look, state |-> l.state, conn |-> l.conn]
                   /\ l.look \in BOOLEAN /\ l.conn \in Conns /\ l.name \in Names
  /\ \A k \in keygens : k = [name |-> k.name, key |-> k.key, state |-> k.state] /\ k.key \in Keys /\ k.name \in Names
  /\ \A r \in moves : r.from \in Names
  /\ hydration # NoName => hydration.read \in [Names -> HostVars \cup {NoHostVars}]
  /\ \A m, n \in Present : m = n  \* bound of the model: one device

\* A save that was not replaced by a later one of the same device.
Live(s) == s.state = "timer" => s.last

SavesOK(n) == \A s \in Of(n, saves) :
  /\ s.conn # 0 /\ s.state \in {"timer", "sent", "applied"}
  /\ Live(s) /\ focus.name # n => s.conn = meantConn[n]
  /\ s.state = "applied" => hostVars[n].conn = s.conn
  /\ \A t \in Of(n, saves) : Live(s) /\ Live(t) => s.conn = t.conn
MovesOK(n) == \A r \in moves :
  /\ r.to = n /\ r.from # n /\ Of(r.from, saves) = {} /\ Of(r.from, looks) = {}
  /\ \A q \in moves : r = q
HydrationOK(n) == hydration # NoName =>
  /\ focus.name # n /\ Of(n, saves) = {}
  /\ hydration.read[n] # NoHostVars => hydration.read[n].conn = meantConn[n]
LooksOK(n) == \A l \in Of(n, looks) :
  Of(n, saves) = {} /\ moves = {} /\ (l.state = "read" => l.conn = hostVars[n].conn)
\* The file holds what was typed last, or the file that a rename still moves.
FileOK(n) == focus.name # n /\ (\A s \in Of(n, saves) : s.state = "applied" \/ ~Live(s)) =>
  \/ (moves = {} \/ hostVars[n] # NoHostVars) /\ hostVars[n].conn = meantConn[n]
  \/ \E r \in moves : hostVars[n] = NoHostVars /\ hostVars[r.from].conn = meantConn[n]
ConnOK(n) ==
  /\ devices[n].conn = meantConn[n] /\ (focus.name = n => meantConn[n] # 0)
  /\ SavesOK(n) /\ MovesOK(n) /\ HydrationOK(n) /\ LooksOK(n) /\ FileOK(n)

KeyOK(n) ==
  /\ \A k \in Of(n, keygens) :
       /\ devices[n].key \notin Keys /\ n \notin phrases /\ (detailAlias = n => detailActionBusy = TRUE)
       /\ k.state = "made" => keyFile[n] = k.key /\ passphrases[n] = k.key
       /\ \A j \in Of(n, keygens) : j = k
  /\ n \in phrases => devices[n].phrase = Own
  /\ devices[n].key \in Keys => keyFile[n] = devices[n].key /\ (n \notin phrases => passphrases[n] = devices[n].phrase)

DetailsInv ==
  /\ DetailsTypes
  /\ \A n \in Present \ loose : ConnOK(n)
  /\ \A n \in Present \ tangled : KeyOK(n)

-----------------------------------------------------------------------------
(* What the parts of the invariant say of the device there is.               *)
LEMMA NotAKey == NoName \notin Keys /\ Own \notin Keys
  BY DetailsAssumption DEF Keys, Own

LEMMA ADevice ==
  ASSUME DetailsTypes, NEW n \in Present
  PROVE  /\ n \in Names /\ devices[n] \in Device /\ n # NoName
         /\ devices[n] = [conn |-> devices[n].conn, look |-> devices[n].look, method |-> devices[n].method,
                          key |-> devices[n].key, phrase |-> devices[n].phrase]
  BY DetailsAssumption DEF DetailsTypes, Present, Device

\* A step that leaves the connection of the device and what is on its way to it alone.
ConnSame(n) ==
  /\ devices'[n].conn = devices[n].conn /\ hostVars' = hostVars
  /\ saves' = saves /\ looks' = looks /\ moves' = moves /\ hydration' = hydration
  /\ meantConn' = meantConn /\ loose \subseteq loose'
  /\ focus' = focus

LEMMA ConnStays ==
  ASSUME NEW n, ConnOK(n), ConnSame(n)
  PROVE  ConnOK(n)'
  BY DEF ConnOK, ConnSame, SavesOK, MovesOK, HydrationOK, LooksOK, FileOK, Of, Live

\* A step that leaves the key of the device and its passphrase alone.
KeySame(n) ==
  /\ devices'[n].key = devices[n].key /\ devices'[n].phrase = devices[n].phrase
  /\ keyFile' = keyFile /\ passphrases' = passphrases /\ keygens' = keygens /\ phrases' = phrases
  /\ tangled' = tangled
  /\ (detailAlias' = detailAlias /\ detailActionBusy' = detailActionBusy) \/ detailAlias' # n

LEMMA KeyStays ==
  ASSUME NEW n, KeyOK(n), KeySame(n)
  PROVE  KeyOK(n)'
  BY DEF KeyOK, KeySame, Of

\* What is patched is a device still.
LEMMA DevicePatched ==
  ASSUME DetailsTypes, NEW n \in Present, NEW d \in Device, devices' = [devices EXCEPT ![n] = d]
  PROVE  /\ devices' \in [Names -> Device \cup {NoDevice}] /\ Present' = Present /\ devices'[n] = d
  <1>1. n \in Names /\ d # NoDevice
    BY DEF Present, Device, NoDevice
  <1>2. devices' \in [Names -> Device \cup {NoDevice}] /\ devices'[n] = d /\ \A m \in Names : m # n => devices'[m] = devices[m]
    BY <1>1 DEF DetailsTypes
  <1>3. \A m \in Names : devices'[m] # NoDevice <=> devices[m] # NoDevice
    BY <1>1, <1>2 DEF Present
  <1> QED
    BY <1>2, <1>3 DEF Present

-----------------------------------------------------------------------------
LEMMA DetailsInitially == DetailsInit => DetailsInv
  <1> SUFFICES ASSUME DetailsInit PROVE DetailsInv
    OBVIOUS
  <1>1. PICK n \in Names, c \in {0, 1} :
          /\ devices = [m \in Names |-> IF m = n THEN NewDevice(c) ELSE NoDevice]
          /\ hostVars = [m \in Names |-> IF m = n /\ c = 1 THEN [conn |-> c, look |-> FALSE] ELSE NoHostVars]
          /\ meantConn = [m \in Names |-> IF m = n THEN c ELSE 0]
    BY DEF DetailsInit
  <1>2. NewDevice(c) = [conn |-> c, look |-> FALSE, method |-> "password", key |-> NoName, phrase |-> NoName]
    BY DEF NewDevice
  <1>3. c \in Conns
    BY DetailsAssumption DEF Conns
  <1>4. NewDevice(c) \in Device /\ NewDevice(c) # NoDevice
    BY <1>2, <1>3 DEF Device, NoDevice
  <1>5. devices \in [Names -> Device \cup {NoDevice}] /\ Present = {n}
    BY <1>1, <1>4 DEF Present
  <1>6. DetailsTypes
    <2>1. hostVars \in [Names -> HostVars \cup {NoHostVars}]
      BY <1>1, <1>3 DEF HostVars
    <2> QED
      BY <1>1, <1>5, <2>1 DEF DetailsTypes, DetailsInit
  <1>7. ConnOK(n)
    <2>1. devices[n].conn = c /\ meantConn[n] = c /\ hostVars[n].conn = c
      BY <1>1, <1>2 DEF NoHostVars
    <2>2. focus.name # n
      BY DetailsAssumption DEF DetailsInit, NoFocus
    <2> QED
      BY <2>1, <2>2 DEF DetailsInit, ConnOK, SavesOK, MovesOK, HydrationOK, LooksOK, FileOK, Of
  <1>8. KeyOK(n)
    BY <1>1, <1>2, NotAKey DEF DetailsInit, KeyOK, Of
  <1> QED
    BY <1>5, <1>6, <1>7, <1>8 DEF DetailsInv

\* What a step does to the fields of the device.
Keep(n, conn, key, phrase) ==
  /\ devices' \in [Names -> Device \cup {NoDevice}] /\ Present' = Present
  /\ devices'[n].conn = conn /\ devices'[n].key = key /\ devices'[n].phrase = phrase

LEMMA DeviceSet ==
  ASSUME DetailsTypes, NEW n \in Present, NEW d, NEW conn \in Conns, NEW look \in BOOLEAN,
         NEW method \in {"password", "private_key"}, NEW key \in Keys \cup {Own, NoName},
         NEW phrase \in Keys \cup {Own, NoName},
         d = [conn |-> conn, look |-> look, method |-> method, key |-> key, phrase |-> phrase],
         devices' = [devices EXCEPT ![n] = d]
  PROVE  Keep(n, conn, key, phrase)
  <1>1. d \in Device
    BY DEF Device
  <1>2. devices' \in [Names -> Device \cup {NoDevice}] /\ Present' = Present /\ devices'[n] = d
    BY <1>1, DevicePatched
  <1> QED
    BY <1>2 DEF Keep

LEMMA Fields ==
  ASSUME DetailsTypes, NEW n \in Present
  PROVE  \E conn \in Conns, look \in BOOLEAN, method \in {"password", "private_key"},
            key \in Keys \cup {Own, NoName}, phrase \in Keys \cup {Own, NoName}, d \in {devices[n]} :
           /\ d = devices[n] /\ conn = d.conn /\ look = d.look /\ method = d.method /\ key = d.key /\ phrase = d.phrase
           /\ d = [conn |-> conn, look |-> look, method |-> method, key |-> key, phrase |-> phrase]
  <1>1. /\ devices[n].conn \in Conns /\ devices[n].look \in BOOLEAN /\ devices[n].method \in {"password", "private_key"}
        /\ devices[n].key \in Keys \cup {Own, NoName} /\ devices[n].phrase \in Keys \cup {Own, NoName}
    BY ADevice DEF Device
  <1>2. PICK conn \in Conns : conn = devices[n].conn
    BY <1>1
  <1>3. PICK look \in BOOLEAN : look = devices[n].look
    BY <1>1
  <1>4. PICK method \in {"password", "private_key"} : method = devices[n].method
    BY <1>1
  <1>5. PICK key \in Keys \cup {Own, NoName} : key = devices[n].key
    BY <1>1
  <1>6. PICK phrase \in Keys \cup {Own, NoName} : phrase = devices[n].phrase
    BY <1>1
  <1>7. PICK d \in {devices[n]} : d = devices[n]
    OBVIOUS
  <1>8. d = [conn |-> conn, look |-> look, method |-> method, key |-> key, phrase |-> phrase]
    BY <1>2, <1>3, <1>4, <1>5, <1>6, <1>7, ADevice
  <1>9. d = devices[n] /\ conn = d.conn /\ look = d.look /\ method = d.method /\ key = d.key /\ phrase = d.phrase
    BY <1>2, <1>3, <1>4, <1>5, <1>6, <1>7
  <1> WITNESS conn \in Conns, look \in BOOLEAN, method \in {"password", "private_key"},
              key \in Keys \cup {Own, NoName}, phrase \in Keys \cup {Own, NoName}, d \in {devices[n]}
  <1> QED
    BY <1>8, <1>9

\* A field of a device that is there.
LEMMA PatchedField ==
  ASSUME DetailsTypes, NEW n \in Present, NEW v
  PROVE  /\ v \in Conns /\ Patch(n, "conn", v) => Keep(n, v, devices[n].key, devices[n].phrase)
         /\ v \in BOOLEAN /\ Patch(n, "look", v) => Keep(n, devices[n].conn, devices[n].key, devices[n].phrase)
         /\ v \in Keys \cup {Own, NoName} /\ Patch(n, "key", v) => Keep(n, devices[n].conn, v, devices[n].phrase)
         /\ v \in Keys \cup {Own, NoName} /\ Patch(n, "phrase", v) => Keep(n, devices[n].conn, devices[n].key, v)
  <1>1. devices[n] # NoDevice
    BY DEF Present
  <1>2. PICK conn \in Conns, look \in BOOLEAN, method \in {"password", "private_key"},
             key \in Keys \cup {Own, NoName}, phrase \in Keys \cup {Own, NoName}, d \in {devices[n]} :
          /\ d = devices[n] /\ conn = d.conn /\ look = d.look /\ method = d.method /\ key = d.key /\ phrase = d.phrase
          /\ d = [conn |-> conn, look |-> look, method |-> method, key |-> key, phrase |-> phrase]
    BY Fields
  <1>3. ASSUME v \in Conns, Patch(n, "conn", v) PROVE Keep(n, v, devices[n].key, devices[n].phrase)
    <2>1. PICK e : e = [d EXCEPT !["conn"] = v]
      OBVIOUS
    <2>2. e = [conn |-> v, look |-> look, method |-> method, key |-> key, phrase |-> phrase]
      BY <1>2, <2>1
    <2>3. devices' = [devices EXCEPT ![n] = e]
      BY <1>1, <1>2, <1>3, <2>1 DEF Patch
    <2>4. Keep(n, v, key, phrase)
      BY <1>3, <2>2, <2>3, DeviceSet
    <2> QED
      BY <1>2, <2>4
  <1>4. ASSUME v \in BOOLEAN, Patch(n, "look", v) PROVE Keep(n, devices[n].conn, devices[n].key, devices[n].phrase)
    <2>1. PICK e : e = [d EXCEPT !["look"] = v]
      OBVIOUS
    <2>2. e = [conn |-> conn, look |-> v, method |-> method, key |-> key, phrase |-> phrase]
      BY <1>2, <2>1
    <2>3. devices' = [devices EXCEPT ![n] = e]
      BY <1>1, <1>2, <1>4, <2>1 DEF Patch
    <2>4. Keep(n, conn, key, phrase)
      BY <1>4, <2>2, <2>3, DeviceSet
    <2> QED
      BY <1>2, <2>4
  <1>5. ASSUME v \in Keys \cup {Own, NoName}, Patch(n, "key", v) PROVE Keep(n, devices[n].conn, v, devices[n].phrase)
    <2>1. PICK e : e = [d EXCEPT !["key"] = v]
      OBVIOUS
    <2>2. e = [conn |-> conn, look |-> look, method |-> method, key |-> v, phrase |-> phrase]
      BY <1>2, <2>1
    <2>3. devices' = [devices EXCEPT ![n] = e]
      BY <1>1, <1>2, <1>5, <2>1 DEF Patch
    <2>4. Keep(n, conn, v, phrase)
      BY <1>5, <2>2, <2>3, DeviceSet
    <2> QED
      BY <1>2, <2>4
  <1>6. ASSUME v \in Keys \cup {Own, NoName}, Patch(n, "phrase", v) PROVE Keep(n, devices[n].conn, devices[n].key, v)
    <2>1. PICK e : e = [d EXCEPT !["phrase"] = v]
      OBVIOUS
    <2>2. e = [conn |-> conn, look |-> look, method |-> method, key |-> key, phrase |-> v]
      BY <1>2, <2>1
    <2>3. devices' = [devices EXCEPT ![n] = e]
      BY <1>1, <1>2, <1>6, <2>1 DEF Patch
    <2>4. Keep(n, conn, key, v)
      BY <1>6, <2>2, <2>3, DeviceSet
    <2> QED
      BY <1>2, <2>4
  <1> QED
    BY <1>3, <1>4, <1>5, <1>6

\* The dialog is opened and closed.
LEMMA DialogStep ==
  ASSUME DetailsInv, CloseDetailModal \/ EscapeDetail \/ \E n \in Names : OpenDetailModal(n)
  PROVE  DetailsInv'
  <1>1. Present' = Present /\ devices' = devices
    BY DEF CloseDetailModal, EscapeDetail, OpenDetailModal, Present
  <1>2. CASE CloseDetailModal
    <2>1. DetailsTypes'
      BY <1>1, <1>2 DEF DetailsInv, DetailsTypes, CloseDetailModal, files, requests, detailsHistory
    <2>2. \A n \in Present : ConnSame(n) /\ KeySame(n)
      BY <1>2, ADevice DEF DetailsInv, CloseDetailModal, files, requests, detailsHistory, ConnSame, KeySame
    <2> QED
      BY <1>1, <1>2, <2>1, <2>2, ConnStays, KeyStays DEF DetailsInv, CloseDetailModal, detailsHistory
  <1>3. CASE EscapeDetail
    <2>1. DetailsTypes'
      BY <1>1, <1>3 DEF DetailsInv, DetailsTypes, EscapeDetail, files, requests
    <2>2. \A n \in Present : KeySame(n)
      BY <1>3, ADevice DEF DetailsInv, EscapeDetail, files, requests, KeySame
    <2>3. Present \subseteq loose'
      BY <1>3 DEF DetailsInv, DetailsTypes, EscapeDetail
    <2> QED
      BY <1>1, <1>3, <2>1, <2>2, <2>3, KeyStays DEF DetailsInv, EscapeDetail
  <1>4. ASSUME NEW m \in Names, OpenDetailModal(m) PROVE DetailsInv'
    <2>1. DetailsTypes'
      BY <1>1, <1>4 DEF DetailsInv, DetailsTypes, OpenDetailModal, files, requests
    <2>2. \A n \in Present : ConnSame(n)
      BY <1>4 DEF DetailsInv, OpenDetailModal, files, requests, ConnSame
    <2>3. ASSUME NEW n \in Present \ tangled' PROVE KeyOK(n)'
      <3>1. n \in Present \ tangled /\ KeyOK(n)
        BY <1>4, <2>3 DEF OpenDetailModal, DetailsInv
      <3>2. n = m
        BY <1>4 DEF DetailsInv, DetailsTypes, OpenDetailModal
      <3>3. Of(n, keygens) = {} /\ keygens' = keygens
        BY <1>4, <2>3, <3>2 DEF OpenDetailModal, requests
      <3> QED
        BY <1>4, <3>1, <3>3 DEF OpenDetailModal, KeyOK, files, requests, Of
    <2> QED
      BY <1>1, <1>4, <2>1, <2>2, <2>3, ConnStays DEF DetailsInv, OpenDetailModal
  <1> QED
    BY <1>2, <1>3, <1>4

\* A key or a passphrase is typed.
LEMMA CredentialStep ==
  ASSUME DetailsInv, NEW n \in Names,
         ImportKey(n) \/ TypePassphrase(n) \/ \E method \in {"password", "private_key"} : UpdateAuthMethod(n, method)
  PROVE  DetailsInv'
  <1>1. n \in Present /\ DetailsTypes
    BY DEF ImportKey, TypePassphrase, UpdateAuthMethod, Credential, DetailsInv
  <1>2. /\ devices[n].conn \in Conns /\ devices[n].look \in BOOLEAN /\ devices[n].method \in {"password", "private_key"}
        /\ devices[n].key \in Keys \cup {Own, NoName} /\ devices[n].phrase \in Keys \cup {Own, NoName}
    BY <1>1, ADevice DEF Device
  <1>3. \A m \in Present : m = n
    BY <1>1 DEF DetailsTypes
  <1>4. CASE ImportKey(n)
    <2>1. Keep(n, devices[n].conn, Own, devices[n].phrase)
      BY <1>1, <1>2, <1>4, PatchedField DEF ImportKey
    <2>2. ConnSame(n) /\ DetailsTypes'
      BY <1>1, <1>4, <2>1 DEF Keep, ImportKey, ConnSame, DetailsTypes, files, requests, detailsHistory
    <2>3. KeyOK(n) => KeyOK(n)'
      BY <1>4, <2>1, NotAKey DEF Keep, ImportKey, KeyOK, Of, files, requests, detailsHistory
    <2> QED
      BY <1>3, <1>4, <2>1, <2>2, <2>3, ConnStays DEF Keep, DetailsInv, ImportKey, detailsHistory
  <1>5. CASE TypePassphrase(n)
    <2>1. Keep(n, devices[n].conn, devices[n].key, Own)
      BY <1>1, <1>2, <1>5, PatchedField DEF TypePassphrase
    <2>2. ConnSame(n) /\ DetailsTypes'
      BY <1>1, <1>5, <2>1 DEF Keep, TypePassphrase, ConnSame, DetailsTypes, files
    <2>3. n \notin tangled' /\ KeyOK(n) => KeyOK(n)'
      BY <1>5, <2>1 DEF Keep, TypePassphrase, KeyOK, Of, files
    <2> QED
      BY <1>3, <1>5, <2>1, <2>2, <2>3, ConnStays DEF Keep, DetailsInv, TypePassphrase
  <1>6. ASSUME NEW method \in {"password", "private_key"}, UpdateAuthMethod(n, method)
        PROVE  DetailsInv'
    <2>1. PICK key \in Keys \cup {Own, NoName} : key = IF method = "password" THEN NoName ELSE devices[n].key
      BY <1>2
    <2>2. Keep(n, devices[n].conn, key, devices[n].phrase)
      <3>1. PICK conn \in Conns, look \in BOOLEAN, old \in {"password", "private_key"},
                 was \in Keys \cup {Own, NoName}, phrase \in Keys \cup {Own, NoName}, d \in {devices[n]} :
              /\ d = devices[n] /\ conn = d.conn /\ look = d.look /\ old = d.method /\ was = d.key /\ phrase = d.phrase
              /\ d = [conn |-> conn, look |-> look, method |-> old, key |-> was, phrase |-> phrase]
        BY <1>1, Fields
      <3>2. PICK e : e = [d EXCEPT !.method = method, !.key = key]
        OBVIOUS
      <3>3. e = [conn |-> conn, look |-> look, method |-> method, key |-> key, phrase |-> phrase]
        BY <3>1, <3>2
      <3>4. devices' = [devices EXCEPT ![n] = e]
        BY <1>1, <1>6, <2>1, <3>1, <3>2 DEF UpdateAuthMethod
      <3>5. Keep(n, conn, key, phrase)
        BY <1>1, <3>3, <3>4, DeviceSet
      <3> QED
        BY <3>1, <3>5
    <2>3. ConnSame(n) /\ DetailsTypes'
      BY <1>1, <1>6, <2>2 DEF Keep, UpdateAuthMethod, ConnSame, DetailsTypes, files, requests, detailsHistory
    <2>4. KeyOK(n) => KeyOK(n)'
      BY <1>6, <2>1, <2>2, NotAKey DEF Keep, UpdateAuthMethod, KeyOK, Of, files, requests, detailsHistory
    <2> QED
      BY <1>3, <1>6, <2>2, <2>3, <2>4, ConnStays DEF Keep, DetailsInv, UpdateAuthMethod, detailsHistory
  <1> QED
    BY <1>4, <1>5, <1>6

\* A key is generated.
LEMMA GenerateStep ==
  ASSUME DetailsInv, NEW n \in Names, GenerateServerKey(n)
  PROVE  DetailsInv'
  <1>1. n \in Present /\ DetailsTypes /\ Present' = Present
    BY DEF GenerateServerKey, Credential, DetailsInv, Present
  <1>2. \A m \in Present : m = n
    BY <1>1 DEF DetailsTypes
  <1> DEFINE k == [name |-> n, key |-> keysMade + 1, state |-> "asked"]
  <1>3. keygens' = keygens \cup {k} /\ keysMade + 1 \in Keys /\ keysMade' \in Nat
    BY <1>1, DetailsAssumption DEF GenerateServerKey, DetailsTypes, Keys
  <1>4. k = [name |-> k.name, key |-> k.key, state |-> k.state] /\ k.key \in Keys /\ k.state = "asked"
    BY <1>3
  <1> HIDE DEF k
  <1>5. ConnSame(n) /\ DetailsTypes'
    BY <1>1, <1>3, <1>4 DEF GenerateServerKey, ConnSame, DetailsTypes, files
  <1>6. n \notin tangled' /\ KeyOK(n) => KeyOK(n)'
    <2> SUFFICES ASSUME n \notin tangled', KeyOK(n) PROVE KeyOK(n)'
      OBVIOUS
    <2>1. Of(n, keygens) = {}
      BY <1>1 DEF GenerateServerKey, Credential, KeyOK, DetailsTypes
    <2>2. Of(n, keygens)' \subseteq {k} /\ n \notin phrases /\ detailActionBusy' = TRUE
      BY <1>3, <2>1 DEF GenerateServerKey, Of
    <2>3. devices[n].key \notin Keys
      BY NotAKey DEF GenerateServerKey
    <2> QED
      BY <1>4, <2>2, <2>3 DEF GenerateServerKey, KeyOK, files
  <1> QED
    BY <1>1, <1>2, <1>5, <1>6, ConnStays DEF DetailsInv, GenerateServerKey

\* The API makes it, and stores its passphrase if the vault opens.
LEMMA KeyMadeStep ==
  ASSUME DetailsInv, NEW k \in keygens, KeyMade(k)
  PROVE  DetailsInv'
  <1>1. DetailsTypes /\ Present' = Present /\ devices' = devices
    BY DEF KeyMade, deviceState, DetailsInv, Present
  <1>2. PICK state \in {"made", "failed"} :
          /\ keygens' = (keygens \ {k}) \cup {[k EXCEPT !.state = state]}
          /\ keyFile' = [keyFile EXCEPT ![k.name] = k.key] \/ keyFile' = keyFile
          /\ passphrases' = [passphrases EXCEPT ![k.name] = k.key] \/ passphrases' = passphrases
          /\ state = "made" => /\ keyFile' = [keyFile EXCEPT ![k.name] = k.key]
                               /\ passphrases' = [passphrases EXCEPT ![k.name] = k.key]
          /\ tangled \subseteq tangled'
          /\ state = "failed" /\ k.name \notin tangled' => keyFile' = keyFile /\ passphrases' = passphrases
    BY DEF KeyMade
  <1>3. PICK e : e = [k EXCEPT !.state = state]
    OBVIOUS
  <1>4. e = [name |-> k.name, key |-> k.key, state |-> state]
    BY <1>1, <1>3 DEF DetailsTypes
  <1>5. keygens' = (keygens \ {k}) \cup {e} /\ e.name = k.name /\ e.key = k.key /\ e.state = state /\ k.key \in Keys
    BY <1>1, <1>2, <1>3, <1>4 DEF DetailsTypes
  <1>6. e = [name |-> e.name, key |-> e.key, state |-> e.state]
    BY <1>4, <1>5
  <1>7. DetailsTypes' /\ \A n \in Present : ConnSame(n)
    BY <1>1, <1>2, <1>5, <1>6 DEF KeyMade, deviceState, ConnSame, DetailsTypes
  <1>8. ASSUME NEW n \in Present, n \notin tangled', KeyOK(n) PROVE KeyOK(n)'
    <2>1. n \in Names /\ n \in DOMAIN keyFile /\ n \in DOMAIN passphrases
      BY <1>1 DEF Present, DetailsTypes
    <2>2. CASE k.name = n
      <3>1. Of(n, keygens') = {e} /\ devices[n].key \notin Keys /\ n \notin phrases /\ phrases' = phrases
            /\ (detailAlias = n => detailActionBusy = TRUE) /\ detailAlias' = detailAlias /\ detailActionBusy' = detailActionBusy
        BY <1>5, <1>8, <2>2 DEF KeyOK, Of, KeyMade, deviceState
      <3> QED
        BY <1>1, <1>2, <1>5, <2>1, <2>2, <3>1 DEF KeyOK
    <2>3. CASE k.name # n
      <3>1. keyFile'[n] = keyFile[n] /\ passphrases'[n] = passphrases[n] /\ Of(n, keygens') = Of(n, keygens)
        BY <1>2, <1>5, <2>1, <2>3 DEF Of
      <3> QED
        BY <1>1, <1>8, <3>1 DEF KeyOK, KeyMade, deviceState
    <2> QED
      BY <2>2, <2>3
  <1> QED
    BY <1>1, <1>2, <1>7, <1>8, ConnStays DEF DetailsInv, KeyMade

\* Its answer puts it into the device, whatever dialog is open by now.
LEMMA KeyAnsweredStep ==
  ASSUME DetailsInv, NEW k \in keygens, KeyAnswered(k)
  PROVE  DetailsInv'
  <1> DEFINE n == k.name
             Shown == k.state = "made" /\ devices[n] # NoDevice
  <1>1. DetailsTypes /\ keygens' = keygens \ {k} /\ k.key \in Keys /\ k.key \in Keys \cup {Own, NoName} /\ n \in Names
    BY DEF DetailsInv, DetailsTypes, KeyAnswered
  <1>2. Shown => n \in Present
    BY <1>1 DEF Present
  <1>3. Shown => Keep(n, devices[n].conn, k.key, k.key)
    <2> SUFFICES ASSUME Shown PROVE Keep(n, devices[n].conn, k.key, k.key)
      OBVIOUS
    <2>1. PICK conn \in Conns, look \in BOOLEAN, method \in {"password", "private_key"},
               was \in Keys \cup {Own, NoName}, phrase \in Keys \cup {Own, NoName}, d \in {devices[n]} :
            /\ d = devices[n] /\ conn = d.conn /\ look = d.look /\ method = d.method /\ was = d.key /\ phrase = d.phrase
            /\ d = [conn |-> conn, look |-> look, method |-> method, key |-> was, phrase |-> phrase]
      BY <1>1, <1>2, Fields
    <2>2. PICK key \in Keys \cup {Own, NoName} : key = k.key
      BY <1>1
    <2>3. PICK e : e = [d EXCEPT !.method = "private_key", !.key = key, !.phrase = key]
      OBVIOUS
    <2>4. e = [conn |-> conn, look |-> look, method |-> "private_key", key |-> key, phrase |-> key]
      BY <2>1, <2>3
    <2>5. devices' = [devices EXCEPT ![n] = e]
      BY <1>1, <2>1, <2>2, <2>3 DEF KeyAnswered, DetailsTypes
    <2>6. Keep(n, conn, key, key)
      BY <1>1, <1>2, <2>4, <2>5, DeviceSet
    <2> QED
      BY <2>1, <2>2, <2>6
  <1>4. ~Shown => devices' = devices
    BY DEF KeyAnswered
  <1>5. /\ devices' \in [Names -> Device \cup {NoDevice}] /\ Present' = Present
        /\ \A m \in Present : devices'[m].conn = devices[m].conn
    <2>1. CASE Shown
      <3>1. \A m \in Present : m = n
        BY <1>1, <1>2, <2>1 DEF DetailsTypes
      <3> QED
        BY <1>3, <2>1, <3>1 DEF Keep
    <2>2. CASE ~Shown
      BY <1>1, <1>4, <2>2 DEF DetailsTypes, Present
    <2> QED
      BY <2>1, <2>2
  <1>6. DetailsTypes'
    BY <1>1, <1>5 DEF KeyAnswered, DetailsTypes, files
  <1>7. \A m \in Present : ConnSame(m)
    BY <1>5 DEF KeyAnswered, ConnSame, files
  <1>8. ASSUME NEW m \in Present, m \notin tangled', KeyOK(m) PROVE KeyOK(m)'
    <2>1. CASE m = n
      <3>1. Of(m, keygens) = {k} /\ Of(m, keygens') = {} /\ phrases' = phrases /\ m \notin phrases
            /\ devices[m].key \notin Keys /\ keyFile' = keyFile /\ passphrases' = passphrases
            /\ (k.state = "made" => keyFile[m] = k.key /\ passphrases[m] = k.key)
        BY <1>1, <1>8, <2>1 DEF KeyOK, Of, KeyAnswered, files
      <3>2. CASE Shown
        <4>1. devices'[m].key = k.key /\ devices'[m].phrase = k.key
          BY <1>3, <2>1, <3>2 DEF Keep
        <4> QED
          BY <3>1, <3>2, <4>1 DEF KeyOK
      <3>3. CASE ~Shown
        BY <1>4, <3>1, <3>3 DEF KeyOK
      <3> QED
        BY <3>2, <3>3
    <2>2. CASE m # n
      <3>1. ~Shown
        BY <1>1, <1>2, <2>2 DEF DetailsTypes
      <3>2. Of(m, keygens') = {}
        BY <1>8, <2>2 DEF KeyAnswered, Of
      <3> QED
        BY <1>4, <1>8, <3>1, <3>2 DEF KeyOK, KeyAnswered, files
    <2> QED
      BY <2>1, <2>2
  <1> QED
    BY <1>5, <1>6, <1>7, <1>8, ConnStays DEF DetailsInv, KeyAnswered

\* The passphrase that was typed reaches the vault, or does not.
LEMMA PassphraseStep ==
  ASSUME DetailsInv, NEW n \in Names, PassphraseSaved(n)
  PROVE  DetailsInv'
  <1>1. DetailsTypes /\ Present' = Present /\ devices' = devices
    BY DEF PassphraseSaved, deviceState, DetailsInv, Present
  <1>2. DetailsTypes' /\ \A m \in Present : ConnSame(m)
    BY <1>1 DEF PassphraseSaved, deviceState, DetailsTypes, ConnSame
  <1>3. ASSUME NEW m \in Present, m \notin tangled', KeyOK(m) PROVE KeyOK(m)'
    <2>1. CASE m = n
      <3>1. devices[m].phrase = Own /\ passphrases' = [passphrases EXCEPT ![m] = Own] /\ m \in DOMAIN passphrases
            /\ m \notin phrases' /\ Of(m, keygens) = {} /\ keygens' = keygens /\ keyFile' = keyFile
        BY <1>1, <1>3, <2>1 DEF PassphraseSaved, KeyOK, DetailsTypes
      <3> QED
        BY <1>1, <1>3, <3>1 DEF KeyOK
    <2>2. CASE m # n
      <3>1. passphrases'[m] = passphrases[m] /\ phrases' = phrases \ {n}
        BY <1>1, <2>2, ADevice DEF PassphraseSaved, DetailsTypes
      <3>2. keygens' = keygens /\ keyFile' = keyFile /\ detailAlias' = detailAlias /\ detailActionBusy' = detailActionBusy
        BY DEF PassphraseSaved, deviceState
      <3> QED
        BY <1>1, <1>3, <2>2, <3>1, <3>2 DEF KeyOK, Of
    <2> QED
      BY <2>1, <2>2
  <1> QED
    BY <1>1, <1>2, <1>3, ConnStays DEF DetailsInv, PassphraseSaved

-----------------------------------------------------------------------------
(* The steps of the connection: none of them touches a key.                  *)
LEMMA TypeStep ==
  ASSUME DetailsInv, NEW n \in Names, NEW v \in Conns, NEW modal \in BOOLEAN, TypeConnection(n, v, modal)
  PROVE  DetailsInv'
  <1>1. n \in Present /\ DetailsTypes /\ focus' = [name |-> n, modal |-> modal] /\ focus'.name = n
    BY DEF TypeConnection, DetailsInv
  <1>2. Keep(n, v, devices[n].key, devices[n].phrase)
    BY <1>1, PatchedField DEF TypeConnection
  <1>3. \A m \in Present : m = n
    BY <1>1 DEF DetailsTypes
  <1>4. DetailsTypes' /\ KeySame(n)
    BY <1>1, <1>2 DEF TypeConnection, DetailsTypes, KeySame, Keep, files, requests
  <1>5. n \notin loose' /\ ConnOK(n) => ConnOK(n)'
    <2> SUFFICES ASSUME n \notin loose', ConnOK(n) PROVE ConnOK(n)'
      OBVIOUS
    <2>1. v # 0 /\ hydration' = NoName /\ meantConn'[n] = v /\ devices'[n].conn = v
      BY <1>1, <1>2 DEF TypeConnection, requests, Keep, DetailsTypes, Present
    <2>2. saves' = saves /\ looks' = looks /\ moves' = moves /\ hostVars' = hostVars
      BY DEF TypeConnection, requests, files
    <2> QED
      BY <1>1, <2>1, <2>2 DEF ConnOK, SavesOK, MovesOK, HydrationOK, LooksOK, FileOK, Of, Live
  <1> QED
    BY <1>2, <1>3, <1>4, <1>5, KeyStays DEF DetailsInv, Keep, TypeConnection

LEMMA Replaced ==
  ASSUME NEW t, NEW name, NEW conn, NEW state, NEW last,
         t = [name |-> name, conn |-> conn, state |-> state, last |-> last]
  PROVE  \A no : [t EXCEPT !.last = no] = [name |-> name, conn |-> conn, state |-> state, last |-> no]
  OBVIOUS

LEMMA BlurStep ==
  ASSUME DetailsInv, BlurConnection
  PROVE  DetailsInv'
  <1>0. PICK n \in Present : n = focus.name
    BY DEF BlurConnection, DetailsInv, DetailsTypes
  <1> DEFINE new == [name |-> n, conn |-> devices[n].conn, state |-> "timer", last |-> TRUE]
  <1>1. n \in Present /\ DetailsTypes /\ Present' = Present /\ devices' = devices /\ \A m \in Present : m = n
    BY DEF BlurConnection, DetailsInv, DetailsTypes, Present
  <1>2. focus' = NoFocus /\ focus'.name = NoName /\ n # NoName
    BY <1>1, ADevice DEF BlurConnection, NoFocus
  <1>3. saves' = Superseded(n) \cup {new}
    BY <1>0 DEF BlurConnection
  <1>4. \A s \in Superseded(n) : \E t \in saves :
          \/ s = t /\ ~(t.name = n /\ t.state = "timer")
          \/ s = [name |-> n, conn |-> t.conn, state |-> "timer", last |-> FALSE] /\ t.name = n /\ t.state = "timer"
    <2> SUFFICES ASSUME NEW t \in saves, NEW s, s = IF t.name = n /\ t.state = "timer" THEN [t EXCEPT !.last = FALSE] ELSE t
                 PROVE  \/ s = t /\ ~(t.name = n /\ t.state = "timer")
                        \/ s = [name |-> n, conn |-> t.conn, state |-> "timer", last |-> FALSE] /\ t.name = n /\ t.state = "timer"
      BY DEF Superseded
    <2>1. PICK name, conn, state, last :
            /\ t = [name |-> name, conn |-> conn, state |-> state, last |-> last]
            /\ name = t.name /\ conn = t.conn /\ state = t.state /\ last = t.last
      BY <1>1 DEF DetailsTypes
    <2>2. PICK no : no = FALSE
      OBVIOUS
    <2>3. [t EXCEPT !.last = no] = [name |-> name, conn |-> conn, state |-> state, last |-> no]
      BY <2>1, Replaced
    <2> QED
      BY <2>1, <2>2, <2>3
  <1>5. DetailsTypes'
    <2>1. \A s \in Superseded(n) : s = [name |-> s.name, conn |-> s.conn, state |-> s.state, last |-> s.last] /\ s.last \in BOOLEAN /\ s.conn \in Conns
      <3> TAKE s \in Superseded(n)
      <3>1. PICK t \in saves :
              \/ s = t
              \/ s = [name |-> n, conn |-> t.conn, state |-> "timer", last |-> FALSE]
        BY <1>4
      <3>2. CASE s = t
        BY <1>1, <3>2 DEF DetailsTypes
      <3>3. CASE s = [name |-> n, conn |-> t.conn, state |-> "timer", last |-> FALSE]
        BY <1>1, <3>3 DEF DetailsTypes
      <3> QED
        BY <3>1, <3>2, <3>3
    <2>2. new = [name |-> new.name, conn |-> new.conn, state |-> new.state, last |-> new.last] /\ new.last \in BOOLEAN /\ new.conn \in Conns
      BY <1>1, ADevice DEF Device
    <2> HIDE DEF new
    <2> QED
      BY <1>1, <1>2, <1>3, <2>1, <2>2 DEF BlurConnection, DetailsTypes, files
  <1>6. KeySame(n)
    BY <1>1 DEF BlurConnection, KeySame, files
  <1>7. n \notin loose' /\ ConnOK(n) => ConnOK(n)'
    <2> SUFFICES ASSUME n \notin loose', ConnOK(n) PROVE ConnOK(n)'
      OBVIOUS
    <2>1. Of(n, looks) = {} /\ \A s \in Of(n, saves) : s.state = "timer"
      BY <1>0 DEF BlurConnection
    <2>2. devices[n].conn = meantConn[n] /\ meantConn[n] # 0 /\ hydration = NoName
      BY <1>0 DEF ConnOK, HydrationOK
    <2>3. new.name = n /\ new.conn = meantConn[n] /\ new.state = "timer" /\ new.last = TRUE
      BY <2>2
    <2> HIDE DEF new
    <2>4. \A s \in Of(n, saves)' : s = new \/ (s.state = "timer" /\ s.last = FALSE /\ s.conn # 0)
      <3> SUFFICES ASSUME NEW s \in Superseded(n), s.name = n PROVE s.state = "timer" /\ s.last = FALSE /\ s.conn # 0
        BY <1>3 DEF Of
      <3>1. PICK t \in saves : 
              \/ s = t /\ ~(t.name = n /\ t.state = "timer")
              \/ s = [name |-> n, conn |-> t.conn, state |-> "timer", last |-> FALSE] /\ t.name = n /\ t.state = "timer"
        BY <1>4
      <3> QED
        BY <2>1, <3>1 DEF Of, ConnOK, SavesOK
    <2>5. \A x : x # n /\ Of(x, saves) = {} => Of(x, saves') = {}
      BY <1>3, <1>4, <2>3 DEF Of
    <2>6. new \in Of(n, saves)'
      BY <1>3, <2>3 DEF Of
    <2>7. looks' = looks /\ moves' = moves /\ hydration' = hydration /\ hostVars' = hostVars /\ meantConn' = meantConn
      BY DEF BlurConnection, files
    <2>8. SavesOK(n)'
      BY <2>2, <2>3, <2>4, <2>7 DEF SavesOK, Live
    <2>9. MovesOK(n)'
      BY <2>5, <2>7 DEF ConnOK, MovesOK, Of
    <2>10. HydrationOK(n)' /\ LooksOK(n)' /\ FileOK(n)'
      BY <2>1, <2>2, <2>3, <2>6, <2>7 DEF HydrationOK, LooksOK, FileOK, Of, Live
    <2> QED
      BY <1>1, <1>2, <2>2, <2>7, <2>8, <2>9, <2>10 DEF ConnOK
  <1> QED
    BY <1>1, <1>5, <1>6, <1>7, KeyStays DEF DetailsInv, BlurConnection

LEMMA ConnectionStep ==
  ASSUME DetailsInv,
         NEW s \in saves, PersistServerConnection(s) \/ ConnectionWritten(s) \/ ConnectionAnswered(s)
  PROVE  DetailsInv'
  <1>1. PICK name, conn, state, last :
          /\ s = [name |-> name, conn |-> conn, state |-> state, last |-> last] /\ last \in BOOLEAN /\ conn \in Conns
          /\ name = s.name /\ conn = s.conn /\ state = s.state /\ last = s.last
    BY DEF DetailsInv, DetailsTypes
  <1>2. DetailsTypes /\ Present' = Present /\ devices' = devices /\ focus' = focus /\ \A m, n \in Present : m = n
    BY DEF DetailsInv, DetailsTypes, PersistServerConnection, ConnectionWritten, ConnectionAnswered, deviceState, Present
  <1>3. \A n \in Present : KeySame(n)
    BY DEF PersistServerConnection, ConnectionWritten, ConnectionAnswered, deviceState, detailsHistory, files, KeySame
  <1>7. /\ [s EXCEPT !.state = "sent"] = [name |-> name, conn |-> conn, state |-> "sent", last |-> last]
        /\ [s EXCEPT !.state = "applied"] = [name |-> name, conn |-> conn, state |-> "applied", last |-> last]
        /\ [s EXCEPT !.state = "failed"] = [name |-> name, conn |-> conn, state |-> "failed", last |-> last]
    <2>1. [s EXCEPT !.state = "sent"] = [name |-> name, conn |-> conn, state |-> "sent", last |-> last]
      BY <1>1
    <2>2. [s EXCEPT !.state = "applied"] = [name |-> name, conn |-> conn, state |-> "applied", last |-> last]
      BY <1>1
    <2>3. [s EXCEPT !.state = "failed"] = [name |-> name, conn |-> conn, state |-> "failed", last |-> last]
      BY <1>1
    <2> QED
      BY <2>1, <2>2, <2>3
  <1>8. /\ hostVars' \in [Names -> HostVars \cup {NoHostVars}] /\ \A x \in Names : x # s.name => hostVars'[x] = hostVars[x]
        /\ s.name \in Names /\ s.name \notin loose' /\ ConnectionWritten(s) => hostVars'[s.name].conn = s.conn
    <2> DEFINE f == [conn |-> s.conn, look |-> IF hostVars[s.name] = NoHostVars THEN FALSE ELSE hostVars[s.name].look]
    <2>1. CASE ConnectionWritten(s) /\ hostVars' = [hostVars EXCEPT ![s.name] = f]
      <3>1. s.name \in Names => f \in HostVars
        BY <1>1, <1>2 DEF DetailsTypes, HostVars
      <3>2. f.conn = s.conn
        OBVIOUS
      <3> HIDE DEF f
      <3> QED
        BY <1>2, <2>1, <3>1, <3>2 DEF DetailsTypes
    <2>2. CASE hostVars' = hostVars /\ (ConnectionWritten(s) => s.name \in loose')
      BY <1>2, <2>2 DEF DetailsTypes
    <2>3. ConnectionWritten(s) => hostVars' = [hostVars EXCEPT ![s.name] = f] \/ (hostVars' = hostVars /\ s.name \in loose')
      BY DEF ConnectionWritten
    <2>4. ~ConnectionWritten(s) => hostVars' = hostVars
      BY DEF PersistServerConnection, ConnectionAnswered, files
    <2> QED
      BY <2>1, <2>2, <2>3, <2>4
  <1>4. DetailsTypes'
    <2>2. \A t \in saves' : t \in saves \/ \E x : t = [name |-> name, conn |-> conn, state |-> x, last |-> last]
      BY <1>7 DEF PersistServerConnection, ConnectionWritten, ConnectionAnswered
    <2>3. \A t \in saves' : t = [name |-> t.name, conn |-> t.conn, state |-> t.state, last |-> t.last] /\ t.last \in BOOLEAN /\ t.conn \in Conns
      <3> TAKE t \in saves'
      <3>1. CASE t \in saves
        BY <1>2, <3>1 DEF DetailsTypes
      <3>2. ASSUME NEW x, t = [name |-> name, conn |-> conn, state |-> x, last |-> last]
            PROVE  t = [name |-> t.name, conn |-> t.conn, state |-> t.state, last |-> t.last] /\ t.last \in BOOLEAN /\ t.conn \in Conns
        BY <1>1, <3>2
      <3> QED
        BY <2>2, <3>1, <3>2
    <2>4. hostVars' \in [Names -> HostVars \cup {NoHostVars}]
      BY <1>2, <1>8 DEF DetailsTypes
    <2> QED
      BY <1>2, <2>3, <2>4
      DEF DetailsTypes, PersistServerConnection, ConnectionWritten, ConnectionAnswered, deviceState, detailsHistory, files
  <1>5. ASSUME NEW n \in Present, n \notin loose', ConnOK(n) PROVE ConnOK(n)'
    <2>1. n \in Names /\ looks' = looks /\ moves' = moves /\ hydration' = hydration /\ meantConn' = meantConn
      BY DEF Present, PersistServerConnection, ConnectionWritten, ConnectionAnswered, deviceState, detailsHistory
    <2>2. \A t \in saves' : t \in saves \/ t.name = name
      BY <1>7 DEF PersistServerConnection, ConnectionWritten, ConnectionAnswered
    <2>3. \A x : x # n /\ Of(x, saves) = {} => Of(x, saves') = {}
      BY <1>1, <2>2 DEF Of
    <2>4. MovesOK(n)'
      BY <1>5, <2>1, <2>3 DEF ConnOK, MovesOK, Of
    <2>5. CASE s.name # n
      <3>1. Of(n, saves') = Of(n, saves)
        BY <1>1, <1>7, <2>5 DEF PersistServerConnection, ConnectionWritten, ConnectionAnswered, Of
      <3>2. hostVars'[n] = hostVars[n] /\ \A r \in moves : hostVars'[r.from] = hostVars[r.from]
        <4>1. \A r \in moves : s.name # r.from
          BY <1>5 DEF ConnOK, MovesOK, Of
        <4> QED
          BY <1>2, <1>8, <2>1, <2>5, <4>1 DEF DetailsTypes
      <3> QED
        BY <1>2, <1>5, <2>1, <2>4, <3>1, <3>2 DEF ConnOK, SavesOK, HydrationOK, LooksOK, FileOK, Of, Live
    <2>6. CASE s.name = n
      <3>1. s \in Of(n, saves) /\ hydration = NoName /\ Of(n, looks) = {}
            /\ s.conn # 0 /\ devices[n].conn = meantConn[n] /\ (focus.name = n => meantConn[n] # 0)
        BY <1>5, <2>6 DEF Of, ConnOK, SavesOK, HydrationOK, LooksOK
      <3>2. HydrationOK(n)' /\ LooksOK(n)'
        BY <2>1, <3>1 DEF HydrationOK, LooksOK, Of
      <3>3. CASE PersistServerConnection(s)
        <4>1. s.state = "timer" /\ hostVars' = hostVars
              /\ saves' = (saves \ {s}) \cup (IF last THEN {[name |-> name, conn |-> conn, state |-> "sent", last |-> last]} ELSE {})
          BY <1>1, <1>7, <3>1, <3>3 DEF PersistServerConnection, files
        <4>2. SavesOK(n)'
          BY <1>1, <1>2, <1>5, <2>1, <2>6, <3>1, <4>1 DEF ConnOK, SavesOK, Of, Live
        <4>3. CASE last = TRUE
          <5>1. \E t \in Of(n, saves') : t.state = "sent"
            <6> DEFINE t == [name |-> name, conn |-> conn, state |-> "sent", last |-> last]
            <6>1. t \in saves' /\ t.name = n /\ t.state = "sent"
              BY <1>1, <2>6, <4>1, <4>3
            <6> QED
              BY <6>1 DEF Of
          <5>2. FileOK(n)'
            BY <5>1 DEF FileOK, Of, Live
          <5> QED
            BY <1>2, <2>1, <2>4, <3>1, <3>2, <4>1, <4>2, <5>2 DEF ConnOK
        <4>4. CASE last = FALSE
          <5>1. Of(n, saves') = Of(n, saves) \ {s} /\ ~Live(s)
            BY <1>1, <4>1, <4>4 DEF Of, Live
          <5>2. \A t : Live(t)' <=> Live(t)
            BY DEF Live
          <5>3. FileOK(n)'
            BY <1>2, <1>5, <2>1, <4>1, <5>1, <5>2 DEF ConnOK, FileOK, Of
          <5> QED
            BY <1>2, <2>1, <2>4, <3>1, <3>2, <4>1, <4>2, <5>3 DEF ConnOK
        <4> QED
          BY <1>1, <4>3, <4>4
      <3>4. CASE ConnectionWritten(s)
        <4>1. s.state = "sent" /\ hostVars'[n].conn = conn
              /\ saves' = (saves \ {s}) \cup {[name |-> name, conn |-> conn, state |-> "applied", last |-> last]}
          BY <1>1, <1>5, <1>7, <1>8, <2>1, <2>6, <3>4 DEF ConnectionWritten
        <4>2. SavesOK(n)'
          BY <1>1, <1>2, <1>5, <2>1, <2>6, <3>1, <4>1 DEF ConnOK, SavesOK, Of, Live
        <4>3. FileOK(n)'
          BY <1>1, <1>2, <1>5, <2>1, <2>6, <3>1, <4>1 DEF ConnOK, SavesOK, FileOK, Of, Live, NoHostVars
        <4> QED
          BY <1>2, <2>1, <2>4, <3>1, <3>2, <4>2, <4>3 DEF ConnOK
      <3>5. CASE ConnectionAnswered(s)
        <4>1. s.state = "applied" /\ hostVars' = hostVars /\ saves' = saves \ {s}
          BY <1>5, <3>1, <3>5 DEF ConnectionAnswered, files, ConnOK, SavesOK
        <4>2. SavesOK(n)'
          BY <1>1, <1>2, <1>5, <2>1, <2>6, <3>1, <4>1 DEF ConnOK, SavesOK, Of, Live
        <4>3. FileOK(n)'
          BY <1>1, <1>2, <1>5, <2>1, <2>6, <3>1, <4>1 DEF ConnOK, FileOK, Of, Live
        <4> QED
          BY <1>2, <2>1, <2>4, <3>1, <3>2, <4>2, <4>3 DEF ConnOK
      <3> QED
        BY <3>3, <3>4, <3>5
    <2> QED
      BY <2>5, <2>6
  <1> QED
    BY <1>2, <1>3, <1>4, <1>5, KeyStays
    DEF DetailsInv, PersistServerConnection, ConnectionWritten, ConnectionAnswered, detailsHistory

\* A color: the file is read, changed and written.
LEMMA PickColorStep ==
  ASSUME DetailsInv, NEW n \in Names, PickColor(n)
  PROVE  DetailsInv'
  <1>1. n \in Present /\ DetailsTypes /\ \A m \in Present : m = n
    BY DEF PickColor, DetailsInv, DetailsTypes
  <1>2. PICK look \in BOOLEAN : look = ~devices[n].look /\ Patch(n, "look", look)
    BY <1>1, ADevice DEF PickColor, Device
  <1>3. Keep(n, devices[n].conn, devices[n].key, devices[n].phrase)
    BY <1>1, <1>2, PatchedField
  <1> DEFINE l == [name |-> n, look |-> ~devices[n].look, state |-> "asked", conn |-> 0]
  <1>4. looks' = looks \cup {l} /\ l.name = n /\ l.state = "asked"
        /\ l = [name |-> l.name, look |-> l.look, state |-> l.state, conn |-> l.conn]
        /\ l.look \in BOOLEAN /\ l.conn \in Conns /\ l.name \in Names
    BY DetailsAssumption DEF PickColor, Conns
  <1> HIDE DEF l
  <1>5. DetailsTypes' /\ KeySame(n)
    BY <1>1, <1>3, <1>4 DEF PickColor, DetailsTypes, KeySame, Keep, files
  <1>6. n \notin loose' /\ ConnOK(n) => ConnOK(n)'
    <2> SUFFICES ASSUME n \notin loose', ConnOK(n) PROVE ConnOK(n)'
      OBVIOUS
    <2>1. Of(n, saves) = {} /\ Of(n, looks) = {} /\ moves = {}
      BY DEF PickColor
    <2>2. Of(n, looks') \subseteq {l}
      BY <1>4, <2>1 DEF Of
    <2>3. UNCHANGED <<focus, hostVars, saves, moves, hydration, meantConn>> /\ devices'[n].conn = devices[n].conn
      BY <1>3 DEF PickColor, files, Keep
    <2>4. LooksOK(n)'
      BY <1>4, <2>1, <2>2, <2>3 DEF LooksOK, Of
    <2>5. MovesOK(n)'
      BY <2>1, <2>3 DEF MovesOK
    <2> QED
      BY <2>3, <2>4, <2>5 DEF ConnOK, SavesOK, HydrationOK, FileOK, Of, Live
  <1> QED
    BY <1>1, <1>3, <1>5, <1>6, KeyStays DEF DetailsInv, Keep, PickColor

LEMMA LookStep ==
  ASSUME DetailsInv, NEW l \in looks, ReadForLook(l) \/ WriteLook(l)
  PROVE  DetailsInv'
  <1>1. DetailsTypes /\ Present' = Present /\ devices' = devices /\ \A n \in Present : KeySame(n)
    BY DEF ReadForLook, WriteLook, DetailsInv, deviceState, files, detailsHistory, KeySame, Present
  <1>2. PICK name, look, state, conn :
          /\ l = [name |-> name, look |-> look, state |-> state, conn |-> conn]
          /\ name = l.name /\ look = l.look /\ state = l.state /\ conn = l.conn
          /\ look \in BOOLEAN /\ conn \in Conns /\ name \in Names
    BY <1>1 DEF DetailsTypes
  <1>3. UNCHANGED <<focus, saves, moves, hydration, meantConn, loose, tangled>>
    BY DEF ReadForLook, WriteLook, deviceState, detailsHistory
  <1>4. CASE ReadForLook(l)
    <2>1. PICK c : c = hostVars[name].conn
      OBVIOUS
    <2>2. PICK e : e = [l EXCEPT !.state = "read", !.conn = c]
      OBVIOUS
    <2>3. e = [name |-> name, look |-> look, state |-> "read", conn |-> c]
      BY <1>2, <2>2
    <2>4. looks' = (looks \ {l}) \cup {e} /\ hostVars' = hostVars
      BY <1>2, <1>4, <2>1, <2>2 DEF ReadForLook, files
    <2>5. e.name = name /\ e.state = "read" /\ e.conn = c /\ e = [name |-> e.name, look |-> e.look, state |-> e.state, conn |-> e.conn]
          /\ e.look \in BOOLEAN /\ e.conn \in Conns /\ e.name \in Names
      <3>1. c \in Conns
        BY <1>1, <1>2, <2>1, DetailsAssumption DEF DetailsTypes, HostVars, NoHostVars, Conns
      <3> QED
        BY <1>2, <2>3, <3>1
    <2>6. DetailsTypes'
      BY <1>1, <1>3, <1>4, <2>4, <2>5 DEF DetailsTypes, ReadForLook, deviceState, files
    <2>7. ASSUME NEW n \in Present, ConnOK(n) PROVE ConnOK(n)'
      <3>1. LooksOK(n)'
        BY <1>2, <1>3, <2>1, <2>4, <2>5, <2>7 DEF ConnOK, LooksOK, Of
      <3>2. \A x : Of(x, looks) = {} => Of(x, looks') = {}
        BY <1>2, <2>4, <2>5 DEF Of
      <3>3. MovesOK(n)'
        BY <1>3, <2>7, <3>2 DEF ConnOK, MovesOK, Of
      <3> QED
        BY <1>1, <1>3, <2>4, <2>7, <3>1, <3>3 DEF ConnOK, SavesOK, HydrationOK, FileOK, Of, Live
    <2> QED
      BY <1>1, <1>3, <2>6, <2>7, KeyStays DEF DetailsInv
  <1>5. CASE WriteLook(l)
    <2>1. looks' = looks \ {l}
      BY <1>5 DEF WriteLook
    <2>2. DetailsTypes'
      <3>1. [conn |-> l.conn, look |-> l.look] \in HostVars
        BY <1>2 DEF HostVars
      <3>2. hostVars' \in [Names -> HostVars \cup {NoHostVars}]
        BY <1>1, <1>5, <3>1 DEF DetailsTypes, WriteLook
      <3> QED
        BY <1>1, <1>3, <1>5, <2>1, <3>2 DEF DetailsTypes, WriteLook, deviceState, files
    <2>3. \/ hostVars' = hostVars
          \/ \E f : f.conn = conn /\ state = "read" /\ hostVars' = [hostVars EXCEPT ![name] = f]
      <3> DEFINE f == [conn |-> l.conn, look |-> l.look]
      <3>1. hostVars' = hostVars \/ (state = "read" /\ hostVars' = [hostVars EXCEPT ![name] = f])
        BY <1>2, <1>5 DEF WriteLook
      <3>2. f.conn = conn
        BY <1>2
      <3> QED
        BY <3>1, <3>2
    <2>4. ASSUME NEW n \in Present, ConnOK(n) PROVE ConnOK(n)'
      <3>1. hostVars'[n].conn = hostVars[n].conn
            /\ (name = n => moves = {} /\ Of(n, saves) = {}) /\ (name # n => hostVars'[n] = hostVars[n])
        BY <1>1, <1>2, <2>3, <2>4 DEF ConnOK, LooksOK, Of, DetailsTypes, Present
      <3>2. \A r \in moves : hostVars'[r.from] = hostVars[r.from]
        <4>1. \A r \in moves : r.from # name /\ r.from \in Names
          BY <1>1, <1>2, <2>4 DEF ConnOK, MovesOK, Of, DetailsTypes
        <4> QED
          BY <1>1, <2>3, <4>1 DEF DetailsTypes
      <3>3. LooksOK(n)' /\ MovesOK(n)'
        BY <1>3, <2>1, <2>4, <3>1 DEF ConnOK, LooksOK, MovesOK, Of
      <3>4. SavesOK(n)' /\ HydrationOK(n)'
        BY <1>3, <2>4, <3>1 DEF ConnOK, SavesOK, HydrationOK, Of, Live
      <3>5. FileOK(n)'
        BY <1>3, <2>4, <3>1, <3>2 DEF ConnOK, FileOK, Of, Live
      <3> QED
        BY <1>1, <1>3, <2>4, <3>3, <3>4, <3>5 DEF ConnOK
    <2> QED
      BY <1>1, <1>3, <2>2, <2>4, KeyStays DEF DetailsInv
  <1> QED
    BY <1>4, <1>5

\* All files are read, then shown together.
LEMMA HydrateStep ==
  ASSUME DetailsInv, Hydrate \/ HydrateShow \/ HydrateFails \/ \E n \in Names : HydrateRead(n)
  PROVE  DetailsInv'
  <1>1. DetailsTypes /\ tangled' = tangled
        /\ UNCHANGED <<detailAlias, detailActionBusy, focus, hostVars, keyFile, passphrases, saves, looks, moves, keygens,
                       phrases, meantConn, keysMade>>
    BY DEF DetailsInv, Hydrate, HydrateShow, HydrateFails, HydrateRead, deviceState, files, detailsHistory
  <1>2. CASE Hydrate \/ HydrateFails \/ \E n \in Names : HydrateRead(n)
    <2>1. Present' = Present /\ devices' = devices
      BY <1>2 DEF Hydrate, HydrateFails, HydrateRead, deviceState, Present
    <2>2. loose \subseteq loose' /\ \A n \in Present : KeySame(n)
      BY <1>1, <1>2, <2>1 DEF Hydrate, HydrateFails, HydrateRead, detailsHistory, KeySame
    <2>3. hydration' # NoName => hydration'.read \in [Names -> HostVars \cup {NoHostVars}]
      BY <1>1, <1>2 DEF Hydrate, HydrateFails, HydrateRead, DetailsTypes
    <2>4. DetailsTypes'
      BY <1>1, <2>1, <2>3 DEF DetailsTypes
    <2>5. ASSUME NEW n \in Present, n \notin loose', ConnOK(n) PROVE HydrationOK(n)'
      <3>1. CASE Hydrate
        <4>1. focus.name # n
          BY <3>1, ADevice, <1>1 DEF Hydrate, NoFocus
        <4>2. hydration'.read[n] = NoHostVars /\ Of(n, saves) = {}
          BY <2>5, <3>1 DEF Hydrate, Present
        <4> QED
          BY <1>1, <4>1, <4>2 DEF HydrationOK, Of
      <3>2. CASE HydrateFails
        BY <3>2 DEF HydrateFails, HydrationOK
      <3>3. ASSUME NEW m \in Names, HydrateRead(m) PROVE HydrationOK(n)'
        <4>1. hydration # NoName /\ hydration'.read = [hydration.read EXCEPT ![m] = hostVars[m]] /\ hydration.read \in [Names -> HostVars \cup {NoHostVars}]
          BY <1>1, <3>3 DEF HydrateRead, DetailsTypes
        <4>2. focus.name # n /\ Of(n, saves) = {} /\ (hydration.read[n] # NoHostVars => hydration.read[n].conn = meantConn[n])
          BY <2>5, <4>1 DEF ConnOK, HydrationOK
        <4>3. hostVars[n] # NoHostVars => hostVars[n].conn = meantConn[n]
          BY <2>5, <4>2 DEF ConnOK, FileOK
        <4>4. hydration'.read[n] = IF m = n THEN hostVars[n] ELSE hydration.read[n]
          BY <4>1 DEF Present
        <4> QED
          BY <1>1, <4>2, <4>3, <4>4 DEF HydrationOK, Of
      <3> QED
        BY <1>2, <3>1, <3>2, <3>3
    <2>6. ASSUME NEW n \in Present, n \notin loose', ConnOK(n) PROVE ConnOK(n)'
      BY <1>1, <2>1, <2>5, <2>6 DEF ConnOK, SavesOK, MovesOK, LooksOK, FileOK, Of, Live
    <2> QED
      BY <1>1, <2>1, <2>2, <2>4, <2>6, KeyStays DEF DetailsInv
  <1>3. CASE HydrateShow
    <2>1. ASSUME NEW n \in Names, devices[n] # NoDevice
          PROVE  /\ devices'[n] \in Device /\ devices'[n].key = devices[n].key /\ devices'[n].phrase = devices[n].phrase
                 /\ devices'[n].conn = IF hydration.read[n] = NoHostVars \/ hydration.read[n].conn = 0 THEN devices[n].conn
                                       ELSE hydration.read[n].conn
      <3>1. n \in Present
        BY <2>1 DEF Present
      <3>2. PICK conn \in Conns, look \in BOOLEAN, method \in {"password", "private_key"},
                 key \in Keys \cup {Own, NoName}, phrase \in Keys \cup {Own, NoName}, d \in {devices[n]} :
              /\ d = devices[n] /\ conn = d.conn /\ look = d.look /\ method = d.method /\ key = d.key /\ phrase = d.phrase
              /\ d = [conn |-> conn, look |-> look, method |-> method, key |-> key, phrase |-> phrase]
        BY <1>1, <3>1, Fields
      <3>3. CASE hydration.read[n] = NoHostVars
        <4>1. devices'[n] = devices[n]
          BY <1>3, <3>3 DEF HydrateShow
        <4> QED
          BY <1>1, <2>1, <3>3, <4>1 DEF DetailsTypes
      <3>4. CASE hydration.read[n] # NoHostVars
        <4>1. PICK color \in BOOLEAN, c \in Conns :
                /\ color = hydration.read[n].look
                /\ c = IF hydration.read[n].conn = 0 THEN conn ELSE hydration.read[n].conn
          BY <1>1, <1>3, <3>4 DEF HydrateShow, DetailsTypes, HostVars
        <4>2. PICK e : e = [d EXCEPT !.look = color, !.conn = c]
          OBVIOUS
        <4>3. e = [conn |-> c, look |-> color, method |-> method, key |-> key, phrase |-> phrase]
          BY <3>2, <4>2
        <4>4. devices'[n] = e
          BY <1>3, <2>1, <3>2, <3>4, <4>1, <4>2 DEF HydrateShow
        <4>5. e \in Device
          BY <4>3 DEF Device
        <4> QED
          BY <3>2, <3>4, <4>1, <4>3, <4>4, <4>5
      <3> QED
        BY <3>3, <3>4
    <2>2. \A n \in Names : devices[n] = NoDevice => devices'[n] = NoDevice
      BY <1>3 DEF HydrateShow
    <2>3. Present' = Present
      BY <2>1, <2>2 DEF Present, Device, NoDevice
    <2>4. DetailsTypes'
      BY <1>1, <1>3, <2>1, <2>2, <2>3 DEF DetailsTypes, HydrateShow
    <2>5. \A n \in Present : KeySame(n)
      BY <1>1, <2>1 DEF KeySame, Present
    <2>6. ASSUME NEW n \in Present, ConnOK(n) PROVE ConnOK(n)'
      <3>1. devices'[n].conn = meantConn[n] /\ hydration' = NoName
        BY <1>3, <2>1, <2>6 DEF ConnOK, HydrationOK, HydrateShow, Present
      <3> QED
        BY <1>1, <2>6, <3>1 DEF ConnOK, SavesOK, MovesOK, HydrationOK, LooksOK, FileOK, Of, Live
    <2> QED
      BY <1>1, <1>3, <2>3, <2>4, <2>5, <2>6, KeyStays DEF DetailsInv, HydrateShow, detailsHistory
  <1> QED
    BY <1>2, <1>3

\* The queue of renames has a file moved.
LEMMA MovedStep ==
  ASSUME DetailsInv, NEW r \in moves, Moved(r)
  PROVE  DetailsInv'
  <1>1. DetailsTypes /\ Present' = Present /\ devices' = devices /\ \A n \in Present : KeySame(n)
    BY DEF Moved, DetailsInv, deviceState, KeySame, Present
  <1>2. UNCHANGED <<focus, saves, looks, hydration, meantConn, tangled, keygens, keysMade, detailActionBusy>>
        /\ loose \subseteq loose' /\ moves' = moves \ {r}
    BY DEF Moved, deviceState
  <1>3. DetailsTypes'
    <2>1. hostVars' \in [Names -> HostVars \cup {NoHostVars}]
      BY <1>1 DEF Moved, DetailsTypes
    <2> QED
      BY <1>1, <1>2, <2>1 DEF DetailsTypes, Moved
  <1>4. ASSUME NEW n \in Present, n \notin loose', ConnOK(n) PROVE ConnOK(n)'
    <2>1. r.to = n /\ r.from # n /\ moves' = {} /\ n \in Names /\ r.from \in Names
      BY <1>1, <1>2, <1>4 DEF ConnOK, MovesOK, DetailsTypes, Present
    <2>2. Of(n, saves) = {} /\ Of(n, looks) = {}
      BY <1>4, <2>1 DEF Moved, Of
    <2>3. focus.name # n => hostVars'[n].conn = meantConn[n]
      <3> SUFFICES ASSUME focus.name # n PROVE hostVars'[n].conn = meantConn[n]
        OBVIOUS
      <3>1. \/ hostVars[n] # NoHostVars /\ hostVars[n].conn = meantConn[n]
            \/ hostVars[n] = NoHostVars /\ hostVars[r.from].conn = meantConn[n]
        BY <1>1, <1>4, <2>1, <2>2 DEF ConnOK, FileOK, MovesOK
      <3>2. hostVars[n] # NoHostVars => hostVars'[n] = hostVars[n]
        BY <2>1 DEF Moved
      <3>3. hostVars[n] = NoHostVars /\ hostVars[r.from] = NoHostVars => hostVars'[n] = hostVars[r.from]
        BY <2>1 DEF Moved
      <3>4. hostVars[n] = NoHostVars /\ hostVars[r.from] # NoHostVars => hostVars'[n] = hostVars[r.from]
        BY <1>1, <2>1 DEF Moved, DetailsTypes
      <3> QED
        BY <3>1, <3>2, <3>3, <3>4
    <2>4. HydrationOK(n)' /\ SavesOK(n)' /\ LooksOK(n)' /\ MovesOK(n)' /\ FileOK(n)'
      BY <1>2, <1>4, <2>1, <2>2, <2>3 DEF ConnOK, HydrationOK, SavesOK, LooksOK, MovesOK, FileOK, Of
    <2> QED
      BY <1>1, <1>2, <1>4, <2>4 DEF ConnOK
  <1> QED
    BY <1>1, <1>2, <1>3, <1>4, KeyStays DEF DetailsInv

\* A device takes another alias: its file follows, key and passphrase do not.
LEMMA RenameStep ==
  ASSUME DetailsInv, NEW n \in Names, NEW m \in Names, RenameAlias(n, m)
  PROVE  DetailsInv'
  <1>1. DetailsTypes /\ n \in Present /\ m \notin Present /\ n # m /\ focus = NoFocus /\ focus' = NoFocus
    BY DEF RenameAlias, DetailsInv
  <1>2. /\ devices' \in [Names -> Device \cup {NoDevice}] /\ devices'[m] = devices[n]
        /\ Present' = {m} /\ meantConn'[m] = meantConn[n]
    <2>1. devices' \in [Names -> Device \cup {NoDevice}] /\ devices'[m] = devices[n] /\ devices'[n] = NoDevice
          /\ \A x \in Names : x # n /\ x # m => devices'[x] = devices[x]
      BY <1>1 DEF RenameAlias, DetailsTypes
    <2>2. \A x \in Names : devices[x] # NoDevice <=> x = n
      BY <1>1 DEF DetailsTypes, Present
    <2>3. meantConn'[m] = meantConn[n]
      BY <1>1 DEF RenameAlias, DetailsTypes
    <2> QED
      BY <1>1, <2>1, <2>2, <2>3 DEF Present
  <1> DEFINE r == [from |-> n, to |-> m]
  <1>3. moves' = moves \cup {r} /\ r.from = n /\ r.to = m
    BY DEF RenameAlias
  <1> HIDE DEF r
  <1>4. hydration'.read = [x \in Names |-> NoHostVars]
    BY DEF RenameAlias
  <1>5. DetailsTypes'
    <2>1. keysMade' = keysMade /\ keygens' = keygens /\ detailActionBusy' = FALSE /\ files' = files
          /\ saves' = saves /\ looks' = looks /\ DOMAIN meantConn' = DOMAIN meantConn
      BY DEF RenameAlias
    <2> QED
      BY <1>1, <1>2, <1>3, <1>4, <2>1 DEF DetailsTypes, files
  <1>6. ASSUME m \notin loose' PROVE ConnOK(m)'
    <2>1. n \notin loose /\ moves = {} /\ hostVars[m] = NoHostVars
          /\ Of(n, saves) = {} /\ Of(n, looks) = {} /\ Of(m, saves) = {} /\ Of(m, looks) = {}
      BY <1>6 DEF RenameAlias
    <2>2. saves' = saves /\ looks' = looks /\ hostVars' = hostVars /\ focus'.name = NoName /\ m # NoName
      BY <1>1, DetailsAssumption DEF RenameAlias, files, NoFocus
    <2>3. ConnOK(n)
      BY <1>1, <2>1 DEF DetailsInv
    <2>4. hostVars[n].conn = meantConn[n] /\ devices[n].conn = meantConn[n]
      BY <1>1, <2>1, <2>2, <2>3, ADevice DEF ConnOK, FileOK
    <2>5. moves' = {r}
      BY <1>3, <2>1
    <2>6. SavesOK(m)' /\ LooksOK(m)' /\ MovesOK(m)' /\ HydrationOK(m)'
      BY <1>1, <1>3, <1>4, <2>1, <2>2, <2>5 DEF SavesOK, LooksOK, MovesOK, HydrationOK, Of
    <2>7. FileOK(m)'
      BY <1>2, <1>3, <2>1, <2>2, <2>4, <2>5 DEF FileOK
    <2> QED
      BY <1>2, <2>2, <2>4, <2>6, <2>7 DEF ConnOK
  <1>7. m \in tangled'
    BY DEF RenameAlias
  <1> QED
    BY <1>2, <1>5, <1>6, <1>7 DEF DetailsInv

-----------------------------------------------------------------------------
LEMMA DetailsStep == DetailsInv /\ [DetailsNext]_detailsVars => DetailsInv'
  <1> SUFFICES ASSUME DetailsInv, [DetailsNext]_detailsVars PROVE DetailsInv'
    OBVIOUS
  <1>1. CASE UNCHANGED detailsVars
    <2>1. Present' = Present
      BY <1>1 DEF detailsVars, deviceState, Present
    <2>2. DetailsTypes'
      BY <1>1, <2>1 DEF DetailsInv, DetailsTypes, detailsVars, deviceState, files, requests, detailsHistory
    <2>3. \A n \in Present : ConnSame(n) /\ KeySame(n)
      BY <1>1 DEF ConnSame, KeySame, detailsVars, deviceState, files, requests, detailsHistory
    <2> QED
      BY <1>1, <2>1, <2>2, <2>3, ConnStays, KeyStays DEF DetailsInv, detailsVars, detailsHistory
  <1>2. CASE CloseDetailModal \/ EscapeDetail \/ \E n \in Names : OpenDetailModal(n)
    BY <1>2, DialogStep
  <1>3. CASE Hydrate \/ HydrateShow \/ HydrateFails \/ \E n \in Names : HydrateRead(n)
    BY <1>3, HydrateStep
  <1>4. CASE BlurConnection
    BY <1>4, BlurStep
  <1>5. ASSUME NEW n \in Names, PickColor(n) PROVE DetailsInv'
    BY <1>5, PickColorStep
  <1>6. ASSUME NEW n \in Names,
               ImportKey(n) \/ TypePassphrase(n) \/ \E method \in {"password", "private_key"} : UpdateAuthMethod(n, method)
        PROVE  DetailsInv'
    BY <1>6, CredentialStep
  <1>7. ASSUME NEW n \in Names, GenerateServerKey(n) \/ PassphraseSaved(n) PROVE DetailsInv'
    BY <1>7, GenerateStep, PassphraseStep
  <1>8. ASSUME NEW n \in Names, NEW v \in Conns, NEW modal \in BOOLEAN, TypeConnection(n, v, modal) PROVE DetailsInv'
    BY <1>8, TypeStep
  <1>9. ASSUME NEW n \in Names, NEW m \in Names, RenameAlias(n, m) PROVE DetailsInv'
    BY <1>9, RenameStep
  <1>10. ASSUME NEW s \in saves, PersistServerConnection(s) \/ ConnectionWritten(s) \/ ConnectionAnswered(s)
         PROVE  DetailsInv'
    BY <1>10, ConnectionStep
  <1>11. ASSUME NEW r \in moves, Moved(r) PROVE DetailsInv'
    BY <1>11, MovedStep
  <1>12. ASSUME NEW l \in looks, ReadForLook(l) \/ WriteLook(l) PROVE DetailsInv'
    BY <1>12, LookStep
  <1>13. ASSUME NEW k \in keygens, KeyMade(k) \/ KeyAnswered(k) PROVE DetailsInv'
    BY <1>13, KeyMadeStep, KeyAnsweredStep
  <1> QED
    BY <1>1, <1>2, <1>3, <1>4, <1>5, <1>6, <1>7, <1>8, <1>9, <1>10, <1>11, <1>12, <1>13 DEF DetailsNext

\* What the dialog of a device shows is what files and vault hold of it: the
\* connection that was typed last once its save has ended
\* (handleCredentialFieldBlur, persistServerConnection), and a generated key
\* with its passphrase (runDetailKeygen), but for the orders that the code does
\* not master, however many steps the user takes and keys are generated.
THEOREM DialogShowsFiles == DetailsSpec => []DetailsAgree
  <1>1. DetailsInv => DetailsAgree
    <2> SUFFICES ASSUME DetailsInv PROVE ConnectionReachesFile /\ ShownKeyIsStored
      BY DEF DetailsAgree
    <2>1. ConnectionReachesFile
      <3> SUFFICES ASSUME focus = NoFocus, saves = {}, looks = {}, moves = {}, hydration = NoName,
                          NEW n \in Present \ loose
                   PROVE  /\ devices[n].conn = meantConn[n]
                          /\ meantConn[n] # 0 => hostVars[n] # NoHostVars /\ hostVars[n].conn = meantConn[n]
        BY DEF ConnectionReachesFile
      <3>1. ConnOK(n) /\ focus.name # n
        BY ADevice DEF DetailsInv, NoFocus
      <3>2. hostVars[n].conn = meantConn[n]
        BY <3>1 DEF ConnOK, FileOK, Of
      <3> QED
        BY <3>1, <3>2 DEF ConnOK, NoHostVars
    <2>2. ShownKeyIsStored
      BY DEF DetailsInv, KeyOK, ShownKeyIsStored
    <2> QED
      BY <2>1, <2>2
  <1> QED
    BY <1>1, DetailsInitially, DetailsStep, PTL DEF DetailsSpec

-----------------------------------------------------------------------------
(***************************************************************************)
(* The users overview.  Unless something went amiss, one request runs at a *)
(* time, and the draft and what was removed from it cover the file.        *)
(***************************************************************************)
IsSave(s) ==
  /\ s = [space |-> s.space, users |-> s.users, written |-> s.written, removed |-> s.removed, amiss |-> s.amiss]
  /\ s.space \in TeamSpaces /\ s.users \subseteq Logins /\ s.written \in BOOLEAN /\ s.amiss \in BOOLEAN

\* What a save would take out of the file was removed in the overview.
Covers(s) == usersFile[s.space].full \subseteq s.users \cup s.removed

OverviewTypes ==
  /\ usersFile \in [TeamSpaces -> File] /\ teamSpace \in TeamSpaces
  /\ amiss \in BOOLEAN /\ entryModal \in BOOLEAN /\ usersSaving \in BOOLEAN
  /\ usersDraft \subseteq Logins /\ usersLoading \in BOOLEAN /\ overviewOpen \in BOOLEAN
  /\ \A s \in teamSaves : IsSave(s) /\ (s.written = FALSE /\ s.amiss = FALSE => Covers(s))
  /\ \A l \in teamLoads : l.space \in TeamSpaces

OneRequest ==
  /\ \A l, k \in teamLoads : l = k
  /\ \A s, t \in teamSaves : s = t
  /\ teamLoads # {} => teamSaves = {} /\ (overviewOpen = TRUE => usersLoading = TRUE)
  /\ teamSaves # {} => usersSaving = TRUE

DialogOK == entryModal = TRUE =>
  /\ teamLoads = {} /\ teamSaves = {}
  /\ editorMode = "edit" /\ editingUsername # NoLogin => editingUsername \in usersDraft

DraftOK ==
  /\ overviewOpen = TRUE /\ usersLoading = FALSE => usersFile[teamSpace].full \subseteq usersDraft \cup removedHere
  /\ \A s \in teamSaves :
       /\ s.space = teamSpace /\ s.users \subseteq usersDraft \cup removedHere
       /\ s.written = TRUE => usersFile[teamSpace].full = s.users

OverviewInv == OverviewTypes /\ (amiss = FALSE => OneRequest /\ DialogOK /\ DraftOK)

\* A flag of a save is set.
LEMMA Flagged ==
  ASSUME NEW s, NEW space, NEW users, NEW written, NEW removed, NEW missing,
         s = [space |-> space, users |-> users, written |-> written, removed |-> removed, amiss |-> missing]
  PROVE  /\ \A yes : [s EXCEPT !.written = yes] =
              [space |-> space, users |-> users, written |-> yes, removed |-> removed, amiss |-> missing]
         /\ \A yes : [s EXCEPT !.amiss = yes] =
              [space |-> space, users |-> users, written |-> written, removed |-> removed, amiss |-> yes]
  <1>1. \A yes : [s EXCEPT !.written = yes] =
          [space |-> space, users |-> users, written |-> yes, removed |-> removed, amiss |-> missing]
    OBVIOUS
  <1>2. \A yes : [s EXCEPT !.amiss = yes] =
          [space |-> space, users |-> users, written |-> written, removed |-> removed, amiss |-> yes]
    OBVIOUS
  <1> QED
    BY <1>1, <1>2

LEMMA Marked ==
  ASSUME NEW s, IsSave(s)
  PROVE  /\ \E w : /\ w = [s EXCEPT !.written = TRUE] /\ IsSave(w) /\ w.written = TRUE
                   /\ w.space = s.space /\ w.users = s.users /\ w.removed = s.removed /\ w.amiss = s.amiss
         /\ \E a : /\ a = [s EXCEPT !.amiss = TRUE] /\ IsSave(a) /\ a.amiss = TRUE
                   /\ a.space = s.space /\ a.users = s.users /\ a.removed = s.removed /\ a.written = s.written
  <1>1. PICK space, users, written, removed, missing :
          /\ s = [space |-> space, users |-> users, written |-> written, removed |-> removed, amiss |-> missing]
          /\ space = s.space /\ users = s.users /\ written = s.written /\ removed = s.removed /\ missing = s.amiss
    BY DEF IsSave
  <1>2. PICK yes : yes = TRUE
    OBVIOUS
  <1>3. PICK w : w = [s EXCEPT !.written = yes]
    OBVIOUS
  <1>4. PICK a : a = [s EXCEPT !.amiss = yes]
    OBVIOUS
  <1>5. w = [space |-> space, users |-> users, written |-> yes, removed |-> removed, amiss |-> missing]
    BY <1>1, <1>3, Flagged
  <1>6. a = [space |-> space, users |-> users, written |-> written, removed |-> removed, amiss |-> yes]
    BY <1>1, <1>4, Flagged
  <1>7. IsSave(w) /\ w.written = TRUE /\ w.space = s.space /\ w.users = s.users /\ w.removed = s.removed /\ w.amiss = s.amiss
    BY <1>1, <1>2, <1>5 DEF IsSave
  <1>8. IsSave(a) /\ a.amiss = TRUE /\ a.space = s.space /\ a.users = s.users /\ a.removed = s.removed /\ a.written = s.written
    BY <1>1, <1>2, <1>6 DEF IsSave
  <1> QED
    BY <1>2, <1>3, <1>4, <1>7, <1>8

LEMMA OverviewInitially == OverviewInit => OverviewInv
  <1> SUFFICES ASSUME OverviewInit PROVE OverviewInv
    OBVIOUS
  <1>1. PICK f \in File : usersFile = [w \in TeamSpaces |-> IF w = teamSpace THEN f ELSE [full |-> Logins, bare |-> {}]]
    BY DEF OverviewInit
  <1>2. [full |-> Logins, bare |-> {}] \in File
    BY DEF File
  <1>3. usersFile \in [TeamSpaces -> File]
    BY <1>1, <1>2
  <1>4. teamSpace \in TeamSpaces
    BY OverviewAssumption DEF OverviewInit
  <1> QED
    BY <1>3, <1>4 DEF OverviewInit, OverviewInv, OverviewTypes, OneRequest, DialogOK, DraftOK

\* The dialogs and the draft: no request starts or ends.
LEMMA DraftStep ==
  ASSUME OverviewInv,
         \/ CloseUsersEditor \/ StartCreateUserEditor \/ CloseUserEntryModal \/ DeleteSelectedUsers
         \/ \E u \in Logins : StartEditUserEditor(u) \/ ApplyUserEditor(u) \/ RemoveUserDraft(u) \/ ToggleUserSelection(u)
         \/ \E checked \in BOOLEAN : SetUsersSelectionAll(checked)
         \/ \E us \in SUBSET Logins : HandleUsersImportSelect(us)
  PROVE  OverviewInv'
  <1>1. UNCHANGED <<usersFile, teamSpace, usersSaving, teamLoads, teamSaves, amiss>>
    BY DEF CloseUsersEditor, StartCreateUserEditor, CloseUserEntryModal, DeleteSelectedUsers, StartEditUserEditor,
           ApplyUserEditor, RemoveUserDraft, ToggleUserSelection, SetUsersSelectionAll, HandleUsersImportSelect, Drafted
  <1>2. /\ entryModal' \in BOOLEAN
        /\ (usersLoading' = usersLoading /\ overviewOpen' = overviewOpen) \/ (usersLoading' = FALSE /\ overviewOpen' = FALSE)
    BY DEF OverviewInv, OverviewTypes, CloseUsersEditor, StartCreateUserEditor, CloseUserEntryModal, DeleteSelectedUsers,
           StartEditUserEditor, ApplyUserEditor, RemoveUserDraft, ToggleUserSelection, SetUsersSelectionAll,
           HandleUsersImportSelect, Drafted, Forget
  <1>3. ASSUME amiss = FALSE, OneRequest, DialogOK
        PROVE  DialogOK' /\ usersDraft \cup removedHere \subseteq usersDraft' \cup removedHere'
    <2>1. InOverview /\ ~usersSaving => teamLoads = {} /\ teamSaves = {} /\ entryModal = FALSE
      BY <1>3 DEF InOverview, OneRequest, OverviewInv, OverviewTypes
    <2>2. CASE CloseUsersEditor \/ CloseUserEntryModal
      BY <2>2 DEF CloseUsersEditor, CloseUserEntryModal, DialogOK
    <2>3. CASE StartCreateUserEditor
      BY <1>1, <2>1, <2>3 DEF StartCreateUserEditor, DialogOK
    <2>4. CASE DeleteSelectedUsers
      BY <1>1, <2>1, <2>4 DEF DeleteSelectedUsers, Forget, DialogOK
    <2>5. ASSUME NEW u \in Logins, StartEditUserEditor(u)
          PROVE  DialogOK' /\ usersDraft \cup removedHere \subseteq usersDraft' \cup removedHere'
      BY <1>1, <2>1, <2>5 DEF StartEditUserEditor, DialogOK
    <2>6. ASSUME NEW u \in Logins, ApplyUserEditor(u)
          PROVE  DialogOK' /\ usersDraft \cup removedHere \subseteq usersDraft' \cup removedHere'
      <3>1. DialogOK'
        BY <2>6 DEF ApplyUserEditor, DialogOK
      <3>2. CASE editorMode = "edit" /\ editingUsername # NoLogin
        <4>1. editingUsername \in usersDraft
          BY <1>3, <2>6, <3>2 DEF ApplyUserEditor, DialogOK, OverviewInv, OverviewTypes
        <4>2. usersDraft' = (usersDraft \ {editingUsername}) \cup {u}
          BY <2>6, <3>2, <4>1 DEF ApplyUserEditor
        <4>3. removedHere' = IF u # editingUsername THEN (removedHere \cup {editingUsername}) \ {u} ELSE removedHere
          BY <2>6, <3>2 DEF ApplyUserEditor
        <4> QED
          BY <3>1, <4>2, <4>3
      <3>3. CASE ~(editorMode = "edit" /\ editingUsername # NoLogin)
        BY <2>6, <3>1, <3>3 DEF ApplyUserEditor
      <3> QED
        BY <3>2, <3>3
    <2>7. ASSUME NEW u \in Logins, RemoveUserDraft(u)
          PROVE  DialogOK' /\ usersDraft \cup removedHere \subseteq usersDraft' \cup removedHere'
      BY <1>1, <2>1, <2>7 DEF RemoveUserDraft, Forget, DialogOK
    <2>8. CASE (\E u \in Logins : ToggleUserSelection(u)) \/ \E checked \in BOOLEAN : SetUsersSelectionAll(checked)
      BY <1>1, <1>3, <2>8 DEF ToggleUserSelection, SetUsersSelectionAll, DialogOK
    <2>9. ASSUME NEW us \in SUBSET Logins, HandleUsersImportSelect(us)
          PROVE  DialogOK' /\ usersDraft \cup removedHere \subseteq usersDraft' \cup removedHere'
      BY <2>9 DEF HandleUsersImportSelect, InOverview, DialogOK
    <2> QED
      BY <2>2, <2>3, <2>4, <2>5, <2>6, <2>7, <2>8, <2>9
  <1>6. usersDraft' \subseteq Logins
    BY DEF OverviewInv, OverviewTypes, CloseUsersEditor, StartCreateUserEditor, CloseUserEntryModal, DeleteSelectedUsers,
           StartEditUserEditor, ApplyUserEditor, RemoveUserDraft, ToggleUserSelection, SetUsersSelectionAll,
           HandleUsersImportSelect, Drafted, Forget
  <1>4. OverviewTypes'
    BY <1>1, <1>2, <1>6 DEF OverviewInv, OverviewTypes, Covers
  <1>5. amiss = FALSE => OneRequest' /\ DraftOK'
    BY <1>1, <1>2, <1>3 DEF OverviewInv, OneRequest, DraftOK
  <1> QED
    BY <1>1, <1>3, <1>4, <1>5 DEF OverviewInv

\* Requests of the page and what others do.
LEMMA RequestsStep ==
  ASSUME OverviewInv,
         \/ SaveWorkspaceUsers \/ \E a \in {"overview", "add", "import"} : OpenUsersEditor(a)
         \/ \E w \in TeamSpaces : SwitchTeamSpace(w) \/ WrittenElsewhere(w)
         \/ \E l \in teamLoads : UsersLoaded(l)
  PROVE  OverviewInv'
  <1>1. OverviewTypes
    BY DEF OverviewInv
  <1>2. CASE SaveWorkspaceUsers
    <2> DEFINE s == [space |-> teamSpace, users |-> usersDraft, written |-> FALSE, removed |-> removedHere, amiss |-> amiss]
    <2>1. teamSaves' = teamSaves \cup {s}
      BY <1>2 DEF SaveWorkspaceUsers
    <2>2. /\ s = [space |-> s.space, users |-> s.users, written |-> s.written, removed |-> s.removed, amiss |-> s.amiss]
          /\ s.space = teamSpace /\ s.users = usersDraft /\ s.removed = removedHere /\ s.written = FALSE /\ s.amiss = amiss
      OBVIOUS
    <2> HIDE DEF s
    <2>3. UNCHANGED <<usersFile, teamSpace, overviewOpen, usersLoading, usersDraft, editorMode, editingUsername, entryModal,
                      teamLoads, removedHere, amiss>>
          /\ overviewOpen = TRUE /\ usersLoading = FALSE /\ entryModal = FALSE /\ usersSaving = FALSE /\ usersSaving' = TRUE
      BY <1>1, <1>2 DEF SaveWorkspaceUsers, draftState, InOverview, OverviewTypes
    <2>4. amiss = FALSE => teamSaves = {} /\ usersFile[teamSpace].full \subseteq usersDraft \cup removedHere
      BY <2>3 DEF OverviewInv, OneRequest, DraftOK
    <2>5. IsSave(s) /\ (s.amiss = FALSE => Covers(s))
      BY <1>1, <2>2, <2>4 DEF IsSave, Covers, OverviewTypes
    <2>6. OverviewTypes'
      BY <1>1, <2>1, <2>3, <2>5 DEF OverviewTypes, Covers
    <2>7. amiss = FALSE => OneRequest' /\ DialogOK' /\ DraftOK'
      BY <2>1, <2>2, <2>3, <2>4 DEF OverviewInv, OneRequest, DialogOK, DraftOK
    <2> QED
      BY <2>3, <2>6, <2>7 DEF OverviewInv
  <1>3. ASSUME NEW a \in {"overview", "add", "import"}, OpenUsersEditor(a) PROVE OverviewInv'
    <2>1. UNCHANGED <<usersFile, teamSpace, teamSaves, usersDraft>> /\ usersLoading' = TRUE /\ entryModal' = FALSE /\ usersSaving' = FALSE
          /\ overviewOpen' \in BOOLEAN /\ amiss' \in BOOLEAN
      BY <1>3 DEF OpenUsersEditor, Running
    <2>5. \A l \in teamLoads' : l.space \in TeamSpaces
      BY <1>1, <1>3 DEF OpenUsersEditor, OverviewTypes
    <2>2. OverviewTypes'
      BY <1>1, <2>1, <2>5 DEF OverviewTypes, Covers
    <2>3. amiss' = FALSE => teamLoads = {} /\ teamSaves = {}
      BY <1>3 DEF OpenUsersEditor, Running
    <2>4. amiss' = FALSE => OneRequest' /\ DialogOK' /\ DraftOK'
      BY <1>3, <2>1, <2>3 DEF OpenUsersEditor, OneRequest, DialogOK, DraftOK
    <2> QED
      BY <2>2, <2>4 DEF OverviewInv
  <1>4. ASSUME NEW w \in TeamSpaces, SwitchTeamSpace(w) PROVE OverviewInv'
    BY <1>1, <1>4 DEF SwitchTeamSpace, draftState, OverviewInv, OverviewTypes, Covers
  <1>5. ASSUME NEW w \in TeamSpaces, WrittenElsewhere(w) PROVE OverviewInv'
    <2>1. \A t \in teamSaves' : IsSave(t) /\ t.amiss = TRUE
      <3> TAKE t \in teamSaves'
      <3>1. PICK r \in teamSaves : t = [r EXCEPT !.amiss = TRUE]
        BY <1>5 DEF WrittenElsewhere
      <3>2. IsSave(r)
        BY <1>1 DEF OverviewTypes
      <3>3. PICK a : a = [r EXCEPT !.amiss = TRUE] /\ IsSave(a) /\ a.amiss = TRUE
        BY <3>2, Marked
      <3>4. t = a
        BY <3>1, <3>3, Zenon
      <3> QED
        BY <3>3, <3>4
    <2>2. usersFile' \in [TeamSpaces -> File]
      <3>0. PICK d : d = usersFile[w]
        OBVIOUS
      <3>1. PICK u \in Logins, f \in {"full", "bare"} :
              d = usersFile[w] /\ usersFile' = [usersFile EXCEPT ![w] = [d EXCEPT ![f] = d[f] \cup {u}]]
        BY <1>5, <3>0 DEF WrittenElsewhere
      <3>2. PICK full \in SUBSET Logins, bare \in SUBSET Logins : d = [full |-> full, bare |-> bare]
        BY <1>1, <3>1 DEF OverviewTypes, File
      <3>3. CASE f = "full"
        <4>1. PICK e : e = [d EXCEPT !["full"] = d["full"] \cup {u}]
          OBVIOUS
        <4>2. e = [full |-> full \cup {u}, bare |-> bare]
          BY <3>2, <4>1
        <4>3. e \in File
          BY <4>2 DEF File
        <4> QED
          BY <1>1, <3>1, <3>3, <4>1, <4>3 DEF OverviewTypes
      <3>4. CASE f = "bare"
        <4>1. PICK e : e = [d EXCEPT !["bare"] = d["bare"] \cup {u}]
          OBVIOUS
        <4>2. e = [full |-> full, bare |-> bare \cup {u}]
          BY <3>2, <4>1
        <4>3. e \in File
          BY <4>2 DEF File
        <4> QED
          BY <1>1, <3>1, <3>4, <4>1, <4>3 DEF OverviewTypes
      <3> QED
        BY <3>3, <3>4
    <2> QED
      BY <1>1, <1>5, <2>1, <2>2 DEF WrittenElsewhere, draftState, OverviewInv, OverviewTypes
  <1>6. ASSUME NEW l \in teamLoads, UsersLoaded(l) PROVE OverviewInv'
    <2>1. UNCHANGED <<usersFile, teamSpace, overviewOpen, usersSaving, teamSaves>>
          /\ usersLoading' = FALSE /\ entryModal' \in BOOLEAN /\ amiss' \in BOOLEAN /\ teamLoads' = teamLoads \ {l}
      BY <1>1, <1>6 DEF UsersLoaded, OverviewTypes
    <2>4. usersDraft' \subseteq Logins
      BY <1>1, <1>6 DEF UsersLoaded, Extracted, OverviewTypes, File
    <2>2. OverviewTypes'
      BY <1>1, <2>1, <2>4 DEF OverviewTypes, Covers
    <2>3. ASSUME amiss' = FALSE PROVE OneRequest' /\ DialogOK' /\ DraftOK'
      <3>1. amiss = FALSE /\ l.space = teamSpace /\ usersDraft' = usersFile[teamSpace].full
        BY <1>1, <1>6, <2>3 DEF UsersLoaded, Extracted, OverviewTypes
      <3>2. teamLoads' = {} /\ teamSaves = {} /\ entryModal = FALSE
        BY <1>1, <2>1, <3>1 DEF OverviewInv, OneRequest, DialogOK, OverviewTypes
      <3>3. entryModal' = TRUE => editorMode' = "create"
        BY <1>6, <2>3, <3>2 DEF UsersLoaded
      <3> QED
        BY <2>1, <3>1, <3>2, <3>3 DEF OneRequest, DialogOK, DraftOK
    <2> QED
      BY <2>2, <2>3 DEF OverviewInv
  <1> QED
    BY <1>2, <1>3, <1>4, <1>5, <1>6

\* A save reaches the API, and is answered.
LEMMA WrittenStep ==
  ASSUME OverviewInv, NEW s \in teamSaves, SaveWritten(s)
  PROVE  OverviewInv'
  <1>1. OverviewTypes /\ IsSave(s)
    BY DEF OverviewInv, OverviewTypes
  <1>2. PICK w : /\ w = [s EXCEPT !.written = TRUE] /\ IsSave(w) /\ w.written = TRUE
                 /\ w.space = s.space /\ w.users = s.users /\ w.removed = s.removed /\ w.amiss = s.amiss
    BY <1>1, Marked
  <1>3. \A t \in teamSaves' : t = w \/ (IsSave(t) /\ t.amiss = TRUE)
    <2> SUFFICES ASSUME NEW t \in teamSaves', t # w PROVE IsSave(t) /\ t.amiss = TRUE
      OBVIOUS
    <2>1. PICK r \in teamSaves : t = [r EXCEPT !.amiss = TRUE]
      BY <1>2, Zenon DEF SaveWritten
    <2>2. IsSave(r)
      BY <1>1 DEF OverviewTypes
    <2>3. PICK a : a = [r EXCEPT !.amiss = TRUE] /\ IsSave(a) /\ a.amiss = TRUE
      BY <2>2, Marked
    <2>4. t = a
      BY <2>1, <2>3, Zenon
    <2> QED
      BY <2>3, <2>4
  <1>4. UNCHANGED <<teamSpace, overviewOpen, usersLoading, usersSaving, usersDraft, editorMode, editingUsername, entryModal,
                    teamLoads, removedHere, amiss>>
    BY DEF SaveWritten, draftState
  <1>5. OverviewTypes'
    <2>1. [full |-> s.users, bare |-> {}] \in File
      BY <1>1 DEF IsSave, File
    <2>2. usersFile' \in [TeamSpaces -> File]
      BY <1>1, <2>1 DEF SaveWritten, OverviewTypes
    <2> QED
      BY <1>1, <1>2, <1>3, <1>4, <2>2 DEF OverviewTypes
  <1>6. ASSUME amiss = FALSE PROVE OneRequest' /\ DialogOK' /\ DraftOK'
    <2>1. teamSaves = {s} /\ s.space = teamSpace /\ s.users \subseteq usersDraft \cup removedHere
          /\ teamLoads = {} /\ usersSaving = TRUE /\ entryModal # TRUE
      BY <1>6 DEF OverviewInv, OneRequest, DraftOK, DialogOK
    <2>2. teamSaves' = {w}
      BY <1>2, <2>1 DEF SaveWritten
    <2>3. usersFile'[teamSpace].full = s.users
      BY <1>1, <2>1 DEF SaveWritten, OverviewTypes
    <2> QED
      BY <1>2, <1>4, <2>1, <2>2, <2>3 DEF OneRequest, DialogOK, DraftOK
  <1> QED
    BY <1>4, <1>5, <1>6 DEF OverviewInv

LEMMA AnsweredStep ==
  ASSUME OverviewInv, NEW s \in teamSaves, SaveAnswered(s)
  PROVE  OverviewInv'
  <1>1. OverviewTypes /\ IsSave(s) /\ s.written \in BOOLEAN
    BY DEF OverviewInv, OverviewTypes, IsSave
  <1>2. UNCHANGED <<usersFile, teamSpace, overviewOpen, usersLoading, editorMode, editingUsername, entryModal, teamLoads>>
        /\ teamSaves' = teamSaves \ {s} /\ usersSaving' = FALSE /\ amiss' \in BOOLEAN
    BY <1>1 DEF SaveAnswered, OverviewTypes
  <1>5. usersDraft' \subseteq Logins
    BY <1>1 DEF SaveAnswered, OverviewTypes, IsSave
  <1>3. OverviewTypes'
    BY <1>1, <1>2, <1>5 DEF OverviewTypes, Covers
  <1>4. ASSUME amiss' = FALSE PROVE OneRequest' /\ DialogOK' /\ DraftOK'
    <2>1. amiss = FALSE
      BY <1>1, <1>4 DEF SaveAnswered, OverviewTypes
    <2>2. teamSaves' = {} /\ teamLoads = {} /\ entryModal # TRUE
      BY <1>2, <2>1 DEF OverviewInv, OneRequest, DialogOK
    <2>3. overviewOpen = TRUE /\ usersLoading = FALSE => usersFile[teamSpace].full \subseteq usersDraft' \cup removedHere'
      <3>1. CASE s.written = TRUE
        <4>1. usersDraft' = s.users /\ usersFile[teamSpace].full = s.users
          BY <2>1, <3>1 DEF SaveAnswered, OverviewInv, DraftOK
        <4> QED
          BY <4>1
      <3>2. CASE s.written = FALSE
        BY <2>1, <3>2 DEF SaveAnswered, OverviewInv, DraftOK
      <3> QED
        BY <1>1, <3>1, <3>2
    <2> QED
      BY <1>2, <2>2, <2>3 DEF OneRequest, DialogOK, DraftOK
  <1> QED
    BY <1>3, <1>4 DEF OverviewInv

LEMMA OverviewStep == OverviewInv /\ [OverviewNext]_overviewVars => OverviewInv'
  <1> SUFFICES ASSUME OverviewInv, [OverviewNext]_overviewVars PROVE OverviewInv'
    OBVIOUS
  <1>1. CASE UNCHANGED overviewVars
    BY <1>1 DEF overviewVars, draftState, OverviewInv, OverviewTypes, OneRequest, DialogOK, DraftOK, Covers
  <1>2. CASE \/ CloseUsersEditor \/ StartCreateUserEditor \/ CloseUserEntryModal \/ DeleteSelectedUsers
             \/ \E u \in Logins : StartEditUserEditor(u) \/ ApplyUserEditor(u) \/ RemoveUserDraft(u) \/ ToggleUserSelection(u)
             \/ \E checked \in BOOLEAN : SetUsersSelectionAll(checked)
             \/ \E us \in SUBSET Logins : HandleUsersImportSelect(us)
    BY <1>2, DraftStep
  <1>3. CASE \/ SaveWorkspaceUsers \/ \E a \in {"overview", "add", "import"} : OpenUsersEditor(a)
             \/ \E w \in TeamSpaces : SwitchTeamSpace(w) \/ WrittenElsewhere(w)
             \/ \E l \in teamLoads : UsersLoaded(l)
    BY <1>3, RequestsStep
  <1>4. ASSUME NEW s \in teamSaves, SaveWritten(s) \/ SaveAnswered(s) PROVE OverviewInv'
    BY <1>4, WrittenStep, AnsweredStep
  <1> QED
    BY <1>1, <1>2, <1>3, <1>4 DEF OverviewNext

\* "Save users" takes a user out of group_vars/all.yml only if the user was
\* removed, renamed or replaced in the overview, or if the overview never read
\* it (saveWorkspaceUsers writes the whole map), whatever the number of
\* workspaces, users, loads and saves.
THEOREM SaveKeepsOtherUsers == OverviewSpec => SavedUsersKept
  <1>1. OverviewInv /\ [OverviewNext]_overviewVars =>
          [\A s \in teamSaves : ~s.written /\ [s EXCEPT !.written = TRUE] \in teamSaves' /\ usersFile' # usersFile
             => LoginsIn(usersFile[s.space]) \ LoginsIn(usersFile'[s.space])
                  \subseteq usersFile[s.space].bare \cup s.removed
                \/ s.amiss]_overviewVars
    <2> SUFFICES ASSUME OverviewInv, OverviewNext, NEW s \in teamSaves, ~s.written, ~s.amiss,
                        [s EXCEPT !.written = TRUE] \in teamSaves', usersFile' # usersFile
                 PROVE  LoginsIn(usersFile[s.space]) \ LoginsIn(usersFile'[s.space]) \subseteq usersFile[s.space].bare \cup s.removed
      OBVIOUS
    <2>1. IsSave(s) /\ s.written = FALSE /\ s.amiss = FALSE /\ Covers(s) /\ OverviewTypes
      BY DEF OverviewInv, OverviewTypes, IsSave
    <2>0. PICK v : /\ v = [s EXCEPT !.written = TRUE] /\ IsSave(v) /\ v.written = TRUE
                   /\ v.space = s.space /\ v.users = s.users /\ v.removed = s.removed /\ v.amiss = s.amiss
      BY <2>1, Marked
    <2>2. v.amiss = FALSE /\ v \in teamSaves' /\ v.users = s.users /\ v.space = s.space
      BY <2>0, <2>1, Zenon
    <2>3. ASSUME NEW w \in TeamSpaces, WrittenElsewhere(w) PROVE FALSE
      <3>1. PICK r \in teamSaves : v = [r EXCEPT !.amiss = TRUE]
        BY <2>2, <2>3, Zenon DEF WrittenElsewhere
      <3>2. PICK a : a = [r EXCEPT !.amiss = TRUE] /\ a.amiss = TRUE
        BY <2>1, Marked DEF OverviewTypes
      <3> QED
        BY <2>2, <3>1, <3>2
    <2>4. ASSUME NEW t \in teamSaves, SaveWritten(t)
          PROVE  LoginsIn(usersFile[s.space]) \ LoginsIn(usersFile'[s.space]) \subseteq usersFile[s.space].bare \cup s.removed
      <3>1. IsSave(t)
        BY <2>1 DEF OverviewTypes
      <3>2. PICK w : /\ w = [t EXCEPT !.written = TRUE] /\ IsSave(w) /\ w.written = TRUE
                     /\ w.space = t.space /\ w.users = t.users /\ w.removed = t.removed /\ w.amiss = t.amiss
        BY <3>1, Marked
      <3>3. v = w
        <4> SUFFICES ASSUME v # w PROVE FALSE
          OBVIOUS
        <4>1. PICK r \in teamSaves : v = [r EXCEPT !.amiss = TRUE]
          BY <2>2, <2>4, <3>2, Zenon DEF SaveWritten
        <4>2. PICK a : a = [r EXCEPT !.amiss = TRUE] /\ a.amiss = TRUE
          BY <2>1, Marked DEF OverviewTypes
        <4> QED
          BY <2>2, <4>1, <4>2
      <3>4. usersFile'[s.space].full = s.users /\ s.space \in TeamSpaces
        BY <2>1, <2>2, <2>4, <3>1, <3>2, <3>3 DEF SaveWritten, OverviewTypes, IsSave
      <3> QED
        BY <2>1, <3>4 DEF Covers, LoginsIn
    <2>5. \/ \E w \in TeamSpaces : WrittenElsewhere(w)
          \/ \E t \in teamSaves : SaveWritten(t)
      BY DEF OverviewNext, OpenUsersEditor, UsersLoaded, SaveAnswered, SwitchTeamSpace, StartEditUserEditor, ApplyUserEditor,
             RemoveUserDraft, ToggleUserSelection, SetUsersSelectionAll, HandleUsersImportSelect, CloseUsersEditor,
             StartCreateUserEditor, CloseUserEntryModal, DeleteSelectedUsers, SaveWorkspaceUsers, Drafted
    <2> QED
      BY <2>3, <2>4, <2>5
  <1> QED
    BY <1>1, OverviewInitially, OverviewStep, PTL DEF OverviewSpec, SavedUsersKept

-----------------------------------------------------------------------------
(*************************************************************************)
(* The domains.  Where no two requests of a workspace overlapped, at most  *)
(* one of them is about the catalog, every domain of the file is on the    *)
(* page with its status, and what the request will write leads on from it. *)
(*************************************************************************)

\* A catalog has what the file has; it may have more.
FollowsIn(catalog, file) == \A d \in Domain : file[d] # "absent" => catalog[d] = file[d]

\* A catalog that may take the place of the file.
LeadsOn(catalog, file) ==
  \A d \in Domain : "absent" \notin {file[d], catalog[d]} => catalog[d] \in Lifecycle[file[d]] \cup {file[d]}

\* What a request of the open workspace was asked from still holds, and what
\* its answer will put on the page is in the file.
Sound(op, file) ==
  /\ op.kind = "reserve" => FollowsIn(op.entries, file) /\ op.result = "sent"
  /\ op.kind = "persist" /\ op.result = "sent" => LeadsOn(op.entries, file)
  /\ op.kind = "persist" /\ op.result = "done" => op.entries = file
  /\ op.kind = "status" => domainEntries[op.name] # "absent"
  /\ op.kind = "status" /\ op.result = "done" =>
       /\ file[op.name] = op.next
       /\ \A d \in Domain \ {op.name} : file[d] # "absent" => domainEntries[d] = file[d]

\* A write of the whole list that is done is what the file has.
Wrote(op, file) == op.kind = "persist" /\ op.result = "done" => op.entries = file

OneCatalogRequest ==
  /\ \A i, j \in OpSlot : catalogOps[i].kind # "none" /\ catalogOps[j].kind # "none" => i = j
  /\ \A i \in OpSlot : catalogOps[i].kind # "none" =>
       settingsLoad = "idle" /\ catalogOps[i].site = openSite /\ Wrote(catalogOps[i], domainFile[openSite].catalog)

RequestsSound ==
  \A i \in OpSlot : catalogOps[i].kind # "none" => Sound(catalogOps[i], domainFile[openSite].catalog)

PageFollows ==
  settingsLoad = "idle" /\ (\A i \in OpSlot : catalogOps[i].kind # "none" => catalogOps[i].result # "done")
    => FollowsIn(domainEntries, domainFile[openSite].catalog)

DomainsTypes ==
  /\ domainFile \in [Sites -> [catalog : Catalogs, primary : MaybeDomain]]
  /\ openSite \in Sites /\ domainEntries \in Catalogs /\ primaryDraft \in MaybeDomain
  /\ catalogOps \in [OpSlot -> CatalogOp]
  /\ \A i \in OpSlot : catalogOps[i].kind = "status" => catalogOps[i].name \in Domain

\* What is still asked of another workspace is known to have overlapped.
LeftBehind ==
  \A i \in OpSlot : catalogOps[i].kind # "none" => catalogOps[i].site \in crossed \cup {openSite}

DomainsInv ==
  /\ DomainsTypes /\ LeftBehind
  /\ openSite \notin crossed => OneCatalogRequest
  /\ openSite \notin crossed \cup outdated => RequestsSound /\ PageFollows

\* What reading and writing does to a catalog: what is listed keeps its status,
\* what is added is active.
LEMMA ParsedKeeps ==
  ASSUME NEW catalog \in Catalogs, NEW primary
  PROVE  /\ Parsed(catalog, primary) \in Catalogs
         /\ \A d \in Domain : catalog[d] # "absent" => Parsed(catalog, primary)[d] = catalog[d]
         /\ \A d \in Domain : catalog[d] = "absent" => Parsed(catalog, primary)[d] \in {"active", "absent"}
  BY DEF Parsed, Catalogs, OrderStatus

LEMMA FollowsLeadsOn ==
  ASSUME NEW catalog, NEW file, FollowsIn(catalog, file)
  PROVE  LeadsOn(catalog, file)
  BY DEF FollowsIn, LeadsOn

LEMMA ParsedFollows ==
  ASSUME NEW catalog \in Catalogs, NEW primary, NEW file, FollowsIn(catalog, file)
  PROVE  FollowsIn(Parsed(catalog, primary), file)
  BY ParsedKeeps DEF FollowsIn

LEMMA ReadFollows ==
  ASSUME NEW file \in Catalogs, NEW primary
  PROVE  FollowsIn(Parsed(file, primary), file)
  BY ParsedKeeps DEF FollowsIn

LEMMA ReservedFollows ==
  ASSUME NEW catalog \in Catalogs, NEW file, FollowsIn(catalog, file), NEW e \in Domain, catalog[e] = "absent"
  PROVE  [catalog EXCEPT ![e] = "reserved"] \in Catalogs /\ FollowsIn([catalog EXCEPT ![e] = "reserved"], file)
  BY DEF FollowsIn, Catalogs, OrderStatus

\* A domain that is taken off the list was disabled, and one that the list
\* implies is put back as an active one.
LEMMA RemovedLeadsOn ==
  ASSUME NEW catalog \in Catalogs, NEW file, FollowsIn(catalog, file), NEW e \in Domain, catalog[e] = "disabled", NEW primary
  PROVE  LeadsOn(Parsed([catalog EXCEPT ![e] = "absent"], primary), file)
  <1> DEFINE rest == [catalog EXCEPT ![e] = "absent"]
  <1>1. rest \in Catalogs /\ rest[e] = "absent" /\ \A d \in Domain \ {e} : rest[d] = catalog[d]
    BY DEF Catalogs
  <1> HIDE DEF rest
  <1>2. SUFFICES ASSUME NEW d \in Domain, file[d] # "absent", Parsed(rest, primary)[d] # "absent"
                 PROVE  Parsed(rest, primary)[d] \in Lifecycle[file[d]] \cup {file[d]}
    BY DEF LeadsOn, rest
  <1>3. catalog[d] = file[d]
    BY <1>2 DEF FollowsIn
  <1>4. CASE d = e
    <2>1. Parsed(rest, primary)[d] = "active"
      BY <1>1, <1>2, <1>4, ParsedKeeps
    <2>2. Lifecycle["disabled"] = {"active"}
      BY DEF Lifecycle
    <2> QED
      BY <1>3, <1>4, <2>1, <2>2
  <1>5. CASE d # e
    <2>1. rest[d] = file[d]
      BY <1>1, <1>3, <1>5
    <2> QED
      BY <1>1, <1>2, <2>1, ParsedKeeps
  <1> QED
    BY <1>4, <1>5

LEMMA RequestTypes ==
  /\ NoCatalogOp \in CatalogOp /\ NoCatalogOp.kind = "none"
  /\ \A value, catalog : Selectable(value, catalog) \in MaybeDomain
  <1>1. \A value, catalog : Selectable(value, catalog) \in MaybeDomain
    BY DEF Selectable, Listed, MaybeDomain
  <1>2. (CHOOSE s \in Sites : TRUE) \in Sites
    BY DomainsAssumption
  <1>3. [d \in Domain |-> "absent"] \in Catalogs
    BY DEF Catalogs
  <1> QED
    BY <1>1, <1>2, <1>3 DEF NoCatalogOp, CatalogOp, MaybeDomain, OrderStatus

LEMMA RewriteTypes ==
  ASSUME NEW site \in Sites, NEW entries \in Catalogs, NEW primary
  PROVE  LET op == Rewrite(site, entries, primary) IN
         /\ op \in CatalogOp /\ op.kind = "persist" /\ op.site = site /\ op.result = "sent"
         /\ op.entries = Parsed(entries, primary)
  <1>1. Parsed(entries, primary) \in Catalogs /\ Selectable(primary, Parsed(entries, primary)) \in MaybeDomain
    BY RequestTypes, ParsedKeeps
  <1> QED
    BY <1>1 DEF Rewrite, CatalogOp, MaybeDomain, OrderStatus

\* The answer that is put into a request.
LEMMA ResultPut ==
  ASSUME NEW op \in CatalogOp, NEW r \in {"sent", "done", "failed"}
  PROVE  /\ [op EXCEPT !.result = r] \in CatalogOp
         /\ [op EXCEPT !.result = r].result = r
         /\ [op EXCEPT !.result = r].kind = op.kind /\ [op EXCEPT !.result = r].site = op.site
         /\ [op EXCEPT !.result = r].entries = op.entries
         /\ [op EXCEPT !.result = r].name = op.name /\ [op EXCEPT !.result = r].next = op.next
  BY DEF CatalogOp

\* A move of the user while something is in flight counts as an overlap.
LEMMA MoveCrosses ==
  ASSUME Move
  PROVE  /\ crossed \subseteq crossed' /\ UNCHANGED outdated
         /\ \A j \in OpSlot : catalogOps[j].kind # "none" => catalogOps[j].site \in crossed'
         /\ openSite \notin crossed' => settingsLoad = "idle" /\ \A j \in OpSlot : catalogOps[j].kind = "none"
  <1>1. \A j \in OpSlot : catalogOps[j].kind # "none" => catalogOps[j].site \in SitesInFlight
    BY DEF SitesInFlight, OpsInFlight
  <1> QED
    BY <1>1 DEF Move, Overlapped

\* A request of the user.
LEMMA RequestSent ==
  ASSUME DomainsInv, Move, NEW i \in OpSlot, NEW op \in CatalogOp, Start(i, op),
         op.kind \in {"reserve", "persist", "status"}, op.site = openSite, op.result = "sent",
         op.kind = "status" => op.name \in Domain,
         UNCHANGED <<domainFile, openSite, domainEntries, settingsLoad>>, primaryDraft' \in MaybeDomain,
         openSite \notin crossed /\ FollowsIn(domainEntries, domainFile[openSite].catalog)
           => Sound(op, domainFile[openSite].catalog)
  PROVE  DomainsInv'
  <1>1. DomainsTypes /\ LeftBehind /\ (openSite \notin crossed \cup outdated => PageFollows)
    BY DEF DomainsInv
  <1>2. /\ catalogOps' \in [OpSlot -> CatalogOp] /\ catalogOps'[i] = op
        /\ \A j \in OpSlot \ {i} : catalogOps'[j] = catalogOps[j]
    BY <1>1 DEF Start, DomainsTypes
  <1>3. DomainsTypes'
    BY <1>1, <1>2 DEF DomainsTypes
  <1>4. LeftBehind'
    BY <1>1, <1>2, MoveCrosses DEF LeftBehind
  <1>5. ASSUME openSite \notin crossed'
        PROVE  OneCatalogRequest' /\ (openSite \notin outdated => RequestsSound' /\ PageFollows')
    <2>1. settingsLoad = "idle" /\ openSite \notin crossed /\ \A j \in OpSlot : catalogOps[j].kind = "none"
      BY <1>5, MoveCrosses
    <2>4. \A j \in OpSlot : catalogOps'[j].kind # "none" => j = i
      BY <1>2, <2>1
    <2>6. OneCatalogRequest'
      BY <1>2, <2>1, <2>4 DEF OneCatalogRequest, Wrote
    <2>7. ASSUME openSite \notin outdated PROVE RequestsSound' /\ PageFollows'
      <3>2. FollowsIn(domainEntries, domainFile[openSite].catalog)
        BY <1>1, <2>1, <2>7 DEF PageFollows
      <3>3. Sound(op, domainFile[openSite].catalog)
        BY <2>1, <3>2
      <3>5. Sound(op, domainFile[openSite].catalog)'
        BY <3>3 DEF Sound
      <3> QED
        BY <1>2, <2>1, <3>2, <2>4, <3>5 DEF RequestsSound, PageFollows
    <2> QED
      BY <2>6, <2>7
  <1> QED
    BY <1>3, <1>4, <1>5, MoveCrosses DEF DomainsInv

\* A move that asks the API for nothing about the catalog.
LEMMA MovedOnly ==
  ASSUME DomainsInv, Move,
         UNCHANGED <<domainFile, openSite, domainEntries, settingsLoad, catalogOps>>, primaryDraft' \in MaybeDomain
  PROVE  DomainsInv'
  <1>1. DomainsTypes'
    BY DEF DomainsInv, DomainsTypes
  <1>2. LeftBehind'
    BY MoveCrosses DEF LeftBehind
  <1>3. /\ openSite \notin crossed' => OneCatalogRequest'
        /\ openSite \notin crossed' \cup outdated => RequestsSound' /\ PageFollows'
    BY MoveCrosses DEF DomainsInv, OneCatalogRequest, RequestsSound, PageFollows
  <1> QED
    BY <1>1, <1>2, <1>3, MoveCrosses DEF DomainsInv

LEMMA DomainsInitially == DomainsInit => DomainsInv
  <1> SUFFICES ASSUME DomainsInit PROVE DomainsInv
    OBVIOUS
  <1>1. HomeSite \in Sites /\ OwnApex \in Domain
    BY DomainsAssumption DEF Domain, HomeSite, OwnApex
  <1>2. PICK status \in {"reserved", "active", "disabled"}, sub \in {"absent", "reserved"}, primary \in {Localhost, OwnApex} :
          domainFile = [s \in Sites |-> IF s = HomeSite THEN Listing(status, sub, primary)
                                        ELSE Listing("absent", "absent", Localhost)]
    BY Zenon DEF DomainsInit
  <1>3. ASSUME NEW st \in {"reserved", "active", "disabled", "absent"}, NEW su \in {"absent", "reserved"},
               NEW pr \in {Localhost, OwnApex}
        PROVE  Listing(st, su, pr) \in [catalog : Catalogs, primary : MaybeDomain]
    BY <1>1 DEF Listing, Catalogs, OrderStatus, MaybeDomain, Domain
  <1>4. domainFile \in [Sites -> [catalog : Catalogs, primary : MaybeDomain]]
    BY <1>2, <1>3
  <1>5. /\ openSite = HomeSite /\ domainEntries = domainFile[HomeSite].catalog /\ primaryDraft = domainFile[HomeSite].primary
        /\ settingsLoad = "idle" /\ catalogOps = [i \in OpSlot |-> NoCatalogOp]
    BY DEF DomainsInit
  <1>6. DomainsTypes
    BY <1>1, <1>4, <1>5, RequestTypes DEF DomainsTypes
  <1>7. \A i \in OpSlot : catalogOps[i].kind = "none"
    BY <1>5, RequestTypes
  <1>8. LeftBehind /\ OneCatalogRequest /\ RequestsSound /\ PageFollows
    BY <1>5, <1>7 DEF LeftBehind, OneCatalogRequest, RequestsSound, PageFollows, FollowsIn
  <1> QED
    BY <1>6, <1>8 DEF DomainsInv

\* What the user does.
LEMMA UserStep ==
  ASSUME DomainsInv,
         \/ \E s \in Sites : OpenSite(s)
         \/ \E d \in Domain : \/ SelectPrimaryDomain(d) \/ RemoveDomain(d) \/ ReserveDomain(d)
                              \/ \E device \in BOOLEAN : AddDomainFromPopup(d, device)
                              \/ \E next \in OrderStatus : TransitionStatus(d, next)
         \/ DetachServerDomain
  PROVE  DomainsInv'
  <1>1. DomainsTypes
    BY DEF DomainsInv
  <1> DEFINE file == domainFile[openSite].catalog
  <1>2. file \in Catalogs /\ openSite \in Sites /\ domainEntries \in Catalogs
    BY <1>1 DEF DomainsTypes
  <1>3. ASSUME NEW s \in Sites, OpenSite(s) PROVE DomainsInv'
    <2>1. openSite' = s /\ settingsLoad' = "asked" /\ UNCHANGED <<domainFile, domainEntries, catalogOps>>
          /\ primaryDraft' = NoDomain
      BY <1>3 DEF OpenSite, ServerUnchanged
    <2>2. DomainsTypes'
      BY <1>1, <2>1 DEF DomainsTypes, MaybeDomain
    <2>3. \A j \in OpSlot : catalogOps[j].kind # "none" => catalogOps[j].site \in SitesInFlight
      BY DEF SitesInFlight, OpsInFlight
    <2>4. /\ \A j \in OpSlot : catalogOps[j].kind # "none" => catalogOps[j].site \in crossed'
          /\ s \notin crossed' => \A j \in OpSlot : catalogOps[j].kind = "none"
      BY <1>3, <2>3 DEF OpenSite
    <2> QED
      BY <2>1, <2>2, <2>4 DEF DomainsInv, LeftBehind, OneCatalogRequest, RequestsSound, PageFollows
  <1>4. ASSUME NEW d \in Domain, SelectPrimaryDomain(d) PROVE DomainsInv'
    <2>1. PICK i \in OpSlot : Start(i, Rewrite(openSite, domainEntries, d))
      BY <1>4 DEF SelectPrimaryDomain
    <2>2. /\ Move /\ UNCHANGED <<domainFile, openSite, domainEntries, settingsLoad>>
          /\ primaryDraft' \in MaybeDomain
      BY <1>4 DEF SelectPrimaryDomain, ServerUnchanged, MaybeDomain
    <2> DEFINE op == Rewrite(openSite, domainEntries, d)
    <2>3. /\ op \in CatalogOp /\ op.kind = "persist" /\ op.site = openSite /\ op.result = "sent"
          /\ op.entries = Parsed(domainEntries, d)
      BY <1>2, RewriteTypes
    <2> HIDE DEF op
    <2>4. FollowsIn(domainEntries, file) => Sound(op, file)
      BY <1>2, <2>3, ParsedFollows, FollowsLeadsOn DEF Sound
    <2> QED
      BY <2>1, <2>2, <2>3, <2>4, RequestSent DEF op
  <1>5. ASSUME NEW d \in Domain, RemoveDomain(d) PROVE DomainsInv'
    <2> DEFINE primary == IF primaryDraft = d THEN Localhost ELSE primaryDraft
               rest == [domainEntries EXCEPT ![d] = "absent"]
               op == Rewrite(openSite, rest, primary)
    <2>1. PICK i \in OpSlot : Start(i, op)
      BY <1>5 DEF RemoveDomain
    <2>2. /\ Move /\ UNCHANGED <<domainFile, openSite, domainEntries, settingsLoad, primaryDraft>>
          /\ domainEntries[d] = "disabled"
      BY <1>5 DEF RemoveDomain, ServerUnchanged, Removable
    <2>3. rest \in Catalogs
      BY <1>2 DEF Catalogs
    <2>4. FollowsIn(domainEntries, file) => LeadsOn(Parsed(rest, primary), file)
      BY <1>2, <2>2, RemovedLeadsOn
    <2> HIDE DEF rest, primary
    <2>5. /\ op \in CatalogOp /\ op.kind = "persist" /\ op.site = openSite /\ op.result = "sent"
          /\ op.entries = Parsed(rest, primary)
      BY <1>2, <2>3, RewriteTypes
    <2> HIDE DEF op
    <2>6. FollowsIn(domainEntries, file) => Sound(op, file)
      BY <2>4, <2>5 DEF Sound
    <2>7. primaryDraft' \in MaybeDomain
      BY <1>1, <2>2 DEF DomainsTypes
    <2> QED
      BY <2>1, <2>2, <2>5, <2>6, <2>7, RequestSent
  <1>6. ASSUME NEW d \in Domain, ReserveDomain(d) PROVE DomainsInv'
    <2> DEFINE more == [domainEntries EXCEPT ![d] = "reserved"]
               op == [kind |-> "reserve", site |-> openSite, entries |-> more, primary |-> primaryDraft,
                      name |-> NoDomain, next |-> "active", result |-> "sent"]
    <2>1. PICK i \in OpSlot : Start(i, op)
      BY <1>6 DEF ReserveDomain
    <2>2. /\ Move /\ UNCHANGED <<domainFile, openSite, domainEntries, settingsLoad, primaryDraft>>
          /\ domainEntries[d] = "absent"
      BY <1>6 DEF ReserveDomain, ServerUnchanged, Listed
    <2>3. more \in Catalogs
      BY <1>2 DEF Catalogs, OrderStatus
    <2>4. FollowsIn(domainEntries, file) => FollowsIn(more, file)
      BY <1>2, <2>2, ReservedFollows
    <2> HIDE DEF more
    <2>7. primaryDraft \in MaybeDomain
      BY <1>1 DEF DomainsTypes
    <2>5. /\ op \in CatalogOp /\ op.kind = "reserve" /\ op.site = openSite /\ op.result = "sent" /\ op.entries = more
      BY <1>2, <2>3, <2>7 DEF CatalogOp, OrderStatus, MaybeDomain
    <2> HIDE DEF op
    <2>6. FollowsIn(domainEntries, file) => Sound(op, file)
      BY <2>4, <2>5 DEF Sound
    <2> QED
      BY <2>1, <2>2, <2>5, <2>6, <2>7, RequestSent
  <1>7. ASSUME NEW d \in Domain, NEW device \in BOOLEAN, AddDomainFromPopup(d, device) PROVE DomainsInv'
    <2>0. Move /\ UNCHANGED <<domainFile, openSite, domainEntries, settingsLoad, primaryDraft>>
      BY <1>7 DEF AddDomainFromPopup, ServerUnchanged
    <2>7. primaryDraft' \in MaybeDomain
      BY <1>1, <2>0 DEF DomainsTypes
    <2>8. CASE UNCHANGED catalogOps
      BY <2>0, <2>7, <2>8, MovedOnly
    <2>9. CASE ~UNCHANGED catalogOps
      <3> DEFINE known == IF primaryDraft # NoDomain THEN primaryDraft
                          ELSE IF sitePrimary # NoDomain THEN sitePrimary ELSE Localhost
                 more == [domainEntries EXCEPT ![d] = "reserved"]
                 all == Parsed(more, known)
                 primary == IF primaryDraft # NoDomain THEN primaryDraft ELSE d
                 op == Rewrite(openSite, all, primary)
      <3>1. PICK i \in OpSlot : Start(i, op)
        BY <1>7, <2>9 DEF AddDomainFromPopup
      <3>2. domainEntries[d] = "absent"
        BY <1>7, <2>9 DEF AddDomainFromPopup, Listed
      <3>3. more \in Catalogs
        BY <1>2 DEF Catalogs, OrderStatus
      <3>4. FollowsIn(domainEntries, file) => FollowsIn(more, file)
        BY <1>2, <3>2, ReservedFollows
      <3> HIDE DEF more, known, primary
      <3>5. all \in Catalogs /\ (FollowsIn(domainEntries, file) => FollowsIn(all, file))
        BY <3>3, <3>4, ParsedKeeps, ParsedFollows
      <3> HIDE DEF all
      <3>6. /\ op \in CatalogOp /\ op.kind = "persist" /\ op.site = openSite /\ op.result = "sent"
            /\ op.entries = Parsed(all, primary)
        BY <1>2, <3>5, RewriteTypes
      <3> HIDE DEF op
      <3>7. FollowsIn(domainEntries, file) => Sound(op, file)
        BY <3>5, <3>6, ParsedFollows, FollowsLeadsOn DEF Sound
      <3> QED
        BY <2>0, <2>7, <3>1, <3>6, <3>7, RequestSent
    <2> QED
      BY <2>8, <2>9
  <1>8. ASSUME NEW d \in Domain, NEW next \in OrderStatus, TransitionStatus(d, next) PROVE DomainsInv'
    <2> DEFINE op == [kind |-> "status", site |-> openSite, entries |-> NoCatalogOp.entries, primary |-> NoDomain,
                      name |-> d, next |-> next, result |-> "sent"]
    <2>1. PICK i \in OpSlot : Start(i, op)
      BY <1>8 DEF TransitionStatus
    <2>2. /\ Move /\ UNCHANGED <<domainFile, openSite, domainEntries, settingsLoad, primaryDraft>>
          /\ domainEntries[d] # "absent"
      BY <1>8 DEF TransitionStatus, ServerUnchanged, Listed
    <2>3. NoCatalogOp.entries \in Catalogs
      BY RequestTypes DEF CatalogOp
    <2>4. /\ op \in CatalogOp /\ op.kind = "status" /\ op.site = openSite /\ op.result = "sent" /\ op.name = d
      BY <1>2, <2>3 DEF CatalogOp, OrderStatus, MaybeDomain
    <2> HIDE DEF op
    <2>5. Sound(op, file)
      BY <2>2, <2>4 DEF Sound
    <2>6. primaryDraft' \in MaybeDomain
      BY <1>1, <2>2 DEF DomainsTypes
    <2> QED
      BY <2>1, <2>2, <2>4, <2>5, <2>6, RequestSent
  <1>9. ASSUME DetachServerDomain PROVE DomainsInv'
    <2>1. Move /\ UNCHANGED <<domainFile, openSite, domainEntries, settingsLoad, catalogOps, primaryDraft>>
      BY <1>9 DEF DetachServerDomain, ServerUnchanged
    <2> QED
      BY <1>1, <2>1, MovedOnly DEF DomainsTypes
  <1> QED
    BY <1>3, <1>4, <1>5, <1>6, <1>7, <1>8, <1>9

\* What an action of the API or an answer does to the requests.
RequestBecomes(i, op) ==
  /\ catalogOps'[i] = op /\ op \in CatalogOp
  /\ \A j \in OpSlot \ {i} : catalogOps'[j] = catalogOps[j]

\* A request of another workspace, or of one where something overlapped,
\* cannot disturb the invariant.
LEMMA ApplyElsewhere ==
  ASSUME DomainsInv, NEW i \in OpSlot, NEW op, RequestBecomes(i, op), catalogOps[i].kind # "none",
         op.kind = "none" \/ op.site = catalogOps[i].site, op.kind = "status" => op.name \in Domain,
         DomainsTypes', openSite' = openSite, crossed \subseteq crossed', openSite \in crossed'
  PROVE  DomainsInv'
  BY DEF DomainsInv, LeftBehind, RequestBecomes

\* The same where nothing overlapped: the request is the only one.
LEMMA ApplyHere ==
  ASSUME DomainsInv, NEW i \in OpSlot, NEW op, RequestBecomes(i, op), catalogOps[i].kind # "none",
         op.kind = "none" \/ (op.site = openSite /\ Wrote(op, domainFile[openSite].catalog)'),
         DomainsTypes', openSite' = openSite, crossed' = crossed, settingsLoad' = settingsLoad, openSite \notin crossed,
         openSite \notin outdated' =>
           /\ op.kind = "none" \/ Sound(op, domainFile[openSite].catalog)'
           /\ op.kind = "none" \/ op.result # "done" => FollowsIn(domainEntries, domainFile[openSite].catalog)'
  PROVE  DomainsInv'
  <1>1. /\ settingsLoad = "idle" /\ catalogOps[i].site = openSite
        /\ \A j \in OpSlot : catalogOps[j].kind # "none" => j = i
    BY DEF DomainsInv, OneCatalogRequest
  <1>2. \A j \in OpSlot : catalogOps'[j].kind # "none" => j = i /\ op.kind # "none"
    BY <1>1 DEF RequestBecomes
  <1>3. LeftBehind'
    BY <1>2 DEF LeftBehind, RequestBecomes
  <1>4. OneCatalogRequest'
    BY <1>1, <1>2 DEF OneCatalogRequest, RequestBecomes
  <1>5. ASSUME openSite \notin outdated' PROVE RequestsSound' /\ PageFollows'
    BY <1>1, <1>2, <1>5 DEF RequestsSound, PageFollows, RequestBecomes
  <1> QED
    BY <1>3, <1>4, <1>5 DEF DomainsInv

\* What the invariant says of the only request of the open workspace.
LEMMA OnlyRequest ==
  ASSUME DomainsInv, NEW i \in OpSlot, catalogOps[i].kind # "none", openSite \notin crossed
  PROVE  /\ catalogOps[i].site = openSite /\ Wrote(catalogOps[i], domainFile[openSite].catalog)
         /\ openSite \notin outdated =>
              /\ Sound(catalogOps[i], domainFile[openSite].catalog)
              /\ catalogOps[i].result # "done" => FollowsIn(domainEntries, domainFile[openSite].catalog)
  BY DEF DomainsInv, OneCatalogRequest, RequestsSound, PageFollows

\* The API.
LEMMA ApiStepKeeps ==
  ASSUME DomainsInv, NEW i \in OpSlot, ApiStep(i)
  PROVE  DomainsInv'
  <1>1. DomainsTypes /\ catalogOps[i] \in CatalogOp /\ catalogOps[i].kind # "none"
    BY DEF DomainsInv, DomainsTypes, ApiStep, PersistApplied, StatusApplied, CatalogRequestFails
  <1>2. PICK o \in CatalogOp : o = catalogOps[i] /\ o.kind # "none" /\ o.result = "sent"
    BY <1>1 DEF ApiStep, PersistApplied, StatusApplied, CatalogRequestFails
  <1>3. PICK r \in {"done", "failed"} : catalogOps' = [catalogOps EXCEPT ![i] = [o EXCEPT !.result = r]]
    BY <1>2 DEF ApiStep, PersistApplied, StatusApplied, CatalogRequestFails
  <1>4. PICK a : a = [o EXCEPT !.result = r]
    OBVIOUS
  <1>5. /\ a \in CatalogOp /\ a.result = r /\ a.kind = o.kind /\ a.site = o.site /\ a.entries = o.entries
        /\ a.name = o.name /\ a.next = o.next
    <2>1. r \in {"sent", "done", "failed"}
      OBVIOUS
    <2>2. /\ [o EXCEPT !.result = r] \in CatalogOp
          /\ [o EXCEPT !.result = r].result = r
          /\ [o EXCEPT !.result = r].kind = o.kind /\ [o EXCEPT !.result = r].site = o.site
          /\ [o EXCEPT !.result = r].entries = o.entries
          /\ [o EXCEPT !.result = r].name = o.name /\ [o EXCEPT !.result = r].next = o.next
      BY <2>1, ResultPut
    <2> QED
      BY <1>4, <2>2, Zenon
  <1>6. RequestBecomes(i, a) /\ catalogOps' \in [OpSlot -> CatalogOp]
    BY <1>1, <1>3, <1>4, <1>5 DEF RequestBecomes, DomainsTypes
  <1>7. UNCHANGED <<openSite, domainEntries, settingsLoad, crossed, outdated, primaryDraft>>
    BY DEF ApiStep, PersistApplied, StatusApplied, CatalogRequestFails
  <1>8. o.kind = "status" => o.name \in Domain
    BY <1>1, <1>2 DEF DomainsTypes
  <1>9. o.site \in Sites /\ o.entries \in Catalogs /\ o.primary \in MaybeDomain /\ o.next \in OrderStatus
    BY DEF CatalogOp
  <1>10. ASSUME domainFile' \in [Sites -> [catalog : Catalogs, primary : MaybeDomain]] PROVE DomainsTypes'
    BY <1>1, <1>5, <1>6, <1>7, <1>8, <1>10 DEF DomainsTypes, RequestBecomes
  <1>11. CASE PersistApplied(i)
    <2>1. /\ o.kind = "persist" /\ r = "done"
          /\ domainFile' = [domainFile EXCEPT ![o.site] = [catalog |-> o.entries, primary |-> o.primary]]
      <3>1. catalogOps'[i].result = "done"
        BY <1>1, <1>2, <1>11 DEF PersistApplied, DomainsTypes
      <3>2. catalogOps'[i].result = r
        BY <1>5, <1>6 DEF RequestBecomes
      <3> QED
        BY <1>2, <1>11, <3>1, <3>2 DEF PersistApplied
    <2>2. DomainsTypes' /\ domainFile'[o.site].catalog = o.entries
      BY <1>1, <1>9, <1>10, <2>1 DEF DomainsTypes
    <2>3. CASE openSite \in crossed
      BY <1>2, <1>5, <1>6, <1>7, <1>8, <2>2, <2>3, ApplyElsewhere
    <2>4. CASE openSite \notin crossed
      <3>1. o.site = openSite
        BY <1>2, <2>4, OnlyRequest
      <3>2. Sound(a, domainFile[openSite].catalog)' /\ Wrote(a, domainFile[openSite].catalog)'
        BY <1>5, <1>7, <2>1, <2>2, <3>1 DEF Sound, Wrote
      <3> QED
        BY <1>2, <1>5, <1>6, <1>7, <2>1, <2>2, <2>4, <3>1, <3>2, ApplyHere
    <2> QED
      BY <2>3, <2>4
  <1>12. CASE StatusApplied(i)
    <2>1. o.kind = "status"
      BY <1>2, <1>12 DEF StatusApplied
    <2>4. IF StatusAccepted(domainFile[o.site].catalog[o.name], o.next)
          THEN /\ domainFile' = [domainFile EXCEPT ![o.site].catalog[o.name] = o.next]
               /\ catalogOps' = [catalogOps EXCEPT ![i].result = "done"]
          ELSE UNCHANGED domainFile /\ catalogOps' = [catalogOps EXCEPT ![i].result = "failed"]
      BY <1>2, <1>12, Zenon DEF StatusApplied
    <2>5. ASSUME NEW q, catalogOps' = [catalogOps EXCEPT ![i].result = q] PROVE catalogOps'[i].result = q
      BY <1>1, <2>5 DEF DomainsTypes, CatalogOp
    <2>2. CASE ~StatusAccepted(domainFile[o.site].catalog[o.name], o.next)
      <3>4. UNCHANGED domainFile /\ catalogOps'[i].result = "failed"
        BY <2>2, <2>4, <2>5
      <3>5. r = "failed"
        BY <1>5, <1>6, <3>4 DEF RequestBecomes
      <3>1. DomainsTypes'
        BY <1>1, <1>10, <3>4 DEF DomainsTypes
      <3>2. CASE openSite \in crossed
        BY <1>2, <1>5, <1>6, <1>7, <1>8, <3>1, <3>2, ApplyElsewhere
      <3>3. CASE openSite \notin crossed
        <4>1. /\ o.site = openSite
              /\ openSite \notin outdated => /\ Sound(o, domainFile[openSite].catalog)
                                             /\ FollowsIn(domainEntries, domainFile[openSite].catalog)
          BY <1>2, <3>3, OnlyRequest
        <4>2. Wrote(a, domainFile[openSite].catalog)'
          BY <1>5, <2>1 DEF Wrote
        <4>3. openSite \notin outdated => Sound(a, domainFile[openSite].catalog)'
          BY <1>5, <1>7, <2>1, <3>4, <3>5, <4>1 DEF Sound, FollowsIn
        <4>4. openSite \notin outdated => FollowsIn(domainEntries, domainFile[openSite].catalog)'
          BY <1>7, <3>4, <4>1 DEF FollowsIn
        <4> QED
          BY <1>2, <1>5, <1>6, <1>7, <3>1, <3>3, <4>1, <4>2, <4>3, <4>4, ApplyHere
      <3> QED
        BY <3>2, <3>3
    <2>3. CASE StatusAccepted(domainFile[o.site].catalog[o.name], o.next)
      <3>1. /\ catalogOps'[i].result = "done"
            /\ domainFile' = [domainFile EXCEPT ![o.site].catalog[o.name] = o.next]
        BY <2>3, <2>4, <2>5
      <3>2. r = "done"
        BY <1>5, <1>6, <3>1 DEF RequestBecomes
      <3>3. /\ domainFile' \in [Sites -> [catalog : Catalogs, primary : MaybeDomain]]
            /\ domainFile'[o.site].catalog[o.name] = o.next
            /\ \A d \in Domain \ {o.name} : domainFile'[o.site].catalog[d] = domainFile[o.site].catalog[d]
        BY <1>1, <1>8, <1>9, <2>1, <3>1 DEF DomainsTypes, Catalogs
      <3>4. DomainsTypes'
        BY <1>10, <3>3
      <3>5. CASE openSite \in crossed
        BY <1>2, <1>5, <1>6, <1>7, <1>8, <3>4, <3>5, ApplyElsewhere
      <3>6. CASE openSite \notin crossed
        <4>1. /\ o.site = openSite
              /\ openSite \notin outdated => /\ Sound(o, domainFile[openSite].catalog)
                                             /\ FollowsIn(domainEntries, domainFile[openSite].catalog)
          BY <1>2, <3>6, OnlyRequest
        <4>2. openSite \notin outdated => Sound(a, domainFile[openSite].catalog)'
          BY <1>5, <1>7, <2>1, <3>2, <3>3, <4>1 DEF Sound, FollowsIn
        <4>3. Wrote(a, domainFile[openSite].catalog)'
          BY <1>5, <2>1 DEF Wrote
        <4> QED
          BY <1>2, <1>5, <1>6, <1>7, <2>1, <3>2, <3>4, <3>6, <4>1, <4>2, <4>3, ApplyHere
      <3> QED
        BY <3>5, <3>6
    <2> QED
      BY <2>2, <2>3
  <1>13. CASE CatalogRequestFails(i)
    <2>1. UNCHANGED domainFile /\ o.kind \in {"persist", "status"}
      BY <1>2, <1>13 DEF CatalogRequestFails
    <2>2. r = "failed"
      <3>1. catalogOps'[i].result = "failed"
        BY <1>1, <1>2, <1>13 DEF CatalogRequestFails, DomainsTypes
      <3> QED
        BY <1>5, <1>6, <3>1 DEF RequestBecomes
    <2>3. DomainsTypes'
      BY <1>1, <1>10, <2>1 DEF DomainsTypes
    <2>4. CASE openSite \in crossed
      BY <1>2, <1>5, <1>6, <1>7, <1>8, <2>3, <2>4, ApplyElsewhere
    <2>5. CASE openSite \notin crossed
      <3>1. /\ o.site = openSite
            /\ openSite \notin outdated => /\ Sound(o, domainFile[openSite].catalog)
                                           /\ FollowsIn(domainEntries, domainFile[openSite].catalog)
        BY <1>2, <2>5, OnlyRequest
      <3>2. openSite \notin outdated => /\ Sound(a, domainFile[openSite].catalog)'
                                        /\ FollowsIn(domainEntries, domainFile[openSite].catalog)'
        BY <1>5, <1>7, <2>1, <2>2, <3>1 DEF Sound, FollowsIn
      <3>3. Wrote(a, domainFile[openSite].catalog)'
        BY <1>5, <2>2 DEF Wrote
      <3> QED
        BY <1>2, <1>5, <1>6, <1>7, <2>3, <2>5, <3>1, <3>2, <3>3, ApplyHere
    <2> QED
      BY <2>4, <2>5
  <1> QED
    BY <1>11, <1>12, <1>13 DEF ApiStep

\* The page after its entries changed.
LEMMA EntriesTypes ==
  ASSUME DomainsTypes, EntriesChanged, domainEntries' \in Catalogs, UNCHANGED <<domainFile, openSite>>,
         catalogOps' \in [OpSlot -> CatalogOp], \A i \in OpSlot : catalogOps'[i].kind = "status" => catalogOps'[i].name \in Domain
  PROVE  DomainsTypes'
  <1>1. primaryDraft' \in MaybeDomain
    BY RequestTypes DEF EntriesChanged
  <1> QED
    BY <1>1 DEF DomainsTypes

\* The settings of the workspace and the answers of the catalog.
LEMMA CatalogAnswers ==
  ASSUME DomainsInv,
         \/ SettingsLoaded
         \/ \E i \in OpSlot : ReservationChecked(i) \/ NameTaken(i) \/ CatalogAnswered(i) \/ CatalogRefused(i)
         \/ \E w \in hostWrites : HostWritten(w)
  PROVE  DomainsInv'
  <1>1. DomainsTypes /\ domainFile[openSite].catalog \in Catalogs
    BY DEF DomainsInv, DomainsTypes
  <1>2. CASE SettingsLoaded
    <2>1. /\ settingsLoad = "asked" /\ settingsLoad' = "idle" /\ EntriesChanged
          /\ UNCHANGED <<domainFile, openSite, catalogOps>> /\ crossed \subseteq crossed'
      BY <1>2 DEF SettingsLoaded, ServerUnchanged
    <2>2. \/ domainEntries' = Parsed(domainFile[openSite].catalog, domainFile[openSite].primary) /\ UNCHANGED crossed
          \/ domainEntries' = Parsed(NoCatalogOp.entries, Localhost) /\ openSite \in crossed'
      BY <1>2 DEF SettingsLoaded
    <2>3. NoCatalogOp.entries \in Catalogs
      BY RequestTypes DEF CatalogOp
    <2>4. domainEntries' \in Catalogs
      BY <1>1, <2>2, <2>3, ParsedKeeps
    <2>5. DomainsTypes'
      BY <1>1, <2>1, <2>4, EntriesTypes DEF DomainsTypes
    <2>6. openSite \notin crossed' => FollowsIn(domainEntries', domainFile[openSite].catalog)
      BY <1>1, <2>2, ReadFollows
    <2>7. openSite \notin crossed' => \A j \in OpSlot : catalogOps[j].kind = "none"
      BY <2>1 DEF DomainsInv, OneCatalogRequest
    <2>8. LeftBehind'
      BY <2>1 DEF DomainsInv, LeftBehind
    <2>9. openSite' \notin crossed' => OneCatalogRequest' /\ RequestsSound' /\ PageFollows'
      BY <2>1, <2>6, <2>7 DEF OneCatalogRequest, RequestsSound, PageFollows, FollowsIn
    <2> QED
      BY <2>5, <2>8, <2>9 DEF DomainsInv
  <1>3. ASSUME NEW i \in OpSlot, ReservationChecked(i) PROVE DomainsInv'
    <2>1. PICK o \in CatalogOp : o = catalogOps[i] /\ o.kind = "reserve"
      BY <1>1, <1>3 DEF ReservationChecked, DomainsTypes
    <2>2. o.site \in Sites /\ o.entries \in Catalogs
      BY DEF CatalogOp
    <2>3. PICK a : a = Rewrite(o.site, o.entries, o.primary)
      OBVIOUS
    <2>4. a \in CatalogOp /\ a.kind = "persist" /\ a.site = o.site /\ a.result = "sent" /\ a.entries = Parsed(o.entries, o.primary)
      BY <2>2, <2>3, RewriteTypes
    <2>5. /\ catalogOps' = [catalogOps EXCEPT ![i] = a]
          /\ UNCHANGED <<domainFile, openSite, domainEntries, primaryDraft, settingsLoad, crossed, outdated>>
      BY <1>3, <2>1, <2>3 DEF ReservationChecked, ServerUnchanged
    <2>6. RequestBecomes(i, a)
      BY <1>1, <2>4, <2>5 DEF RequestBecomes, DomainsTypes
    <2>7. DomainsTypes'
      BY <1>1, <2>4, <2>5 DEF DomainsTypes
    <2>8. CASE openSite \in crossed
      BY <2>1, <2>4, <2>5, <2>6, <2>7, <2>8, ApplyElsewhere
    <2>9. CASE openSite \notin crossed
      <3>1. /\ o.site = openSite
            /\ openSite \notin outdated =>
                 /\ Sound(o, domainFile[openSite].catalog)
                 /\ o.result # "done" => FollowsIn(domainEntries, domainFile[openSite].catalog)
        BY <2>1, <2>9, OnlyRequest
      <3>2. openSite \notin outdated => o.result = "sent" /\ LeadsOn(a.entries, domainFile[openSite].catalog)
        BY <2>1, <2>2, <2>4, <3>1, ParsedFollows, FollowsLeadsOn DEF Sound
      <3>3. openSite \notin outdated => /\ Sound(a, domainFile[openSite].catalog)'
                                        /\ FollowsIn(domainEntries, domainFile[openSite].catalog)'
        BY <2>4, <2>5, <3>1, <3>2 DEF Sound, FollowsIn, LeadsOn
      <3>4. Wrote(a, domainFile[openSite].catalog)'
        BY <2>4 DEF Wrote
      <3> QED
        BY <2>1, <2>4, <2>5, <2>6, <2>7, <2>9, <3>1, <3>3, <3>4, ApplyHere
    <2> QED
      BY <2>8, <2>9
  <1>4. ASSUME NEW i \in OpSlot, NameTaken(i) \/ CatalogRefused(i) PROVE DomainsInv'
    <2>1. PICK o \in CatalogOp : o = catalogOps[i] /\ o.kind # "none" /\ (o.kind = "reserve" \/ o.result # "sent")
      BY <1>1, <1>4 DEF NameTaken, CatalogRefused, DomainsTypes
    <2>2. /\ catalogOps' = [catalogOps EXCEPT ![i] = NoCatalogOp]
          /\ UNCHANGED <<domainFile, openSite, domainEntries, primaryDraft, settingsLoad, outdated>>
      BY <1>4 DEF NameTaken, CatalogRefused, ServerUnchanged
    <2>3. RequestBecomes(i, NoCatalogOp)
      BY <1>1, <2>2, RequestTypes DEF RequestBecomes, DomainsTypes
    <2>4. DomainsTypes'
      BY <1>1, <2>2, RequestTypes DEF DomainsTypes
    <2>5. crossed' = IF o.kind # "reserve" /\ o.result = "done" THEN crossed \cup {o.site} ELSE crossed
      BY <1>4, <2>1 DEF NameTaken, CatalogRefused
    <2>6. CASE openSite \in crossed'
      BY <2>1, <2>2, <2>3, <2>4, <2>5, <2>6, RequestTypes, ApplyElsewhere
    <2>7. CASE openSite \notin crossed'
      <3>1. openSite \notin crossed
        BY <2>5, <2>7
      <3>2. /\ o.site = openSite
            /\ openSite \notin outdated =>
                 /\ Sound(o, domainFile[openSite].catalog)
                 /\ o.result # "done" => FollowsIn(domainEntries, domainFile[openSite].catalog)
        BY <2>1, <3>1, OnlyRequest
      <3>3. (openSite \notin outdated => o.result # "done") /\ crossed' = crossed
        BY <2>5, <2>7, <3>2 DEF Sound
      <3>4. openSite \notin outdated => FollowsIn(domainEntries, domainFile[openSite].catalog)'
        BY <2>2, <3>2, <3>3 DEF FollowsIn
      <3> QED
        BY <2>1, <2>2, <2>3, <2>4, <3>1, <3>3, <3>4, RequestTypes, ApplyHere
    <2> QED
      BY <2>6, <2>7
  <1>5. ASSUME NEW i \in OpSlot, CatalogAnswered(i) PROVE DomainsInv'
    <2>1. PICK o \in CatalogOp : o = catalogOps[i] /\ o.kind \in {"persist", "status"} /\ o.result = "done"
      BY <1>1, <1>5 DEF CatalogAnswered, DomainsTypes
    <2>2. /\ catalogOps' = [catalogOps EXCEPT ![i] = NoCatalogOp] /\ EntriesChanged
          /\ UNCHANGED <<domainFile, openSite, settingsLoad, crossed>>
      BY <1>5 DEF CatalogAnswered, ServerUnchanged
    <2>3. IF o.kind = "persist" THEN domainEntries' = o.entries
          ELSE domainEntries' = [domainEntries EXCEPT ![o.name] = IF @ = "absent" THEN @ ELSE o.next]
      BY <1>5, <2>1 DEF CatalogAnswered
    <2>4. o.entries \in Catalogs /\ o.next \in OrderStatus /\ domainEntries \in Catalogs /\ (o.kind = "status" => o.name \in Domain)
      BY <1>1, <2>1 DEF CatalogOp, DomainsTypes
    <2>5. domainEntries' \in Catalogs
      BY <2>3, <2>4 DEF Catalogs
    <2>6. catalogOps' \in [OpSlot -> CatalogOp] /\ RequestBecomes(i, NoCatalogOp)
      BY <1>1, <2>2, RequestTypes DEF RequestBecomes, DomainsTypes
    <2>7. DomainsTypes'
      BY <1>1, <2>2, <2>5, <2>6, RequestTypes, EntriesTypes DEF DomainsTypes, RequestBecomes
    <2>8. CASE openSite \in crossed
      BY <2>1, <2>2, <2>6, <2>7, <2>8, RequestTypes, ApplyElsewhere
    <2>9. CASE openSite \notin crossed
      <3>1. /\ Wrote(o, domainFile[openSite].catalog)
            /\ openSite \notin outdated => Sound(o, domainFile[openSite].catalog)
        BY <2>1, <2>9, OnlyRequest
      <3>2. ASSUME openSite \notin outdated' PROVE FollowsIn(domainEntries', domainFile[openSite].catalog)
        <4>1. CASE o.kind = "persist"
          BY <2>1, <2>3, <3>1, <4>1 DEF Wrote, FollowsIn
        <4>2. CASE o.kind = "status"
          <5>0. openSite \notin outdated
            BY <1>5, <2>1, <3>2, <4>2 DEF CatalogAnswered
          <5>1. /\ domainEntries[o.name] # "absent" /\ domainFile[openSite].catalog[o.name] = o.next
                /\ \A d \in Domain \ {o.name} : domainFile[openSite].catalog[d] # "absent"
                     => domainEntries[d] = domainFile[openSite].catalog[d]
            BY <2>1, <3>1, <4>2, <5>0 DEF Sound
          <5> QED
            BY <2>3, <2>4, <4>2, <5>1 DEF FollowsIn, Catalogs
        <4> QED
          BY <2>1, <4>1, <4>2
      <3>3. openSite \notin outdated' => FollowsIn(domainEntries, domainFile[openSite].catalog)'
        BY <2>2, <3>2 DEF FollowsIn
      <3> QED
        BY <2>1, <2>2, <2>6, <2>7, <2>9, <3>3, RequestTypes, ApplyHere
    <2> QED
      BY <2>8, <2>9
  <1>6. ASSUME NEW w \in hostWrites, HostWritten(w) PROVE DomainsInv'
    BY <1>6 DEF HostWritten, DomainsInv, DomainsTypes, LeftBehind, OneCatalogRequest, RequestsSound, PageFollows, Wrote, Sound,
             FollowsIn, LeadsOn
  <1> QED
    BY <1>2, <1>3, <1>4, <1>5, <1>6

\* Somebody else writes the file: of the open workspace either nothing is in
\* flight, or that counts as an overlap, and the copy of the page is outdated.
LEMMA ElsewhereKeeps ==
  ASSUME DomainsInv, NEW s \in Sites, NEW d \in Domain, NEW status \in OrderStatus \cup {"absent"}, Elsewhere(s, d, status),
         outdated \subseteq outdated', s = openSite => s \in outdated'
  PROVE  DomainsInv'
  <1>1. DomainsTypes /\ UNCHANGED <<openSite, domainEntries, primaryDraft, settingsLoad, catalogOps>> /\ crossed \subseteq crossed'
    BY DEF DomainsInv, Elsewhere
  <1>2. /\ domainFile' \in [Sites -> [catalog : Catalogs, primary : MaybeDomain]]
        /\ \A t \in Sites \ {s} : domainFile'[t] = domainFile[t]
    BY <1>1 DEF Elsewhere, DomainsTypes, Catalogs
  <1>3. DomainsTypes' /\ LeftBehind'
    BY <1>1, <1>2 DEF DomainsInv, DomainsTypes, LeftBehind
  <1>4. CASE s = openSite
    <2>1. openSite \notin crossed' => openSite \notin crossed /\ \A i \in OpSlot : catalogOps[i].kind = "none"
      BY <1>1, <1>4 DEF Elsewhere, OpsInFlight, DomainsInv, OneCatalogRequest
    <2> QED
      BY <1>1, <1>3, <1>4, <2>1 DEF DomainsInv, OneCatalogRequest
  <1>5. CASE s # openSite
    <2>1. openSite \in Sites /\ domainFile'[openSite] = domainFile[openSite]
      BY <1>1, <1>2, <1>5 DEF DomainsTypes
    <2>2. openSite \notin crossed' => OneCatalogRequest'
      BY <1>1, <2>1 DEF DomainsInv, OneCatalogRequest, Wrote
    <2>3. openSite \notin crossed' \cup outdated' => RequestsSound' /\ PageFollows'
      BY <1>1, <2>1 DEF DomainsInv, RequestsSound, PageFollows, Sound, FollowsIn, LeadsOn
    <2> QED
      BY <1>1, <1>3, <2>2, <2>3 DEF DomainsInv
  <1> QED
    BY <1>4, <1>5

LEMMA DomainsStep == DomainsInv /\ [DomainsNext]_domainsVars => DomainsInv'
  <1> SUFFICES ASSUME DomainsInv, [DomainsNext]_domainsVars PROVE DomainsInv'
    OBVIOUS
  <1>1. CASE UNCHANGED domainsVars
    BY <1>1 DEF domainsVars, DomainsInv, DomainsTypes, LeftBehind, OneCatalogRequest, RequestsSound, PageFollows, Wrote, Sound,
             FollowsIn, LeadsOn
  <1>2. CASE \E i \in OpSlot : ApiStep(i)
    BY <1>2, ApiStepKeeps
  <1>3. CASE \/ \E s \in Sites : OpenSite(s)
             \/ \E d \in Domain : \/ SelectPrimaryDomain(d) \/ RemoveDomain(d) \/ ReserveDomain(d)
                                  \/ \E device \in BOOLEAN : AddDomainFromPopup(d, device)
                                  \/ \E next \in OrderStatus : TransitionStatus(d, next)
             \/ DetachServerDomain
    BY <1>3, UserStep
  <1>4. CASE \/ SettingsLoaded
             \/ \E i \in OpSlot : ReservationChecked(i) \/ NameTaken(i) \/ CatalogAnswered(i) \/ CatalogRefused(i)
             \/ \E w \in hostWrites : HostWritten(w)
    BY <1>4, CatalogAnswers
  <1>5. ASSUME NEW s \in Sites, NEW d \in Domain,
               \/ \E next \in OrderStatus : MovedElsewhere(s, d, next)
               \/ \E status \in OrderStatus \cup {"absent"} : RewrittenElsewhere(s, d, status)
        PROVE  DomainsInv'
    BY <1>5, ElsewhereKeeps DEF MovedElsewhere, RewrittenElsewhere
  <1> QED
    BY <1>1, <1>2, <1>3, <1>4, <1>5 DEF DomainsNext

\* The status of a domain moves along the life cycle of an order, in whatever
\* order the page rewrites its list and the API moves one entry, unless the
\* requests of the workspace overlapped, an answer was lost, its settings could
\* not be read, or others changed the list since the page read it.
THEOREM OrderOfADomain == DomainsSpec => StatusFollowsOrder
  <1> DEFINE InOrder == \A s \in Sites \ (crossed' \cup outdated'), d \in Domain :
                       LET was == domainFile[s].catalog[d]
                           is == domainFile'[s].catalog[d]
                       IN "absent" \notin {was, is} => is \in Lifecycle[was] \cup {was}
  <1>1. DomainsInv /\ [DomainsNext]_domainsVars => [InOrder]_domainsVars
    <2> SUFFICES ASSUME DomainsInv, DomainsNext, NEW s \in Sites \ (crossed' \cup outdated'), NEW d \in Domain,
                        domainFile[s].catalog[d] # "absent", domainFile'[s].catalog[d] # "absent"
                 PROVE  domainFile'[s].catalog[d] \in Lifecycle[domainFile[s].catalog[d]] \cup {domainFile[s].catalog[d]}
      BY DEF InOrder
    <2>1. CASE UNCHANGED domainFile
      BY <2>1
    <2>2. ASSUME NEW i \in OpSlot, PersistApplied(i) \/ StatusApplied(i), UNCHANGED <<openSite, outdated>>
          PROVE  domainFile'[s].catalog[d] \in Lifecycle[domainFile[s].catalog[d]] \cup {domainFile[s].catalog[d]}
      <3>1. PICK o \in CatalogOp : o = catalogOps[i] /\ o.kind # "none" /\ o.result = "sent" /\ crossed' = crossed
        BY <2>2 DEF PersistApplied, StatusApplied, DomainsInv, DomainsTypes
      <3>2. domainFile \in [Sites -> [catalog : Catalogs, primary : MaybeDomain]]
        BY DEF DomainsInv, DomainsTypes
      <3>3. o.site \in crossed \cup {openSite}
        BY <3>1 DEF DomainsInv, LeftBehind
      <3>4. CASE PersistApplied(i)
        <4>1. /\ o.kind = "persist"
              /\ domainFile' = [domainFile EXCEPT ![o.site] = [catalog |-> o.entries, primary |-> o.primary]]
          BY <3>1, <3>4 DEF PersistApplied
        <4>2. CASE s = o.site
          <5>1. openSite = s /\ LeadsOn(o.entries, domainFile[s].catalog)
            <6>1. openSite = s /\ openSite \notin crossed /\ openSite \notin outdated
              BY <2>2, <3>1, <3>3, <4>2
            <6> QED
              BY <3>1, <4>1, <4>2, <6>1, OnlyRequest DEF Sound
          <5>2. domainFile'[s].catalog = o.entries
            BY <3>2, <4>1, <4>2
          <5> QED
            BY <5>1, <5>2 DEF LeadsOn
        <4> QED
          BY <3>2, <4>1, <4>2
      <3>5. CASE StatusApplied(i)
        <4>1. o.name \in Domain
          BY <3>1, <3>5 DEF StatusApplied, DomainsInv, DomainsTypes
        <4>2. CASE StatusAccepted(domainFile[o.site].catalog[o.name], o.next)
          <5>1. domainFile' = [domainFile EXCEPT ![o.site].catalog[o.name] = o.next]
            BY <3>1, <3>5, <4>2, Zenon DEF StatusApplied
          <5>2. CASE s = o.site /\ d = o.name
            <6>1. domainFile'[s].catalog[d] = o.next
              BY <3>2, <4>1, <5>1, <5>2 DEF Catalogs
            <6> QED
              BY <4>2, <5>2, <6>1 DEF StatusAccepted
          <5>3. CASE ~(s = o.site /\ d = o.name)
            BY <3>2, <4>1, <5>1, <5>3 DEF Catalogs
          <5> QED
            BY <5>2, <5>3
        <4>3. CASE ~StatusAccepted(domainFile[o.site].catalog[o.name], o.next)
          <5>1. UNCHANGED domainFile
            BY <3>1, <3>5, <4>3, Zenon DEF StatusApplied
          <5> QED
            BY <5>1
        <4> QED
          BY <4>2, <4>3
      <3> QED
        BY <2>2, <3>4, <3>5
    <2>3. ASSUME NEW t \in Sites, NEW e \in Domain, NEW status \in OrderStatus \cup {"absent"}, Elsewhere(t, e, status),
                 t \in outdated' \/ StatusAccepted(domainFile[t].catalog[e], status)
          PROVE  domainFile'[s].catalog[d] \in Lifecycle[domainFile[s].catalog[d]] \cup {domainFile[s].catalog[d]}
      <3>1. /\ domainFile \in [Sites -> [catalog : Catalogs, primary : MaybeDomain]]
            /\ domainFile' = [domainFile EXCEPT ![t].catalog[e] = status]
        BY <2>3 DEF DomainsInv, DomainsTypes, Elsewhere
      <3>2. CASE s = t /\ d = e
        <4>1. domainFile'[s].catalog[d] = status
          BY <3>1, <3>2 DEF Catalogs
        <4> QED
          BY <2>3, <3>2, <4>1 DEF StatusAccepted
      <3>3. CASE ~(s = t /\ d = e)
        BY <3>1, <3>3 DEF Catalogs
      <3> QED
        BY <3>2, <3>3
    <2>4. \/ UNCHANGED domainFile
          \/ \E i \in OpSlot : (PersistApplied(i) \/ StatusApplied(i)) /\ UNCHANGED <<openSite, outdated>>
          \/ \E t \in Sites, e \in Domain : \/ \E next \in OrderStatus : MovedElsewhere(t, e, next)
                                            \/ \E status \in OrderStatus \cup {"absent"} : RewrittenElsewhere(t, e, status)
      BY DEF DomainsNext, ApiStep, CatalogRequestFails, ServerUnchanged, OpenSite, SelectPrimaryDomain, RemoveDomain,
             AddDomainFromPopup, ReserveDomain, TransitionStatus, DetachServerDomain, SettingsLoaded, ReservationChecked,
             NameTaken, CatalogAnswered, CatalogRefused, HostWritten
    <2>5. ASSUME NEW t \in Sites, NEW e \in Domain, \/ \E next \in OrderStatus : MovedElsewhere(t, e, next)
                                                   \/ \E status \in OrderStatus \cup {"absent"} : RewrittenElsewhere(t, e, status)
          PROVE  \E status \in OrderStatus \cup {"absent"} :
                   Elsewhere(t, e, status) /\ (t \in outdated' \/ StatusAccepted(domainFile[t].catalog[e], status))
      BY <2>5 DEF MovedElsewhere, RewrittenElsewhere
    <2> QED
      BY <2>1, <2>2, <2>3, <2>4, <2>5
  <1> QED
    BY <1>1, DomainsInitially, DomainsStep, PTL DEF DomainsSpec, StatusFollowsOrder

-----------------------------------------------------------------------------
\* The types of the other parts, from here on.  The Deploy tab.
\* The rest of the types of the Deploy tab.
LiveRest ==
  /\ Len(jobs) <= MaxJobs /\ deployed \subseteq Devices /\ selection \cap deployed = {}
  /\ reference \in {NoDevices} \cup SUBSET Devices /\ bumped \subseteq {"connect", "cancel"}
  /\ cancels \subseteq JobIds /\ asked \subseteq JobIds

LEMMA LiveRestStep == LiveInv /\ LiveRest /\ [LiveNext]_liveVars => LiveRest'
  <1> SUFFICES ASSUME LiveInv, LiveRest, [LiveNext]_liveVars PROVE LiveRest'
    OBVIOUS
  <1>0. LiveTypes
    BY DEF LiveInv
  <1>t. /\ selection \subseteq complete /\ complete \subseteq Devices /\ Len(jobs) \in Nat /\ Len(jobs) <= MaxJobs
        /\ MaxJobs \in Nat /\ jobs \in Seq(Job) /\ post.devices \subseteq Devices
    BY <1>0, LiveAssumption DEF LiveTypes, LiveRest
  <1>c. Cancelable \subseteq JobIds
    <2>1. view.jobId \in 0 .. Len(jobs)
      BY <1>0 DEF LiveTypes
    <2> QED
      BY <2>1, <1>t DEF Cancelable, JobIds, NoJob
  <1> USE DEF LiveRest, targets, controls, live, remembered
  <1>1. CASE UNCHANGED liveVars
    BY <1>1 DEF liveVars
  <1>2. CASE SelectAll \/ DeselectAll \/ \E d \in Devices : ToggleDeployAlias(d)
    BY <1>2 DEF SelectAll, DeselectAll, ToggleDeployAlias, Select, selectable
  <1>3. ASSUME NEW c \in SUBSET Devices, EditServers(c) PROVE LiveRest'
    BY <1>3, <1>t DEF EditServers, Kept
  <1>4. CASE StreamStatus \/ StreamDone
    <2>1. PICK status : TakeReference(status)
      BY <1>4 DEF StreamStatus, StreamDone
    <2>2. UNCHANGED <<jobs, bumped, cancels, asked, complete>>
      BY <1>4 DEF StreamStatus, StreamDone
    <2>3. deployed' \subseteq Devices /\ reference' \in {NoDevices} \cup SUBSET Devices
      BY <2>1 DEF TakeReference
    <2>4. selection' \cap deployed' = {}
      BY <2>1, <1>t DEF TakeReference, Kept
    <2> QED
      BY <2>2, <2>3, <2>4
  <1>5. CASE StreamLost \/ CloseTab \/ OpenTab \/ NeedsPassword
    BY <1>5 DEF StreamLost, CloseTab, OpenTab, NeedsPassword, Mount
  <1>6. CASE StartDeployment
    BY <1>6, <1>t DEF StartDeployment
  <1>7. CASE DeploymentCreated \/ DeploymentRefused
    <2>1. UNCHANGED <<deployed, selection, reference, cancels, asked>> /\ bumped' \subseteq {"connect", "cancel"}
      BY <1>7 DEF DeploymentCreated, DeploymentRefused
    <2>2. jobs' = jobs \/ (Len(jobs) < MaxJobs /\ \E x : jobs' = Append(jobs, x))
      BY <1>7 DEF DeploymentCreated, DeploymentRefused, Deployed
    <2>3. Len(jobs') <= MaxJobs
      BY <2>2, <1>t
    <2> QED
      BY <2>1, <2>3
  <1>8. CASE RequestConnect \/ RequestCancel \/ \E p \in Places : SwitchWorkspace(p)
    BY <1>8, <1>c DEF RequestConnect, RequestCancel, SwitchWorkspace
  <1>9. ASSUME NEW id \in 0 .. MaxJobs, TypeJobId(id) PROVE LiveRest'
    BY <1>9 DEF TypeJobId
  <1>10. ASSUME NEW id \in 0 .. MaxJobs, JobEnds(id) \/ CancelArrives(id) PROVE LiveRest'
    <2>1. UNCHANGED <<deployed, selection, reference, bumped, asked>> /\ cancels' \subseteq cancels
      BY <1>10 DEF JobEnds, CancelArrives
    <2>2. jobs' = jobs \/ \E x : jobs' = [jobs EXCEPT ![id] = x]
      BY <1>10 DEF JobEnds, CancelArrives
    <2>3. Len(jobs') = Len(jobs)
      BY <2>2, <1>t
    <2> QED
      BY <2>1, <2>3
  <1> QED
    BY <1>1, <1>2, <1>3, <1>4, <1>5, <1>6, <1>7, <1>8, <1>9, <1>10 DEF LiveNext

LEMMA LiveTyped == LiveSpec => []LiveTypeOK
  <1>1. LiveInit => LiveRest
    BY LiveAssumption DEF LiveInit, LiveRest
  <1>2. LiveInv /\ LiveRest => LiveTypeOK
    <2> SUFFICES ASSUME LiveInv, LiveRest PROVE LiveTypeOK
      OBVIOUS
    <2>1. LiveTypes
      BY DEF LiveInv
    <2>2. 0 .. Len(jobs) \subseteq JobIds \cup {NoJob}
      BY <2>1, LiveAssumption DEF LiveTypes, LiveRest, JobIds, NoJob
    <2> QED
      BY <2>1, <2>2 DEF LiveTypes, LiveRest, LiveTypeOK, Job
  <1> QED
    BY <1>1, <1>2, LiveInitially, LiveStep, LiveRestStep, PTL DEF LiveSpec

-----------------------------------------------------------------------------
\* The Users tab: the rows are a list whatever is edited, removed or imported.
\* Of some positions of a list there is a last one.
LEMMA LastOne ==
  ASSUME NEW n \in Nat, NEW S, S \subseteq 1 .. n, S # {}
  PROVE  \E i \in S : \A j \in S : j <= i
  <1> DEFINE T == {n - i : i \in S}
             R == OpToRel(<, Nat)
  <1>0. \A i \in S : i \in Nat /\ i <= n /\ n - i \in Nat
    OBVIOUS
  <1>1. T \subseteq Nat /\ T # {}
    <2>1. \A y \in T : y \in Nat
      BY <1>0
    <2>2. T # {}
      OBVIOUS
    <2> HIDE DEF T
    <2> QED
      BY <2>1, <2>2
  <1>2. IsWellFoundedOn(R, Nat)
    BY NatLessThanWellFounded
  <1>3. \A a, b \in Nat : a < b => <<a, b>> \in R
    BY DEF OpToRel
  <1>7. \A i \in S : n - i \in T
    OBVIOUS
  <1>8. \A y \in T : \E i \in S : y = n - i
    OBVIOUS
  <1> HIDE DEF R, T
  <1>4. PICK x \in T : \A y \in T : ~(<<y, x>> \in R)
    BY <1>1, <1>2, WFMin
  <1>5. \A y \in T : x <= y
    <2> TAKE y \in T
    <2>1. x \in Nat /\ y \in Nat /\ ~(y < x)
      BY <1>1, <1>3, <1>4
    <2> QED
      BY <2>1
  <1>6. PICK i \in S : x = n - i
    BY <1>8
  <1>9. \A j \in S : j <= i
    <2> TAKE j \in S
    <2>1. n - i <= n - j /\ i \in Nat /\ j \in Nat
      BY <1>0, <1>5, <1>6, <1>7
    <2> QED
      BY <2>1
  <1> QED
    BY <1>9

\* What is left out of a list leaves a list: each of the others has its place.
LEMMA WithoutKeeps ==
  ASSUME rows \in Seq(Row), NEW name
  PROVE  Without(name) \in Seq(Row)
  <1> DEFINE stay == {j \in DOMAIN rows : rows[j].name # name}
             Before(j) == {h \in stay : h <= j}
             Place(j) == Cardinality(Before(j))
             n == Cardinality(stay)
             f == [j \in stay |-> Place(j)]
  <1>1. stay \subseteq 1 .. Len(rows) /\ Len(rows) \in Nat /\ \A j \in stay : j \in Nat /\ rows[j] \in Row
    OBVIOUS
  <1>2. IsFiniteSet(1 .. Len(rows)) /\ IsFiniteSet(stay) /\ n \in Nat
    <2>1. IsFiniteSet(1 .. Len(rows))
      BY <1>1, FS_Interval
    <2>2. IsFiniteSet(stay)
      BY <1>1, <2>1, FS_Subset
    <2> QED
      BY <2>1, <2>2, FS_CardinalityType
  <1> HIDE DEF stay, n
  <1>3. ASSUME NEW j \in stay
        PROVE  Place(j) \in 1 .. n
    <2>1. Before(j) \subseteq stay /\ j \in Before(j)
      BY <1>1
    <2>2. IsFiniteSet(Before(j)) /\ Place(j) \in Nat /\ Place(j) <= n
      BY <1>2, <2>1, FS_Subset, FS_CardinalityType DEF n
    <2>3. Place(j) # 0
      BY <2>1, <2>2, FS_EmptySet
    <2> QED
      BY <1>2, <2>2, <2>3
  <1>4. ASSUME NEW i \in stay, NEW j \in stay, i < j
        PROVE  Place(i) # Place(j)
    <2>0. i \in Nat /\ j \in Nat /\ \A h \in stay : h \in Nat
      BY <1>1
    <2>4. \A h \in stay : h <= i => h <= j
      BY <1>4, <2>0
    <2>5. j <= j /\ ~(j <= i)
      BY <1>4, <2>0
    <2>1. Before(i) \subseteq Before(j) /\ j \in Before(j) /\ j \notin Before(i) /\ Before(j) \subseteq stay
      BY <2>4, <2>5, Zenon
    <2>2. IsFiniteSet(Before(j))
      BY <1>2, <2>1, FS_Subset
    <2> HIDE DEF Before
    <2>3. Before(i) # Before(j)
      BY <2>1
    <2> QED
      BY <2>1, <2>2, <2>3, FS_Subset
  <1> HIDE DEF Before
  <1>5. f \in [stay -> 1 .. n] /\ \A i, j \in stay : f[i] = f[j] => i = j
    <2>1. \A j \in stay : Place(j) \in 1 .. n
      BY <1>3
    <2>2. \A i, j \in stay : i < j => Place(i) # Place(j)
      BY <1>4
    <2> HIDE DEF Place
    <2>3. \A i, j \in stay : f[i] = f[j] => i = j
      <3> SUFFICES ASSUME NEW i \in stay, NEW j \in stay, f[i] = f[j] PROVE i = j
        OBVIOUS
      <3>1. i \in Nat /\ j \in Nat /\ Place(i) = Place(j)
        BY <1>1
      <3> QED
        BY <2>2, <3>1
    <2> QED
      BY <2>1, <2>3
  <1>6. f \in Injection(stay, 1 .. n)
    BY <1>5 DEF Injection, IsInjective
  <1>7. IsFiniteSet(1 .. n) /\ Cardinality(1 .. n) = n
    BY <1>2, FS_Interval
  <1>8. f \in Surjection(stay, 1 .. n)
    BY <1>6, <1>7, FS_Injection DEF n
  <1>9. \A k \in 1 .. n : \E j \in stay : Place(j) = k
    <2> HIDE DEF Place
    <2> QED
      BY <1>8 DEF Surjection
  <1>10. \A k \in 1 .. n : rows[CHOOSE j \in stay : Place(j) = k] \in Row
    <2> HIDE DEF Place
    <2> QED
      BY <1>1, <1>9
  <1>11. Without(name) = [k \in 1 .. n |-> rows[CHOOSE j \in stay : Place(j) = k]]
    BY DEF Without, n, stay, Before
  <1> HIDE DEF Place
  <1>12. Without(name) \in [1 .. n -> Row]
    BY <1>10, <1>11
  <1> QED
    BY <1>2, <1>12

\* What is written of a list of rows is a users map.
LEMMA MapTyped ==
  ASSUME NEW rs \in Seq(Row)
  PROVE  YamlMap(rs) \in Users
  <1>1. ASSUME NEW n \in UserNames PROVE YamlMap(rs)[n] \in Values \cup {Gone}
    <2> DEFINE S == {i \in DOMAIN rs : rs[i].name = n}
               last == CHOOSE i \in DOMAIN rs : rs[i].name = n /\ \A j \in DOMAIN rs : rs[j].name = n => j <= i
    <2>1. CASE S # {}
      <3>1. S \subseteq 1 .. Len(rs) /\ Len(rs) \in Nat
        OBVIOUS
      <3>2. PICK i \in S : \A j \in S : j <= i
        BY <2>1, <3>1, LastOne
      <3>3. i \in DOMAIN rs /\ rs[i].name = n /\ \A j \in DOMAIN rs : rs[j].name = n => j <= i
        BY <3>2
      <3>4. last \in DOMAIN rs
        BY <3>3
      <3> HIDE DEF last
      <3>5. YamlMap(rs)[n] = rs[last].val
        BY <3>3 DEF YamlMap, last
      <3>6. rs[last] \in Row
        BY <3>4
      <3> QED
        BY <3>5, <3>6 DEF Row
    <2>2. CASE S = {}
      BY <2>2 DEF YamlMap
    <2> QED
      BY <2>1, <2>2
  <1> QED
    BY <1>1 DEF YamlMap, Users

\* The rows of a users map.
LEMMA RowsTyped ==
  ASSUME NEW us \in Users
  PROVE  RowsOf(us) \in Seq(Row)
  <1> DEFINE names == {m \in UserNames : us[m] # Gone}
             S == {[name |-> n, val |-> us[n]] : n \in names}
  <1>1. IsFiniteSet(S)
    <2>1. IsFiniteSet(UserNames)
      BY FS_Interval, UsersAssumption DEF UserNames
    <2>2. IsFiniteSet(names)
      BY <2>1, FS_Subset
    <2>3. [n \in names |-> [name |-> n, val |-> us[n]]] \in Surjection(names, S)
      BY DEF Surjection
    <2> QED
      BY <2>2, <2>3, FS_Surjection
  <1>2. S \subseteq Row
    BY DEF Users, Row
  <1>3. RowsOf(us) = SetToSeq(S)
    BY DEF RowsOf
  <1> HIDE DEF S
  <1>4. SetToSeq(S) \in [1 .. Cardinality(S) -> S] /\ Cardinality(S) \in Nat
    BY <1>1, ListedRow
  <1> QED
    BY <1>2, <1>3, <1>4

AUsersFile == [users : Users, rest : Homes \cup {NoOne}] \cup {NoFile}
APut == [rows : Seq(Row), home : Homes, doc : Homes \cup {NoOne}, mounted : BOOLEAN, state : {"sent", "done", "failed"}]
AGet == [kind : {"load", "poll"}, home : Homes, state : {"sent", "read", "stale", "failed"}, reply : AUsersFile]

UsersTyped ==
  /\ allYml \in [Homes -> AUsersFile] /\ home \in Homes /\ docOf \in Homes \cup {NoOne}
  /\ detailKey \in UserNames \cup {NoOne} /\ rows \in Seq(Row)
  /\ remoteFp \in Users \cup {<<>>} /\ localFp \in Users \cup {<<>>}
  /\ saveTimer = NoTimer \/ saveTimer \in [rows : Seq(Row), home : Homes, doc : Homes \cup {NoOne}]
  /\ enc # NoOne => enc \in [name : UserNames, home : Homes, doc : Homes \cup {NoOne}]
  /\ \A p \in puts : p \in APut
  /\ \A g \in gets : g \in AGet
UsersFlags ==
  /\ onTab \in BOOLEAN /\ loading \in BOOLEAN /\ failing \in BOOLEAN /\ externalChanged \in BOOLEAN
  /\ prompt \in BOOLEAN /\ lossy \in BOOLEAN /\ adrift \in BOOLEAN /\ strayed \in BOOLEAN

LEMMA FileParts ==
  ASSUME NEW f \in AUsersFile
  PROVE  InFile(f) \in Users /\ f.users \in Users \cup {<<>>} /\ f.rest \in Homes \cup {NoOne}
  <1>1. CASE f = NoFile
    BY <1>1 DEF NoFile, InFile, Users
  <1>2. CASE f # NoFile
    BY <1>2 DEF AUsersFile, InFile
  <1> QED
    BY <1>1, <1>2

LEMMA StaleTyped ==
  ASSUME UsersTyped, NEW w
  PROVE  \A g \in Stale(w, gets) : g \in AGet
  <1> TAKE g \in Stale(w, gets)
  <1>1. PICK h \in gets : g = IF h.home = w /\ h.state = "read" THEN [h EXCEPT !.state = "stale"] ELSE h
    BY DEF Stale
  <1>2. h \in AGet
    BY DEF UsersTyped
  <1>3. [h EXCEPT !.state = "stale"] \in AGet
    BY <1>2 DEF AGet
  <1> QED
    BY <1>1, <1>2, <1>3

\* The rows after an edit are typed, and so is what an edit schedules.
LEMMA PatchTyped ==
  ASSUME UsersTyped, NEW name
  PROVE  /\ Patched(name, LAMBDA r : [r EXCEPT !.val = 1 - @]) \in Seq(Row)
         /\ Patched(name, LAMBDA r : [r EXCEPT !.val = 1]) \in Seq(Row)
         /\ \A n \in UserNames : Patched(name, LAMBDA r : [r EXCEPT !.name = n]) \in Seq(Row)
  <1>1. rows \in Seq(Row) /\ \A i \in DOMAIN rows : rows[i] \in Row
    BY DEF UsersTyped
  <1>2. \A r \in Row : /\ [r EXCEPT !.val = 1 - r.val] \in Row /\ [r EXCEPT !.val = 1] \in Row
                       /\ \A n \in UserNames : [r EXCEPT !.name = n] \in Row
    BY DEF Row, Values
  <1>3. DOMAIN rows = 1 .. Len(rows) /\ Len(rows) \in Nat
    BY <1>1
  <1>4. ASSUME NEW next, next \in [1 .. Len(rows) -> Row]
        PROVE  next \in Seq(Row)
    BY <1>3, <1>4
  <1>5. Patched(name, LAMBDA r : [r EXCEPT !.val = 1 - @]) \in Seq(Row)
    <2>1. Patched(name, LAMBDA r : [r EXCEPT !.val = 1 - @])
            = [i \in DOMAIN rows |-> IF rows[i].name = name THEN [rows[i] EXCEPT !.val = 1 - rows[i].val] ELSE rows[i]]
      BY DEF Patched
    <2>2. Patched(name, LAMBDA r : [r EXCEPT !.val = 1 - @]) \in [1 .. Len(rows) -> Row]
      BY <1>1, <1>2, <1>3, <2>1
    <2> QED
      BY <1>4, <2>2
  <1>6. Patched(name, LAMBDA r : [r EXCEPT !.val = 1]) \in Seq(Row)
    <2>1. Patched(name, LAMBDA r : [r EXCEPT !.val = 1])
            = [i \in DOMAIN rows |-> IF rows[i].name = name THEN [rows[i] EXCEPT !.val = 1] ELSE rows[i]]
      BY DEF Patched
    <2>2. Patched(name, LAMBDA r : [r EXCEPT !.val = 1]) \in [1 .. Len(rows) -> Row]
      BY <1>1, <1>2, <1>3, <2>1
    <2> QED
      BY <1>4, <2>2
  <1>7. ASSUME NEW n \in UserNames
        PROVE  Patched(name, LAMBDA r : [r EXCEPT !.name = n]) \in Seq(Row)
    <2>1. Patched(name, LAMBDA r : [r EXCEPT !.name = n])
            = [i \in DOMAIN rows |-> IF rows[i].name = name THEN [rows[i] EXCEPT !.name = n] ELSE rows[i]]
      BY DEF Patched
    <2>2. Patched(name, LAMBDA r : [r EXCEPT !.name = n]) \in [1 .. Len(rows) -> Row]
      BY <1>1, <1>2, <1>3, <2>1
    <2> QED
      BY <1>4, <2>2
  <1> QED
    BY <1>5, <1>6, <1>7

LEMMA ScheduleTyped ==
  ASSUME UsersTyped, UsersFlags, NEW next \in Seq(Row), NEW w \in Homes, NEW doc \in Homes \cup {NoOne},
         ScheduleSave(next, w, doc)
  PROVE  /\ rows' \in Seq(Row) /\ localFp' \in Users /\ failing' \in BOOLEAN /\ adrift' \in BOOLEAN
         /\ saveTimer' = NoTimer \/ saveTimer' \in [rows : Seq(Row), home : Homes, doc : Homes \cup {NoOne}]
  <1>1. YamlMap(next) \in Users
    BY MapTyped
  <1>2. rows' = next /\ localFp' = YamlMap(next)
    BY DEF ScheduleSave
  <1>3. CASE YamlMap(next) = remoteFp
    <2>1. saveTimer' = saveTimer /\ failing' = failing /\ adrift' = (adrift \/ saveTimer # NoTimer \/ puts # {})
      BY <1>3 DEF ScheduleSave
    <2> QED
      BY <1>1, <1>2, <2>1 DEF UsersTyped, UsersFlags
  <1>4. CASE YamlMap(next) # remoteFp
    <2>1. saveTimer' = [rows |-> next, home |-> w, doc |-> doc] /\ failing' = FALSE /\ adrift' = FALSE
      BY <1>4 DEF ScheduleSave
    <2> QED
      BY <1>1, <1>2, <2>1
  <1> QED
    BY <1>3, <1>4

LEMMA EditTyped ==
  ASSUME UsersTyped, UsersFlags, NEW next \in Seq(Row), Edit(next), detailKey' \in UserNames \cup {NoOne}, strayed' \in BOOLEAN
  PROVE  UsersTyped' /\ UsersFlags'
  <1>1. home \in Homes /\ docOf \in Homes \cup {NoOne} /\ ScheduleSave(next, home, docOf)
    BY DEF Edit, UsersTyped
  <1>2. /\ rows' \in Seq(Row) /\ localFp' \in Users /\ failing' \in BOOLEAN /\ adrift' \in BOOLEAN
        /\ saveTimer' = NoTimer \/ saveTimer' \in [rows : Seq(Row), home : Homes, doc : Homes \cup {NoOne}]
    BY <1>1, ScheduleTyped
  <1>3. /\ UNCHANGED <<allYml, home, onTab, docOf, remoteFp, loading, externalChanged, enc, prompt, puts, gets>>
        /\ lossy' \in BOOLEAN
    BY DEF Edit
  <1>4. UsersTyped'
    BY <1>2, <1>3 DEF UsersTyped
  <1>5. UsersFlags'
    BY <1>2, <1>3 DEF UsersFlags
  <1> QED
    BY <1>4, <1>5

LEMMA AnswerTyped ==
  ASSUME UsersTyped, UsersFlags, NEW g \in AGet, ShowAnswer(g)
  PROVE  /\ rows' \in Seq(Row) /\ docOf' \in Homes \cup {NoOne}
         /\ remoteFp' \in Users \cup {<<>>} /\ localFp' \in Users \cup {<<>>} /\ detailKey' \in UserNames \cup {NoOne}
         /\ prompt' \in BOOLEAN /\ adrift' \in BOOLEAN /\ lossy' \in BOOLEAN /\ strayed' \in BOOLEAN
  <1>1. g.reply \in AUsersFile
    BY DEF AGet
  <1>2. InFile(g.reply) \in Users /\ g.reply.users \in Users \cup {<<>>} /\ g.reply.rest \in Homes \cup {NoOne}
    BY <1>1, FileParts
  <1>3. RowsOf(InFile(g.reply)) \in Seq(Row)
    BY <1>2, RowsTyped
  <1>4. rows' \in Seq(Row) /\ docOf' \in Homes \cup {NoOne} /\ remoteFp' \in Users \cup {<<>>} /\ localFp' \in Users \cup {<<>>}
    BY <1>2, <1>3 DEF ShowAnswer
  <1>5. detailKey' \in UserNames \cup {NoOne}
    BY DEF ShowAnswer, UsersTyped
  <1>6. prompt' \in BOOLEAN /\ adrift' \in BOOLEAN /\ lossy' \in BOOLEAN /\ strayed' \in BOOLEAN
    BY DEF ShowAnswer
  <1> QED
    BY <1>4, <1>5, <1>6

\* The parts a request, an answer or an edit leaves alone.
LEMMA GetTyped ==
  ASSUME UsersTyped
  PROVE  \A kind \in {"load", "poll"}, w \in Homes :
           Get(kind) \in AGet /\ [Get(kind) EXCEPT !.home = w] \in AGet
  BY DEF Get, AGet, AUsersFile, UsersTyped

LEMMA UsersTypedStep ==
  ASSUME UsersTyped, UsersFlags, [UsersNext]_usersVars
  PROVE  UsersTyped' /\ UsersFlags'
  <1> DEFINE ATimer == [rows : Seq(Row), home : Homes, doc : Homes \cup {NoOne}]
  <1>1. CASE UNCHANGED usersVars
    <2>1. UNCHANGED <<allYml, home, onTab, rows, docOf, remoteFp, localFp, saveTimer, loading, failing, externalChanged, detailKey,
                      enc, prompt, puts, gets, lossy, adrift, strayed>>
      BY <1>1 DEF usersVars, panelState
    <2>8. UsersTyped'
      BY <2>1 DEF UsersTyped
    <2>9. UsersFlags'
      BY <2>1 DEF UsersFlags
    <2> QED
      BY <2>8, <2>9
  <1>2. CASE FireSave
    <2>1. saveTimer # NoTimer /\ saveTimer' = NoTimer
          /\ puts' = puts \cup {[rows |-> saveTimer.rows, home |-> saveTimer.home, doc |-> saveTimer.doc,
                                 mounted |-> TRUE, state |-> "sent"]}
          /\ lossy' \in BOOLEAN /\ adrift' \in BOOLEAN
          /\ UNCHANGED <<allYml, home, onTab, rows, docOf, remoteFp, localFp, loading, failing, externalChanged,
                         detailKey, enc, prompt, gets, strayed>>
      BY <1>2 DEF FireSave
    <2>2. saveTimer \in ATimer
      BY <2>1 DEF UsersTyped
    <2>3. [rows |-> saveTimer.rows, home |-> saveTimer.home, doc |-> saveTimer.doc, mounted |-> TRUE, state |-> "sent"] \in APut
      BY <2>2 DEF APut
    <2>4. \A p \in puts' : p \in APut
      BY <2>1, <2>3 DEF UsersTyped
    <2>8. UsersTyped'
      BY <2>1, <2>4 DEF UsersTyped
    <2>9. UsersFlags'
      BY <2>1, <2>4 DEF UsersFlags
    <2> QED
      BY <2>8, <2>9
  <1>3. CASE OpenUsersTab
    <2>1. /\ gets' = gets \cup {Get("load")}
          /\ onTab' = TRUE /\ loading' = TRUE /\ rows' = <<>> /\ docOf' = NoOne /\ remoteFp' = <<>> /\ localFp' = <<>>
          /\ failing' = FALSE /\ externalChanged' = FALSE /\ detailKey' = NoOne /\ adrift' = FALSE
          /\ UNCHANGED <<allYml, home, saveTimer, enc, prompt, puts, lossy, strayed>>
      BY <1>3 DEF OpenUsersTab, Request
    <2>2. \A g \in gets' : g \in AGet
      BY <2>1, GetTyped DEF UsersTyped
    <2>3. <<>> \in Seq(Row)
      OBVIOUS
    <2>8. UsersTyped'
      BY <2>1, <2>2, <2>3 DEF UsersTyped
    <2> QED
      BY <2>1, <2>2, <2>8 DEF UsersFlags
  <1>4. CASE LeaveUsersTab
    <2>1. /\ onTab' = FALSE /\ saveTimer' = NoTimer /\ lossy' \in BOOLEAN
          /\ puts' = {[p EXCEPT !.mounted = FALSE] : p \in puts} /\ gets' = {} /\ enc' = NoOne
          /\ UNCHANGED <<allYml, home, rows, docOf, remoteFp, localFp, loading, failing, externalChanged, detailKey,
                         prompt, adrift, strayed>>
      BY <1>4 DEF LeaveUsersTab
    <2>2. \A p \in APut : [p EXCEPT !.mounted = FALSE] \in APut
      BY DEF APut
    <2>3. \A p \in puts' : p \in APut
      BY <2>1, <2>2 DEF UsersTyped
    <2>8. UsersTyped'
      BY <2>1, <2>3 DEF UsersTyped
    <2>9. UsersFlags'
      BY <2>1, <2>3 DEF UsersFlags
    <2> QED
      BY <2>8, <2>9
  <1>5. CASE Reload
    <2>1. /\ gets' = gets \cup {Get("load")} /\ loading' = TRUE
          /\ UNCHANGED <<allYml, home, onTab, rows, docOf, remoteFp, localFp, saveTimer, failing, externalChanged, detailKey,
                         enc, prompt, puts, lossy, adrift, strayed>>
      BY <1>5 DEF Reload, Request
    <2>2. \A g \in gets' : g \in AGet
      BY <2>1, GetTyped DEF UsersTyped
    <2>8. UsersTyped'
      BY <2>1, <2>2 DEF UsersTyped
    <2>9. UsersFlags'
      BY <2>1, <2>2 DEF UsersFlags
    <2> QED
      BY <2>8, <2>9
  <1>6. CASE PollTick
    <2>1. /\ gets' = gets \cup {Get("poll")}
          /\ UNCHANGED <<allYml, home, onTab, rows, docOf, remoteFp, localFp, saveTimer, loading, failing, externalChanged, detailKey,
                         enc, prompt, puts, lossy, adrift, strayed>>
      BY <1>6 DEF PollTick, Request, panelState
    <2>2. \A g \in gets' : g \in AGet
      BY <2>1, GetTyped DEF UsersTyped
    <2>8. UsersTyped'
      BY <2>1, <2>2 DEF UsersTyped
    <2>9. UsersFlags'
      BY <2>1, <2>2 DEF UsersFlags
    <2> QED
      BY <2>8, <2>9
  <1>7. CASE CloseDetail
    <2>1. /\ detailKey' = NoOne
          /\ UNCHANGED <<allYml, home, onTab, rows, docOf, remoteFp, localFp, saveTimer, loading, failing, externalChanged,
                         enc, prompt, puts, gets, lossy, adrift, strayed>>
      BY <1>7 DEF CloseDetail
    <2>8. UsersTyped'
      BY <2>1 DEF UsersTyped
    <2>9. UsersFlags'
      BY <2>1 DEF UsersFlags
    <2> QED
      BY <2>8, <2>9
  <1>8. CASE PasswordEncrypted
    <2> DEFINE next == Patched(enc.name, LAMBDA r : [r EXCEPT !.val = 1])
    <2>1. /\ enc # NoOne /\ enc' = NoOne /\ prompt' = FALSE /\ ScheduleSave(next, enc.home, enc.doc)
          /\ lossy' \in BOOLEAN /\ strayed' \in BOOLEAN
          /\ UNCHANGED <<allYml, home, onTab, docOf, remoteFp, loading, externalChanged, detailKey, puts, gets>>
      BY <1>8 DEF PasswordEncrypted
    <2>2. enc.home \in Homes /\ enc.doc \in Homes \cup {NoOne}
      BY <2>1 DEF UsersTyped
    <2>3. next \in Seq(Row)
      BY PatchTyped
    <2> HIDE DEF next
    <2>4. /\ rows' \in Seq(Row) /\ localFp' \in Users /\ failing' \in BOOLEAN /\ adrift' \in BOOLEAN
          /\ saveTimer' = NoTimer \/ saveTimer' \in ATimer
      BY <2>1, <2>2, <2>3, ScheduleTyped
    <2>5. UsersTyped'
      BY <2>1, <2>4 DEF UsersTyped
    <2> QED
      BY <2>1, <2>4, <2>5 DEF UsersFlags
  <1>9. CASE EncryptFailed
    <2>1. /\ enc' = NoOne /\ prompt' = FALSE
          /\ UNCHANGED <<allYml, home, onTab, rows, docOf, remoteFp, localFp, saveTimer, loading, failing, externalChanged, detailKey,
                         puts, gets, lossy, adrift, strayed>>
      BY <1>9 DEF EncryptFailed, panelState
    <2>8. UsersTyped'
      BY <2>1 DEF UsersTyped
    <2>9. UsersFlags'
      BY <2>1 DEF UsersFlags
    <2> QED
      BY <2>8, <2>9
  <1>10. ASSUME NEW p \in puts, PutApplied(p) PROVE UsersTyped' /\ UsersFlags'
    <2>1. UNCHANGED <<home, onTab, rows, docOf, remoteFp, localFp, saveTimer, loading, failing, externalChanged, detailKey,
                      enc, prompt, adrift, strayed>>
      BY <1>10 DEF PutApplied, panelState
    <2>2. p \in APut /\ [p EXCEPT !.state = "done"] \in APut /\ [p EXCEPT !.state = "failed"] \in APut
      <3>1. p \in APut
        BY DEF UsersTyped
      <3> QED
        BY <3>1 DEF APut
    <2>3. puts' = (puts \ {p}) \cup {[p EXCEPT !.state = "done"]} \/ puts' = (puts \ {p}) \cup {[p EXCEPT !.state = "failed"]}
      BY <1>10 DEF PutApplied
    <2>4. \A q \in puts' : q \in APut
      BY <2>2, <2>3 DEF UsersTyped
    <2>5. lossy' = lossy \/ lossy' = TRUE
      BY <1>10 DEF PutApplied
    <2>6. gets' = gets \/ gets' = Stale(p.home, gets)
      BY <1>10 DEF PutApplied
    <2>7. \A g \in gets' : g \in AGet
      BY <2>6, StaleTyped DEF UsersTyped
    <2>8. allYml' = allYml \/ allYml' = [allYml EXCEPT ![p.home] = [users |-> YamlMap(p.rows), rest |-> p.doc]]
      BY <1>10 DEF PutApplied
    <2>9. [users |-> YamlMap(p.rows), rest |-> p.doc] \in AUsersFile
      <3>1. p.rows \in Seq(Row) /\ p.doc \in Homes \cup {NoOne}
        BY <2>2 DEF APut
      <3>2. YamlMap(p.rows) \in Users
        BY <3>1, MapTyped
      <3> QED
        BY <3>1, <3>2 DEF AUsersFile
    <2>10. allYml' \in [Homes -> AUsersFile]
      BY <2>8, <2>9 DEF UsersTyped
    <2>11. UsersTyped'
      BY <2>1, <2>4, <2>7, <2>10 DEF UsersTyped
    <2> QED
      BY <2>1, <2>5, <2>11 DEF UsersFlags
  <1>11. ASSUME NEW p \in puts, PutAnswered(p) PROVE UsersTyped' /\ UsersFlags'
    <2>1. /\ puts' = puts \ {p}
          /\ UNCHANGED <<allYml, home, onTab, rows, docOf, saveTimer, loading, externalChanged, detailKey, enc, gets,
                         lossy, adrift, strayed>>
      BY <1>11 DEF PutAnswered
    <2>2. p.rows \in Seq(Row)
      BY DEF UsersTyped, APut
    <2>3. YamlMap(p.rows) \in Users
      BY <2>2, MapTyped
    <2>4. /\ UNCHANGED <<remoteFp, localFp>> \/ (remoteFp' = YamlMap(p.rows) /\ localFp' = YamlMap(p.rows))
          /\ prompt' = prompt \/ prompt' = FALSE
          /\ failing' = failing \/ failing' = FALSE \/ failing' = TRUE
      BY <1>11 DEF PutAnswered
    <2>5. UsersTyped'
      BY <2>1, <2>3, <2>4 DEF UsersTyped
    <2> QED
      BY <2>1, <2>4, <2>5 DEF UsersFlags
  <1>12. ASSUME NEW g \in gets, FileRead(g) PROVE UsersTyped' /\ UsersFlags'
    <2>1. UNCHANGED <<allYml, home, onTab, rows, docOf, remoteFp, localFp, saveTimer, loading, failing, externalChanged, detailKey,
                      enc, prompt, puts, lossy, adrift, strayed>>
      BY <1>12 DEF FileRead, panelState
    <2>2. g \in AGet /\ allYml \in [Homes -> AUsersFile]
      BY DEF UsersTyped
    <2>3. [g EXCEPT !.state = "read", !.reply = allYml[g.home]] \in AGet /\ [g EXCEPT !.state = "failed"] \in AGet
      BY <2>2 DEF AGet
    <2>4. PICK r \in {[g EXCEPT !.state = "read", !.reply = allYml[g.home]], [g EXCEPT !.state = "failed"]} :
            gets' = (gets \ {g}) \cup {r}
      BY <1>12 DEF FileRead
    <2>5. \A h \in gets' : h \in AGet
      BY <2>3, <2>4 DEF UsersTyped
    <2>8. UsersTyped'
      BY <2>1, <2>5 DEF UsersTyped
    <2>9. UsersFlags'
      BY <2>1, <2>5 DEF UsersFlags
    <2> QED
      BY <2>8, <2>9
  <1>13. ASSUME NEW g \in gets, LoadAnswered(g) PROVE UsersTyped' /\ UsersFlags'
    <2>1. /\ gets' = gets \ {g} /\ loading' = FALSE
          /\ UNCHANGED <<allYml, home, onTab, saveTimer, failing, enc, puts>>
      BY <1>13 DEF LoadAnswered
    <2>2. CASE g.state = "failed"
      <3>1. /\ strayed' \in BOOLEAN
            /\ UNCHANGED <<rows, docOf, remoteFp, localFp, externalChanged, detailKey, prompt, adrift, lossy>>
        BY <1>13, <2>2 DEF LoadAnswered
      <3>2. \A h \in gets' : h \in AGet
        BY <2>1 DEF UsersTyped
      <3>8. UsersTyped'
        BY <2>1, <3>1, <3>2 DEF UsersTyped
      <3> QED
        BY <2>1, <3>1, <3>2, <3>8 DEF UsersFlags
    <2>3. CASE g.state # "failed"
      <3>1. ShowAnswer(g) /\ externalChanged' = FALSE
        BY <1>13, <2>3 DEF LoadAnswered
      <3>2. g \in AGet
        BY DEF UsersTyped
      <3>3. /\ rows' \in Seq(Row) /\ docOf' \in Homes \cup {NoOne}
            /\ remoteFp' \in Users \cup {<<>>} /\ localFp' \in Users \cup {<<>>} /\ detailKey' \in UserNames \cup {NoOne}
            /\ prompt' \in BOOLEAN /\ adrift' \in BOOLEAN /\ lossy' \in BOOLEAN /\ strayed' \in BOOLEAN
        BY <3>1, <3>2, AnswerTyped
      <3>8. UsersTyped'
        BY <2>1, <3>1, <3>3 DEF UsersTyped
      <3>9. UsersFlags'
        BY <2>1, <3>1, <3>3 DEF UsersFlags
      <3> QED
        BY <3>8, <3>9
    <2> QED
      BY <2>2, <2>3
  <1>14. ASSUME NEW g \in gets, PollAnswered(g) PROVE UsersTyped' /\ UsersFlags'
    <2>1. /\ gets' = gets \ {g}
          /\ UNCHANGED <<allYml, home, onTab, saveTimer, loading, failing, enc, puts>>
      BY <1>14 DEF PollAnswered
    <2>2. CASE ~ShowAnswer(g)
      <3>1. /\ externalChanged' = externalChanged \/ externalChanged' = TRUE
            /\ UNCHANGED <<rows, docOf, remoteFp, localFp, detailKey, prompt, adrift, lossy, strayed>>
        BY <1>14, <2>2 DEF PollAnswered
      <3>2. \A h \in gets' : h \in AGet
        BY <2>1 DEF UsersTyped
      <3>8. UsersTyped'
        BY <2>1, <3>1, <3>2 DEF UsersTyped
      <3> QED
        BY <2>1, <3>1, <3>2, <3>8 DEF UsersFlags
    <2>3. CASE ShowAnswer(g)
      <3>1. externalChanged' = externalChanged \/ externalChanged' = TRUE
        BY <1>14 DEF PollAnswered
      <3>2. g \in AGet
        BY DEF UsersTyped
      <3>3. /\ rows' \in Seq(Row) /\ docOf' \in Homes \cup {NoOne}
            /\ remoteFp' \in Users \cup {<<>>} /\ localFp' \in Users \cup {<<>>} /\ detailKey' \in UserNames \cup {NoOne}
            /\ prompt' \in BOOLEAN /\ adrift' \in BOOLEAN /\ lossy' \in BOOLEAN /\ strayed' \in BOOLEAN
        BY <2>3, <3>2, AnswerTyped
      <3>8. UsersTyped'
        BY <2>1, <3>1, <3>3 DEF UsersTyped
      <3>9. UsersFlags'
        BY <2>1, <3>1, <3>3 DEF UsersFlags
      <3> QED
        BY <3>8, <3>9
    <2> QED
      BY <2>2, <2>3
  <1>15. ASSUME NEW w \in Homes, SwitchHome(w) PROVE UsersTyped' /\ UsersFlags'
    <2>1. /\ home' = w
          /\ (gets' = gets \/ gets' = gets \cup {[Get("load") EXCEPT !.home = w]})
          /\ (loading' = loading \/ loading' = TRUE)
          /\ UNCHANGED <<allYml, onTab, rows, docOf, remoteFp, localFp, saveTimer, failing, externalChanged, detailKey,
                         enc, prompt, puts, lossy, adrift, strayed>>
      BY <1>15 DEF SwitchHome
    <2>2. [Get("load") EXCEPT !.home = w] \in AGet
      BY GetTyped
    <2>3. \A g \in gets' : g \in AGet
      BY <2>1, <2>2 DEF UsersTyped
    <2>8. UsersTyped'
      BY <2>1, <2>3 DEF UsersTyped
    <2> QED
      BY <2>1, <2>8 DEF UsersFlags
  <1>16. ASSUME NEW w \in Homes, WrittenByOthers(w) PROVE UsersTyped' /\ UsersFlags'
    <2>1. /\ gets' = Stale(w, gets) /\ lossy' \in BOOLEAN
          /\ UNCHANGED <<home, onTab, rows, docOf, remoteFp, localFp, saveTimer, loading, failing, externalChanged, detailKey,
                         enc, prompt, puts, adrift, strayed>>
      BY <1>16 DEF WrittenByOthers, panelState
    <2>2. PICK f \in {NoFile} \cup {[users |-> [InFile(allYml[w]) EXCEPT ![1] = v], rest |-> w] : v \in {1, Gone}} :
            allYml' = [allYml EXCEPT ![w] = f]
      BY <1>16 DEF WrittenByOthers
    <2>3. InFile(allYml[w]) \in Users
      BY FileParts DEF UsersTyped
    <2>4. f \in AUsersFile
      <3>1. CASE f = NoFile
        BY <3>1 DEF AUsersFile
      <3>2. CASE f # NoFile
        <4>1. PICK v \in {1, Gone} : f = [users |-> [InFile(allYml[w]) EXCEPT ![1] = v], rest |-> w]
          BY <2>2, <3>2
        <4>2. [InFile(allYml[w]) EXCEPT ![1] = v] \in Users
          BY <2>3 DEF Users, Values
        <4> QED
          BY <4>1, <4>2 DEF AUsersFile
      <3> QED
        BY <3>1, <3>2
    <2>5. allYml' \in [Homes -> AUsersFile]
      BY <2>2, <2>4 DEF UsersTyped
    <2>6. \A g \in gets' : g \in AGet
      BY <2>1, StaleTyped
    <2>8. UsersTyped'
      BY <2>1, <2>5, <2>6 DEF UsersTyped
    <2> QED
      BY <2>1, <2>5, <2>6, <2>8 DEF UsersFlags
  <1>17. ASSUME UNCHANGED strayed, NEW n \in UserNames, CreateUser(n) PROVE UsersTyped' /\ UsersFlags'
    <2> DEFINE next == Append(rows, [name |-> n, val |-> 0])
    <2>1. Edit(next) /\ detailKey' \in UserNames \cup {NoOne} /\ strayed' \in BOOLEAN
      BY <1>17 DEF CreateUser, UsersTyped, UsersFlags
    <2>2. next \in Seq(Row)
      BY DEF UsersTyped, Row, Values
    <2> HIDE DEF next
    <2> QED
      BY <2>1, <2>2, EditTyped
  <1>18. ASSUME UNCHANGED strayed, NEW i \in DOMAIN rows, ChangeField(i) PROVE UsersTyped' /\ UsersFlags'
    <2> DEFINE next == Patched(rows[i].name, LAMBDA r : [r EXCEPT !.val = 1 - @])
    <2>1. Edit(next) /\ detailKey' \in UserNames \cup {NoOne} /\ strayed' \in BOOLEAN
      BY <1>18 DEF ChangeField, UsersTyped, UsersFlags
    <2>2. next \in Seq(Row)
      BY PatchTyped
    <2> HIDE DEF next
    <2> QED
      BY <2>1, <2>2, EditTyped
  <1>19. ASSUME UNCHANGED strayed, NEW i \in DOMAIN rows, RemoveUser(i) PROVE UsersTyped' /\ UsersFlags'
    <2> DEFINE next == Without(rows[i].name)
    <2>1. Edit(next) /\ detailKey' \in UserNames \cup {NoOne} /\ strayed' \in BOOLEAN
      BY <1>19 DEF RemoveUser, UsersTyped, UsersFlags
    <2>2. next \in Seq(Row)
      BY WithoutKeeps DEF UsersTyped
    <2> HIDE DEF next
    <2> QED
      BY <2>1, <2>2, EditTyped
  <1>20. ASSUME UNCHANGED strayed, NEW i \in DOMAIN rows, OpenDetail(i) PROVE UsersTyped' /\ UsersFlags'
    <2>1. /\ detailKey' = rows[i].name
          /\ UNCHANGED <<allYml, home, onTab, rows, docOf, remoteFp, localFp, saveTimer, loading, failing, externalChanged,
                         enc, prompt, puts, gets, lossy, adrift, strayed>>
      BY <1>20 DEF OpenDetail
    <2>2. rows[i].name \in UserNames
      <3>1. rows[i] \in Row
        BY DEF UsersTyped
      <3> QED
        BY <3>1 DEF Row
    <2>8. UsersTyped'
      BY <2>1, <2>2 DEF UsersTyped
    <2>9. UsersFlags'
      BY <2>1, <2>2 DEF UsersFlags
    <2> QED
      BY <2>8, <2>9
  <1>21. ASSUME UNCHANGED strayed, NEW i \in DOMAIN rows, EncryptPassword(i) PROVE UsersTyped' /\ UsersFlags'
    <2>1. /\ enc' = [name |-> rows[i].name, home |-> home, doc |-> docOf] /\ prompt' = TRUE
          /\ UNCHANGED <<allYml, home, onTab, rows, docOf, remoteFp, localFp, saveTimer, loading, failing, externalChanged, detailKey,
                         puts, gets, lossy, adrift, strayed>>
      BY <1>21 DEF EncryptPassword, panelState
    <2>2. rows[i].name \in UserNames
      <3>1. rows[i] \in Row
        BY DEF UsersTyped
      <3> QED
        BY <3>1 DEF Row
    <2>3. enc' \in [name : UserNames, home : Homes, doc : Homes \cup {NoOne}]
      BY <2>1, <2>2 DEF UsersTyped
    <2>8. UsersTyped'
      BY <2>1, <2>3 DEF UsersTyped
    <2>9. UsersFlags'
      BY <2>1, <2>3 DEF UsersFlags
    <2> QED
      BY <2>8, <2>9
  <1>22. ASSUME UNCHANGED strayed, NEW i \in DOMAIN rows, NEW n \in UserNames,
                RenameInDialog(i, n) \/ \E beside \in SUBSET DOMAIN rows : RenameInTable(i, n, beside)
         PROVE  UsersTyped' /\ UsersFlags'
    <2> DEFINE next == Patched(rows[i].name, LAMBDA r : [r EXCEPT !.name = n])
    <2>1. CASE RenameInDialog(i, n)
      BY <2>1, <1>22, PatchTyped, EditTyped DEF RenameInDialog, UsersTyped, UsersFlags
    <2>2. CASE \E beside \in SUBSET DOMAIN rows : RenameInTable(i, n, beside)
      <3>1. Edit(next) /\ detailKey' = detailKey
        BY <2>2 DEF RenameInTable
      <3>2. detailKey' \in UserNames \cup {NoOne} /\ strayed' \in BOOLEAN
        BY <3>1, <1>22 DEF UsersTyped, UsersFlags
      <3>3. next \in Seq(Row)
        BY PatchTyped
      <3> HIDE DEF next
      <3> QED
        BY <3>1, <3>2, <3>3, EditTyped
    <2> QED
      BY <1>22, <2>1, <2>2
  <1>23. CASE ImportFile([n \in UserNames |-> IF n = 1 THEN 1 ELSE Gone])
    <2> DEFINE us == [n \in UserNames |-> IF n = 1 THEN 1 ELSE Gone]
               both == [n \in UserNames |-> IF us[n] # Gone THEN us[n] ELSE YamlMap(rows)[n]]
               next == Imported(us)
    <2>1. Edit(next) /\ detailKey' = detailKey /\ strayed' \in BOOLEAN
      BY <1>23 DEF ImportFile
    <2>2. YamlMap(rows) \in Users
      BY MapTyped DEF UsersTyped
    <2>3. both \in Users
      BY <2>2 DEF Users, Values
    <2>4. next = RowsOf(both)
      BY DEF Imported
    <2> HIDE DEF both, us
    <2>5. next \in Seq(Row)
      BY <2>3, <2>4, RowsTyped
    <2>6. detailKey' \in UserNames \cup {NoOne}
      BY <2>1 DEF UsersTyped
    <2> HIDE DEF next
    <2> QED
      BY <2>1, <2>5, <2>6, EditTyped
  <1> QED
    BY <1>1, <1>2, <1>3, <1>4, <1>5, <1>6, <1>7, <1>8, <1>9, <1>10, <1>11, <1>12, <1>13, <1>14, <1>15, <1>16, <1>17, <1>18,
       <1>19, <1>20, <1>21, <1>22, <1>23 DEF UsersNext, ChangeInTable, ChangeInDialog

LEMMA UsersTypedInitially == UsersInit => UsersTyped /\ UsersFlags
  <1> SUFFICES ASSUME UsersInit PROVE UsersTyped /\ UsersFlags
    OBVIOUS
  <1>1. FirstFiles \subseteq AUsersFile /\ NoFile \in AUsersFile
    BY DEF FirstFiles, AUsersFile, Users, Values
  <1>2. allYml \in [Homes -> AUsersFile]
    BY <1>1 DEF UsersInit
  <1>3. home \in Homes
    BY UsersAssumption DEF UsersInit
  <1>4. UsersTyped
    BY <1>2, <1>3 DEF UsersInit, UsersTyped
  <1> QED
    BY <1>4 DEF UsersInit, UsersFlags

\* The Users tab keeps its types, whatever is written by others meanwhile.
LEMMA UsersAllTyped == UsersSpec => []UsersTypeOK
  <1>1. UsersTyped /\ UsersFlags => UsersTypeOK
    <2> SUFFICES ASSUME UsersTyped, UsersFlags PROVE UsersTypeOK
      OBVIOUS
    <2>1. \A w \in Homes : allYml[w] # NoFile => allYml[w] \in [users : Users, rest : Homes \cup {NoOne}]
      BY DEF UsersTyped, AUsersFile
    <2>2. \A i \in DOMAIN rows : rows[i] \in Row
      BY DEF UsersTyped
    <2>3. \A p \in puts : p.state \in {"sent", "done", "failed"} /\ p.home \in Homes
      BY DEF UsersTyped, APut
    <2>4. \A g \in gets : g.kind \in {"load", "poll"} /\ g.state \in {"sent", "read", "stale", "failed"}
      BY DEF UsersTyped, AGet
    <2>5. {onTab, loading, failing, externalChanged, prompt, lossy, adrift, strayed} \subseteq BOOLEAN
      BY Zenon DEF UsersFlags
    <2> QED
      BY <2>1, <2>2, <2>3, <2>4, <2>5 DEF UsersTypeOK, UsersTyped
  <1>2. (UsersTyped /\ UsersFlags) /\ [UsersNext]_usersVars => (UsersTyped /\ UsersFlags)'
    BY UsersTypedStep
  <1> QED
    BY <1>1, <1>2, UsersTypedInitially, PTL DEF UsersSpec

-----------------------------------------------------------------------------
\* The users overview.
\* The rest of the types: the selection, the dialog, and what was removed.
OverviewRest ==
  /\ usersSelection \subseteq Logins /\ removedHere \subseteq Logins
  /\ editorMode \in {"create", "edit"} /\ editingUsername \in Logins \cup {NoLogin}
  /\ importDue \in BOOLEAN
  /\ \A l \in teamLoads : l.action \in {"overview", "add", "import"}
  /\ \A s \in teamSaves : s.removed \subseteq Logins

LEMMA RemovedStays ==
  ASSUME NEW r, IsSave(r)
  PROVE  [r EXCEPT !.amiss = TRUE].removed = r.removed /\ [r EXCEPT !.written = TRUE].removed = r.removed
  <1>1. PICK a : a = [r EXCEPT !.amiss = TRUE] /\ a.removed = r.removed
    BY Marked
  <1>2. PICK w : w = [r EXCEPT !.written = TRUE] /\ w.removed = r.removed
    BY Marked
  <1> QED
    BY <1>1, <1>2, Zenon

LEMMA OverviewRestStep == OverviewInv /\ OverviewRest /\ [OverviewNext]_overviewVars => OverviewRest'
  <1> SUFFICES ASSUME OverviewInv, OverviewRest, [OverviewNext]_overviewVars PROVE OverviewRest'
    OBVIOUS
  <1>0. OverviewTypes
    BY DEF OverviewInv
  <1>t. usersDraft \subseteq Logins /\ \A s \in teamSaves : IsSave(s)
    BY <1>0 DEF OverviewTypes
  <1> USE DEF OverviewRest, draftState
  <1>1. CASE UNCHANGED overviewVars
    BY <1>1 DEF overviewVars
  <1>2. ASSUME NEW a \in {"overview", "add", "import"}, OpenUsersEditor(a) PROVE OverviewRest'
    BY <1>2 DEF OpenUsersEditor
  <1>3. ASSUME NEW l \in teamLoads, UsersLoaded(l) PROVE OverviewRest'
    BY <1>3 DEF UsersLoaded
  <1>4. ASSUME NEW s \in teamSaves, SaveWritten(s) PROVE OverviewRest'
    <2>1. UNCHANGED <<usersSelection, removedHere, editorMode, editingUsername, importDue, teamLoads>>
      BY <1>4 DEF SaveWritten
    <2>2. teamSaves' = {[r EXCEPT !.amiss = TRUE] : r \in teamSaves \ {s}} \cup {[s EXCEPT !.written = TRUE]}
      BY <1>4 DEF SaveWritten
    <2>3. ASSUME NEW t \in teamSaves' PROVE t.removed \subseteq Logins
      <3>1. PICK r \in teamSaves : t = [r EXCEPT !.amiss = TRUE] \/ t = [r EXCEPT !.written = TRUE]
        BY <2>2
      <3>2. t.removed = r.removed
        BY <1>t, <3>1, RemovedStays, Zenon
      <3> QED
        BY <3>2
    <2> QED
      BY <2>1, <2>3
  <1>5. ASSUME NEW s \in teamSaves, SaveAnswered(s) PROVE OverviewRest'
    BY <1>5 DEF SaveAnswered
  <1>6. ASSUME NEW w \in TeamSpaces, SwitchTeamSpace(w) PROVE OverviewRest'
    BY <1>6 DEF SwitchTeamSpace
  <1>7. ASSUME NEW w \in TeamSpaces, WrittenElsewhere(w) PROVE OverviewRest'
    <2>1. UNCHANGED <<usersSelection, removedHere, editorMode, editingUsername, importDue, teamLoads>>
      BY <1>7 DEF WrittenElsewhere
    <2>2. teamSaves' = {[s EXCEPT !.amiss = TRUE] : s \in teamSaves}
      BY <1>7 DEF WrittenElsewhere
    <2>3. ASSUME NEW t \in teamSaves' PROVE t.removed \subseteq Logins
      <3>1. PICK r \in teamSaves : t = [r EXCEPT !.amiss = TRUE] \/ t = [r EXCEPT !.written = TRUE]
        BY <2>2
      <3>2. t.removed = r.removed
        BY <1>t, <3>1, RemovedStays, Zenon
      <3> QED
        BY <3>2
    <2> QED
      BY <2>1, <2>3
  <1>8. ASSUME NEW u \in Logins, StartEditUserEditor(u) \/ RemoveUserDraft(u) \/ ToggleUserSelection(u) PROVE OverviewRest'
    BY <1>8 DEF StartEditUserEditor, RemoveUserDraft, ToggleUserSelection, Forget, Drafted
  <1>9. ASSUME NEW u \in Logins, ApplyUserEditor(u) PROVE OverviewRest'
    BY <1>9 DEF ApplyUserEditor, Drafted
  <1>10. ASSUME NEW checked \in BOOLEAN, SetUsersSelectionAll(checked) PROVE OverviewRest'
    BY <1>t, <1>10 DEF SetUsersSelectionAll, Drafted
  <1>11. ASSUME NEW us \in SUBSET Logins, HandleUsersImportSelect(us) PROVE OverviewRest'
    BY <1>t, <1>11 DEF HandleUsersImportSelect, Drafted
  <1>12. CASE CloseUsersEditor \/ StartCreateUserEditor \/ CloseUserEntryModal
    BY <1>12 DEF CloseUsersEditor, StartCreateUserEditor, CloseUserEntryModal, Drafted
  <1>13. CASE DeleteSelectedUsers
    BY <1>t, <1>13 DEF DeleteSelectedUsers, Forget, Drafted
  <1>14. CASE SaveWorkspaceUsers
    BY <1>14 DEF SaveWorkspaceUsers
  <1> QED
    BY <1>1, <1>2, <1>3, <1>4, <1>5, <1>6, <1>7, <1>8, <1>9, <1>10, <1>11, <1>12, <1>13, <1>14 DEF OverviewNext

LEMMA OverviewTyped == OverviewSpec => []OverviewTypeOK
  <1>1. OverviewInit => OverviewRest
    BY DEF OverviewInit, OverviewRest
  <1>2. OverviewInv /\ OverviewRest => OverviewTypeOK
    BY DEF OverviewInv, OverviewTypes, IsSave, OverviewRest, OverviewTypeOK
  <1> QED
    BY <1>1, <1>2, OverviewInitially, OverviewStep, OverviewRestStep, PTL DEF OverviewSpec

-----------------------------------------------------------------------------
\* The dialog of a device.
\* The rest of the types of the dialog of a device.
DetailsRest ==
  /\ detailAlias \in {NoName} \cup Names
  /\ focus = NoFocus \/ (focus.name \in Names /\ focus.modal \in BOOLEAN)
  /\ keyFile \in [Names -> Keys \cup {NoName}] /\ passphrases \in [Names -> Keys \cup {Own, NoName}]
  /\ \A s \in saves : s.name \in Names /\ s.state \in {"timer", "sent", "applied", "failed"}
  /\ \A l \in looks : l.state \in {"asked", "read"}
  /\ \A k \in keygens : k.state \in {"asked", "made", "failed"}
  /\ phrases \subseteq Names /\ loose \subseteq Names /\ tangled \subseteq Names
  /\ \A r \in moves : r.to \in Names
  /\ meantConn \in [Names -> Conns] /\ inputs \in 0 .. MaxInputs /\ keysMade \in 0 .. MaxKeys

\* What the change of one field leaves of a request.
LEMMA RequestFields ==
  ASSUME NEW s, DOMAIN s \in {{"name", "conn", "state", "last"}, {"name", "look", "state", "conn"}, {"name", "key", "state"}},
         NEW x
  PROVE  /\ [s EXCEPT !.state = x].name = s.name /\ [s EXCEPT !.state = x].state = x
         /\ [s EXCEPT !.last = x].name = s.name /\ [s EXCEPT !.last = x].state = s.state
         /\ \A y : [s EXCEPT !.state = x, !.conn = y].name = s.name /\ [s EXCEPT !.state = x, !.conn = y].state = x
  OBVIOUS

LEMMA RequestDomains ==
  ASSUME DetailsTypes
  PROVE  /\ \A s \in saves : DOMAIN s = {"name", "conn", "state", "last"}
         /\ \A l \in looks : DOMAIN l = {"name", "look", "state", "conn"}
         /\ \A k \in keygens : DOMAIN k = {"name", "key", "state"}
  <1>1. \A a, b, c, d : DOMAIN [name |-> a, conn |-> b, state |-> c, last |-> d] = {"name", "conn", "state", "last"}
    OBVIOUS
  <1>2. \A a, b, c, d : DOMAIN [name |-> a, look |-> b, state |-> c, conn |-> d] = {"name", "look", "state", "conn"}
    OBVIOUS
  <1>3. \A a, b, c : DOMAIN [name |-> a, key |-> b, state |-> c] = {"name", "key", "state"}
    OBVIOUS
  <1>4. ASSUME NEW s \in saves PROVE DOMAIN s = {"name", "conn", "state", "last"}
    <2>1. s = [name |-> s.name, conn |-> s.conn, state |-> s.state, last |-> s.last]
      BY DEF DetailsTypes
    <2> QED
      BY <1>1, <2>1, Zenon
  <1>5. ASSUME NEW l \in looks PROVE DOMAIN l = {"name", "look", "state", "conn"}
    <2>1. l = [name |-> l.name, look |-> l.look, state |-> l.state, conn |-> l.conn]
      BY DEF DetailsTypes
    <2> QED
      BY <1>2, <2>1, Zenon
  <1>6. ASSUME NEW k \in keygens PROVE DOMAIN k = {"name", "key", "state"}
    <2>1. k = [name |-> k.name, key |-> k.key, state |-> k.state]
      BY DEF DetailsTypes
    <2> QED
      BY <1>3, <2>1, Zenon
  <1> QED
    BY <1>4, <1>5, <1>6

LEMMA DetailsRestInitially == DetailsInit => DetailsRest
  <1> SUFFICES ASSUME DetailsInit PROVE DetailsRest
    OBVIOUS
  <1>1. PICK n \in Names, c \in {0, 1} : meantConn = [m \in Names |-> IF m = n THEN c ELSE 0]
    BY DEF DetailsInit
  <1>2. meantConn \in [Names -> Conns] /\ inputs \in 0 .. MaxInputs /\ keysMade \in 0 .. MaxKeys
    BY <1>1, DetailsAssumption DEF DetailsInit, Conns
  <1> QED
    BY <1>2 DEF DetailsInit, DetailsRest

LEMMA DetailsRestStep == DetailsInv /\ DetailsRest /\ [DetailsNext]_detailsVars => DetailsRest'
  <1> SUFFICES ASSUME DetailsInv, DetailsRest, [DetailsNext]_detailsVars PROVE DetailsRest'
    OBVIOUS
  <1>0. DetailsTypes
    BY DEF DetailsInv
  <1>c. MaxInputs \in Nat \ {0} /\ MaxKeys \in Nat /\ inputs \in 0 .. MaxInputs /\ keysMade \in 0 .. MaxKeys
    BY DetailsAssumption DEF DetailsRest
  <1>i. Typed => inputs' \in 0 .. MaxInputs
    BY <1>c DEF Typed
  <1> USE DEF deviceState, files, requests, detailsHistory
  <1>1. CASE UNCHANGED detailsVars
    BY <1>1 DEF detailsVars, DetailsRest
  <1>2. CASE BlurConnection
    <2>1. ASSUME NEW s \in saves' PROVE s.name \in Names /\ s.state \in {"timer", "sent", "applied", "failed"}
      <3>1. \/ s \in saves \/ \E t \in saves : s = [t EXCEPT !.last = FALSE]
            \/ s = [name |-> focus.name, conn |-> devices[focus.name].conn, state |-> "timer", last |-> TRUE]
        BY <1>2 DEF BlurConnection, Superseded
      <3>2. focus.name \in Names
        BY <1>2 DEF BlurConnection, DetailsRest
      <3>3. ASSUME NEW t \in saves, s = [t EXCEPT !.last = FALSE] PROVE s.name = t.name /\ s.state = t.state
        <4>1. DOMAIN t = {"name", "conn", "state", "last"}
          BY <1>0, RequestDomains
        <4> QED
          BY <3>3, <4>1, RequestFields
      <3> QED
        BY <3>1, <3>2, <3>3 DEF DetailsRest
    <2> QED
      BY <1>2, <2>1 DEF BlurConnection, DetailsRest
  <1>3. CASE CloseDetailModal \/ EscapeDetail \/ Hydrate \/ HydrateShow \/ HydrateFails
    BY <1>3, <1>i DEF CloseDetailModal, EscapeDetail, Hydrate, HydrateShow, HydrateFails, DetailsRest
  <1>4. ASSUME NEW n \in Names, OpenDetailModal(n) \/ ImportKey(n) \/ HydrateRead(n) \/ PassphraseSaved(n) PROVE DetailsRest'
    BY <1>4, <1>i DEF OpenDetailModal, ImportKey, HydrateRead, PassphraseSaved, DetailsRest
  <1>5. ASSUME NEW n \in Names, TypePassphrase(n) PROVE DetailsRest'
    BY <1>5, <1>i DEF TypePassphrase, DetailsRest
  <1>6. ASSUME NEW n \in Names, PickColor(n) PROVE DetailsRest'
    BY <1>6, <1>i DEF PickColor, DetailsRest
  <1>7. ASSUME NEW n \in Names, GenerateServerKey(n) PROVE DetailsRest'
    BY <1>7, <1>i, <1>c DEF GenerateServerKey, DetailsRest
  <1>8. ASSUME NEW n \in Names, NEW v \in Conns, NEW modal \in BOOLEAN, TypeConnection(n, v, modal) PROVE DetailsRest'
    BY <1>8, <1>i DEF TypeConnection, DetailsRest
  <1>9. ASSUME NEW n \in Names, NEW m \in Names, RenameAlias(n, m) PROVE DetailsRest'
    BY <1>9, <1>i, DetailsAssumption DEF RenameAlias, DetailsRest, Conns
  <1>10. ASSUME NEW n \in Names, NEW method \in {"password", "private_key"}, UpdateAuthMethod(n, method) PROVE DetailsRest'
    BY <1>10, <1>i DEF UpdateAuthMethod, DetailsRest
  <1>11. ASSUME NEW s \in saves, PersistServerConnection(s) \/ ConnectionWritten(s) \/ ConnectionAnswered(s) PROVE DetailsRest'
    <2>1. DOMAIN s = {"name", "conn", "state", "last"}
      BY <1>0, RequestDomains
    <2>2. saves' \subseteq saves \cup {[s EXCEPT !.state = "sent"], [s EXCEPT !.state = "applied"], [s EXCEPT !.state = "failed"]}
      BY <1>11 DEF PersistServerConnection, ConnectionWritten, ConnectionAnswered
    <2>3. \A t \in saves' : t.name \in Names /\ t.state \in {"timer", "sent", "applied", "failed"}
      BY <2>1, <2>2, RequestFields DEF DetailsRest
    <2>4. loose' \subseteq loose \cup {s.name} /\ s.name \in Names
      BY <1>11 DEF PersistServerConnection, ConnectionWritten, ConnectionAnswered, DetailsRest
    <2> QED
      BY <1>11, <2>3, <2>4 DEF PersistServerConnection, ConnectionWritten, ConnectionAnswered, DetailsRest
  <1>12. ASSUME NEW r \in moves, Moved(r) PROVE DetailsRest'
    BY <1>12 DEF Moved, DetailsRest
  <1>13. ASSUME NEW l \in looks, ReadForLook(l) \/ WriteLook(l) PROVE DetailsRest'
    <2>1. DOMAIN l = {"name", "look", "state", "conn"}
      BY <1>0, RequestDomains
    <2>2. looks' \subseteq looks \cup {[l EXCEPT !.state = "read", !.conn = hostVars[l.name].conn]}
      BY <1>13 DEF ReadForLook, WriteLook
    <2>r. [l EXCEPT !.state = "read", !.conn = hostVars[l.name].conn].state = "read"
      BY <2>1, RequestFields
    <2>3. \A t \in looks' : t.state \in {"asked", "read"}
      BY <2>2, <2>r DEF DetailsRest
    <2> QED
      BY <1>13, <2>3 DEF ReadForLook, WriteLook, DetailsRest
  <1>14. ASSUME NEW k \in keygens, KeyMade(k) \/ KeyAnswered(k) PROVE DetailsRest'
    <2>1. DOMAIN k = {"name", "key", "state"} /\ k.name \in Names /\ k.key \in Keys /\ \A j \in keygens : j.name \in Names
      BY <1>0, RequestDomains DEF DetailsTypes
    <2>2. keygens' \subseteq keygens \cup {[k EXCEPT !.state = "made"], [k EXCEPT !.state = "failed"]}
      BY <1>14 DEF KeyMade, KeyAnswered
    <2>3. \A t \in keygens' : t.state \in {"asked", "made", "failed"}
      BY <2>1, <2>2, RequestFields DEF DetailsRest
    <2>4. tangled' \subseteq Names
      BY <1>14, <2>1 DEF KeyMade, KeyAnswered, DetailsRest
    <2>5. keyFile' \in [Names -> Keys \cup {NoName}] /\ passphrases' \in [Names -> Keys \cup {Own, NoName}]
      BY <1>14, <2>1 DEF KeyMade, KeyAnswered, DetailsRest
    <2> QED
      BY <1>14, <2>3, <2>4, <2>5 DEF KeyMade, KeyAnswered, DetailsRest
  <1> QED
    BY <1>1, <1>2, <1>3, <1>4, <1>5, <1>6, <1>7, <1>8, <1>9, <1>10, <1>11, <1>12, <1>13, <1>14 DEF DetailsNext

LEMMA DetailsTyped == DetailsSpec => []DetailsTypeOK
  <1>2. DetailsInv /\ DetailsRest => DetailsTypeOK
    BY DEF DetailsInv, DetailsTypes, DetailsRest, DetailsTypeOK
  <1> QED
    BY <1>2, DetailsInitially, DetailsRestInitially, DetailsStep, DetailsRestStep, PTL DEF DetailsSpec

-----------------------------------------------------------------------------
\* The Domains tab.
\* The rest of the types of the Domains tab.
DomainsRest ==
  /\ hostDomain \in [Sites -> MaybeDomain]
  /\ sitePrimary \in MaybeDomain /\ attached \in MaybeDomain /\ busyDomain \in MaybeDomain
  /\ settingsLoad \in {"idle", "asked"}
  /\ \A w \in hostWrites : w \in [site : Sites, to : MaybeDomain]
  /\ domainMoves \in 0 .. MaxMoves /\ crossed \subseteq Sites /\ outdated \subseteq Sites

LEMMA InFlightAreSites == DomainsInv /\ DomainsRest => SitesInFlight \subseteq Sites /\ Overlapped \subseteq Sites
  BY DEF DomainsInv, DomainsTypes, DomainsRest, SitesInFlight, OpsInFlight, CatalogOp, Overlapped

LEMMA MovesCount ==
  ASSUME DomainsInv, DomainsRest, domainMoves < MaxMoves, domainMoves' = domainMoves + 1
  PROVE  domainMoves' \in 0 .. MaxMoves
  BY DomainsAssumption DEF DomainsRest

LEMMA EntriesRest ==
  ASSUME DomainsInv, DomainsRest, EntriesChanged, sitePrimary' \in MaybeDomain
  PROVE  attached' \in MaybeDomain /\ \A w \in hostWrites' : w \in [site : Sites, to : MaybeDomain]
  <1>1. Selectable(sitePrimary', domainEntries') \in MaybeDomain /\ openSite \in Sites
    BY DEF Selectable, MaybeDomain, DomainsInv, DomainsTypes
  <1> QED
    BY <1>1 DEF EntriesChanged, DomainsRest

LEMMA DomainsRestStep == DomainsInv /\ DomainsRest /\ [DomainsNext]_domainsVars => DomainsRest'
  <1> SUFFICES ASSUME DomainsInv, DomainsRest, [DomainsNext]_domainsVars PROVE DomainsRest'
    OBVIOUS
  <1>t. /\ openSite \in Sites /\ Localhost \in Domain /\ Domain \subseteq MaybeDomain /\ NoDomain \in MaybeDomain
        /\ SitesInFlight \subseteq Sites /\ Overlapped \subseteq Sites
        /\ domainFile \in [Sites -> [catalog : Catalogs, primary : MaybeDomain]]
        /\ \A i \in OpSlot : catalogOps[i] \in CatalogOp
    BY InFlightAreSites DEF DomainsInv, DomainsTypes, MaybeDomain, Domain
  <1> USE DEF ServerUnchanged
  <1>1. CASE UNCHANGED domainsVars
    BY <1>1 DEF domainsVars, DomainsRest
  <1>2. ASSUME NEW s \in Sites, OpenSite(s) PROVE DomainsRest'
    <2>1. domainMoves' \in 0 .. MaxMoves
      BY <1>2, MovesCount DEF OpenSite
    <2> QED
      BY <1>2, <2>1, <1>t DEF OpenSite, DomainsRest
  <1>3. ASSUME NEW d \in Domain, \/ SelectPrimaryDomain(d) \/ RemoveDomain(d) \/ ReserveDomain(d)
                                 \/ \E device \in BOOLEAN : AddDomainFromPopup(d, device)
                                 \/ \E next \in OrderStatus : TransitionStatus(d, next)
        PROVE  DomainsRest'
    <2>1. Move
      BY <1>3 DEF SelectPrimaryDomain, RemoveDomain, ReserveDomain, AddDomainFromPopup, TransitionStatus
    <2>2. domainMoves' \in 0 .. MaxMoves /\ crossed' \subseteq Sites /\ outdated' = outdated
      BY <2>1, <1>t, MovesCount DEF Move, DomainsRest
    <2>3. /\ hostWrites' = hostWrites \/ hostWrites' = hostWrites \cup {[site |-> openSite, to |-> d]}
          /\ UNCHANGED <<hostDomain, sitePrimary, settingsLoad>>
          /\ attached' \in {attached, d} /\ busyDomain' \in {busyDomain, d}
      BY <1>3 DEF SelectPrimaryDomain, RemoveDomain, ReserveDomain, AddDomainFromPopup, TransitionStatus
    <2> QED
      BY <2>2, <2>3, <1>t DEF DomainsRest
  <1>4. CASE DetachServerDomain
    <2>1. domainMoves' \in 0 .. MaxMoves /\ crossed' \subseteq Sites /\ outdated' = outdated
      BY <1>4, <1>t, MovesCount DEF DetachServerDomain, Move, DomainsRest
    <2> QED
      BY <1>4, <2>1, <1>t DEF DetachServerDomain, DomainsRest
  <1>5. CASE SettingsLoaded
    <2>1. sitePrimary' \in MaybeDomain
      BY <1>5, <1>t DEF SettingsLoaded, Selectable
    <2>2. EntriesChanged
      BY <1>5 DEF SettingsLoaded
    <2> QED
      BY <1>5, <2>1, <2>2, <1>t, EntriesRest DEF SettingsLoaded, DomainsRest
  <1>6. ASSUME NEW i \in OpSlot, ApiStep(i) PROVE DomainsRest'
    BY <1>6 DEF ApiStep, PersistApplied, StatusApplied, CatalogRequestFails, DomainsRest
  <1>7. ASSUME NEW i \in OpSlot, ReservationChecked(i) \/ NameTaken(i) PROVE DomainsRest'
    BY <1>7 DEF ReservationChecked, NameTaken, DomainsRest
  <1>8. ASSUME NEW i \in OpSlot, CatalogAnswered(i) PROVE DomainsRest'
    <2>1. sitePrimary' \in MaybeDomain /\ busyDomain' \in MaybeDomain
      BY <1>8, <1>t DEF CatalogAnswered, DomainsRest, CatalogOp
    <2>2. EntriesChanged /\ UNCHANGED <<hostDomain, settingsLoad, domainMoves, crossed>> /\ outdated' \subseteq outdated
      BY <1>8 DEF CatalogAnswered
    <2> QED
      BY <2>1, <2>2, EntriesRest DEF DomainsRest
  <1>9. ASSUME NEW i \in OpSlot, CatalogRefused(i) PROVE DomainsRest'
    BY <1>9, <1>t DEF CatalogRefused, DomainsRest, CatalogOp
  <1>10. ASSUME NEW w \in hostWrites, HostWritten(w) PROVE DomainsRest'
    <2>1. w.site \in Sites /\ w.to \in MaybeDomain
      BY DEF DomainsRest
    <2> QED
      BY <1>10, <2>1 DEF HostWritten, DomainsRest
  <1>11. ASSUME NEW s \in Sites, NEW d \in Domain, \/ \E next \in OrderStatus : MovedElsewhere(s, d, next)
                                                  \/ \E status \in OrderStatus \cup {"absent"} : RewrittenElsewhere(s, d, status)
         PROVE  DomainsRest'
    <2>1. (\E status : Elsewhere(s, d, status)) /\ outdated' \subseteq Sites
      BY <1>11 DEF MovedElsewhere, RewrittenElsewhere, DomainsRest
    <2>2. domainMoves' \in 0 .. MaxMoves /\ crossed' \subseteq Sites
      BY <2>1, MovesCount DEF Elsewhere, DomainsRest
    <2> QED
      BY <2>1, <2>2 DEF Elsewhere, DomainsRest
  <1> QED
    BY <1>1, <1>2, <1>3, <1>4, <1>5, <1>6, <1>7, <1>8, <1>9, <1>10, <1>11 DEF DomainsNext

LEMMA DomainsRestInitially == DomainsInit => DomainsRest
  <1> SUFFICES ASSUME DomainsInit PROVE DomainsRest
    OBVIOUS
  <1>1. HomeSite \in Sites /\ OwnApex \in Domain /\ Localhost \in Domain
    BY DomainsAssumption DEF Domain, HomeSite, OwnApex
  <1>2. domainFile \in [Sites -> [catalog : Catalogs, primary : MaybeDomain]]
    BY DomainsInitially DEF DomainsInv, DomainsTypes
  <1>3. hostDomain \in [Sites -> MaybeDomain]
    BY <1>1 DEF DomainsInit, MaybeDomain
  <1> QED
    BY <1>1, <1>2, <1>3, DomainsAssumption DEF DomainsInit, DomainsRest, MaybeDomain

LEMMA DomainsTyped == DomainsSpec => []DomainsTypeOK
  <1>2. DomainsInv /\ DomainsRest => DomainsTypeOK
    BY DEF DomainsInv, DomainsTypes, DomainsRest, DomainsTypeOK
  <1> QED
    BY <1>2, DomainsInitially, DomainsRestInitially, DomainsStep, DomainsRestStep, PTL DEF DomainsSpec

-----------------------------------------------------------------------------
\* The page: a step of it is a step of one part and leaves the others alone, so
\* whatever is proved of a part is proved of the page.
THEOREM PageIsItsParts ==
  Spec => SelectionSpec /\ LiveSpec /\ UsersSpec /\ OverviewSpec /\ DetailsSpec /\ DomainsSpec
  <1>1. Init => SelectionInit /\ LiveInit /\ UsersInit /\ OverviewInit /\ DetailsInit /\ DomainsInit
    BY DEF Init
  <1>2. [Next]_vars => /\ [SelectionNext]_selectionVars /\ [LiveNext]_liveVars /\ [UsersNext]_usersVars
                       /\ [OverviewNext]_overviewVars /\ [DetailsNext]_detailsVars /\ [DomainsNext]_domainsVars
    BY DEF Next, vars
  <1> QED
    BY <1>1, <1>2, PTL DEF Spec, SelectionSpec, LiveSpec, UsersSpec, OverviewSpec, DetailsSpec, DomainsSpec

\* The parts of the page keep their types (useWorkspacePanelSessionState.ts,
\* DeploymentWorkspaceContainer.tsx).
THEOREM PageKeepsTypes == Spec => []PageTypeOK
  <1>1. /\ SelectionTypeOK /\ LiveTypeOK /\ UsersTypeOK /\ OverviewTypeOK /\ DetailsTypeOK /\ DomainsTypeOK
        => PageTypeOK
    BY DEF PageTypeOK
  <1> QED
    BY <1>1, PageIsItsParts, SelectionTyped, LiveTyped, UsersAllTyped, OverviewTyped, DetailsTyped, DomainsTyped, PTL

\* What the parts promise (workspaces.ts, DeploymentWorkspaceMain.tsx,
\* UsersTabPanel.tsx, the dialog of a device, useUsersOverview.ts, DomainsTab)
\* holds on the page they share.
THEOREM PageKeepsPromises ==
  Spec => /\ []SelectionAgrees /\ []DeployedUnlessMixed /\ []LiveViewFollows /\ []EditsReachFile /\ []DetailsAgree
          /\ SavedUsersKept /\ StatusFollowsOrder
  BY PageIsItsParts, SelectionStaysAgreed, MarkedWasDeployed, LiveViewStaysAgreed, EveryEditReachesItsFile,
     DialogShowsFiles, SaveKeepsOtherUsers, OrderOfADomain, PTL
==============================================================================
