------------------------ MODULE SettingsTab_proofs -------------------------
(***************************************************************************)
(* The tabs Settings and Order with the parts of the API behind them, for   *)
(* any number of people, workspaces and requests that cross each other:     *)
(* the members of a workspace, the session and the view of the page, the    *)
(* bill of the orders, and the audit log.  The parts share nothing, and     *)
(* each has an inductive invariant of its own.                              *)
(*                                                                         *)
(* Addresses: Invite, Claim, Remove and Transfer keep them unique in the   *)
(* metadata they are applied to.  Requests write back what they have read  *)
(* and changed, perhaps late: so the property is carried by the copies of  *)
(* the requests, too.                                                      *)
(***************************************************************************)
EXTENDS WorkspaceMembers, PageShell, CustomerOrders, AuditLog, FiniteSetTheorems, TLAPS

Good == {m \in Meta \cup {NoList} : UniqueIn(m)}

Req == [kind : {"open", "list", "restate", "version", "invite", "remove", "transfer"},
        by : People, space : Shared, key : Keys,
        from : {"others", "gone", "owner", "load", "act", "hub"},
        state : {"sent", "seen", "owned", "read", "done"}, claiming : BOOLEAN,
        copy : Good, late : {"no", "locked", "unlocked"}, reply : {"none", "ok", "refused"}]

\* What is read is metadata of a workspace; only lists that were refused hold none.
CopiesInv ==
  /\ meta \in [Shared -> Meta] /\ \A s \in Shared : UniqueIn(meta[s])
  /\ reqs \in [Requests -> Req \cup {Free}]
  /\ \A r \in Requests : reqs[r] # Free /\ reqs[r].state = "read" => reqs[r].copy \in Meta

-----------------------------------------------------------------------------
LEMMA FreeIsNoRequest == Free \notin Req
  <1> SUFFICES ASSUME Free \in Req PROVE FALSE
    OBVIOUS
  <1>1. DOMAIN Free = {"kind"}
    BY DEF Free
  <1>2. "by" \in DOMAIN Free
    BY DEF Req
  <1> QED
    BY <1>1, <1>2

LEMMA NewRequest ==
  ASSUME NEW kind \in {"open", "list", "restate", "version", "invite", "remove", "transfer"},
         NEW by \in People, NEW s \in Shared, NEW key \in Keys,
         NEW from \in {"others", "gone", "owner", "load", "act", "hub"}, MembersAssumption
  PROVE  Request(kind, by, s, key, from) \in Req /\ Request(kind, by, s, key, from).state = "sent"
  <1>1. NoList \in Good
    BY DEF Good, UniqueIn, NoList
  <1> QED
    BY <1>1 DEF Request, Req

\* The operations keep addresses unique.
LEMMA OperationsKeep ==
  ASSUME NEW m \in Meta, UniqueIn(m)
  PROVE  /\ \A p \in People : Invite(m, p) \in Meta /\ UniqueIn(Invite(m, p))
         /\ \A p \in m.pending : Claim(m, p) \in Meta /\ UniqueIn(Claim(m, p))
         /\ \A k \in Keys : Remove(m, k) \in Meta /\ UniqueIn(Remove(m, k))
         /\ \A p \in People : Transfer(m, p) \in Meta /\ UniqueIn(Transfer(m, p))
  <1> USE DEF Meta, UniqueIn
  <1>1. \A p \in People : Invite(m, p) \in Meta /\ UniqueIn(Invite(m, p))
    BY DEF Invite
  <1>2. \A p \in m.pending : Claim(m, p) \in Meta /\ UniqueIn(Claim(m, p))
    BY DEF Claim
  <1>3. \A k \in Keys : Remove(m, k) \in Meta /\ UniqueIn(Remove(m, k))
    BY DEF Remove, Named, Keys
  <1>4. \A p \in People : Transfer(m, p) \in Meta /\ UniqueIn(Transfer(m, p))
    BY DEF Transfer
  <1> QED
    BY <1>1, <1>2, <1>3, <1>4

LEMMA AppliedKeeps ==
  ASSUME NEW m \in Meta, UniqueIn(m), NEW key \in Keys,
         NEW kind \in {"open", "list", "restate", "version", "invite", "remove", "transfer"}
  PROVE  Applied(kind, m, key) \in Meta /\ UniqueIn(Applied(kind, m, key))
  <1>1. key.who \in People
    BY DEF Keys
  <1>2. kind # "claim"
    OBVIOUS
  <1> QED
    BY <1>1, <1>2, OperationsKeep DEF Applied

\* A request that is replaced by a good one.
LEMMA PutKeeps ==
  ASSUME CopiesInv, NEW r \in Requests, NEW q \in Req \cup {Free}, Put(r, q), UNCHANGED meta,
         q # Free /\ q.state = "read" => q.copy \in Meta
  PROVE  CopiesInv'
  BY DEF CopiesInv, Put

LEMMA AnsweredKeeps ==
  ASSUME CopiesInv, NEW r \in Requests, reqs[r] # Free, NEW how \in {"ok", "refused"}
  PROVE  Answered(r, how) \in Req /\ Answered(r, how).state = "done"
  BY DEF CopiesInv, Answered, Req

-----------------------------------------------------------------------------
(* The steps of a request in the API.                                        *)
LEMMA AccessKeeps ==
  ASSUME CopiesInv, NEW r \in Requests, Access(r)
  PROVE  CopiesInv'
  <1> DEFINE q == reqs[r]
             m == meta[q.space]
  <1>1. q \in Req /\ q # Free /\ UNCHANGED meta
    BY DEF CopiesInv, Access, apiVars
  <1>2. m \in Meta /\ UniqueIn(m)
    BY <1>1 DEF CopiesInv, Req
  <1>3. CASE q.by \in {m.owner} \cup m.members
    <2>1. [q EXCEPT !.state = "seen"] \in Req /\ [q EXCEPT !.state = "seen"].state = "seen"
      BY <1>1 DEF Req
    <2>2. Put(r, [q EXCEPT !.state = "seen"])
      BY <1>3 DEF Access
    <2> QED
      BY <1>1, <2>1, <2>2, PutKeeps
  <1>4. CASE q.by \notin {m.owner} \cup m.members /\ q.by \in m.pending
    <2> DEFINE n == [q EXCEPT !.state = "read", !.claiming = TRUE, !.copy = Claim(m, q.by)]
    <2>1. Claim(m, q.by) \in Meta /\ UniqueIn(Claim(m, q.by))
      BY <1>2, <1>4, OperationsKeep
    <2>2. Claim(m, q.by) \in Good
      BY <2>1 DEF Good
    <2>3. n \in Req /\ n.copy = Claim(m, q.by)
      BY <1>1, <2>2 DEF Req
    <2>4. Put(r, n)
      BY <1>4 DEF Access
    <2> HIDE DEF n
    <2> QED
      BY <1>1, <2>1, <2>3, <2>4, PutKeeps
  <1>5. CASE q.by \notin {m.owner} \cup m.members /\ q.by \notin m.pending
    <2>1. Put(r, Answered(r, "refused"))
      BY <1>5 DEF Access
    <2> QED
      BY <1>1, <2>1, AnsweredKeeps, PutKeeps
  <1> QED
    BY <1>3, <1>4, <1>5

LEMMA LookKeeps ==
  ASSUME CopiesInv, NEW r \in Requests, Look(r)
  PROVE  CopiesInv'
  <1> DEFINE q == reqs[r]
             m == meta[q.space]
  <1>1. q \in Req /\ q # Free /\ UNCHANGED meta
    BY DEF CopiesInv, Look, apiVars
  <1>2. m \in Meta /\ m \in Good
    BY <1>1 DEF CopiesInv, Req, Good
  <1>3. CASE q.kind \in {"open", "list"} /\ Put(r, [Answered(r, "ok") EXCEPT !.copy = m])
    <2>1. Answered(r, "ok") \in Req /\ Answered(r, "ok").state = "done"
      BY <1>1, AnsweredKeeps
    <2> DEFINE n == [Answered(r, "ok") EXCEPT !.copy = m]
    <2>2. n \in Req /\ n.state = "done"
      BY <2>1, <1>2 DEF Req
    <2>3. Put(r, n)
      BY <1>3
    <2> HIDE DEF n
    <2> QED
      BY <1>1, <2>2, <2>3, PutKeeps
  <1>4. CASE Put(r, [q EXCEPT !.state = "read", !.copy = m])
    <2> DEFINE n == [q EXCEPT !.state = "read", !.copy = m]
    <2>1. n \in Req /\ n.copy = m
      BY <1>1, <1>2 DEF Req
    <2>2. Put(r, n)
      BY <1>4
    <2> HIDE DEF n
    <2> QED
      BY <1>1, <1>2, <2>1, <2>2, PutKeeps
  <1>5. CASE Put(r, [q EXCEPT !.state = "owned"])
    <2>1. [q EXCEPT !.state = "owned"] \in Req /\ [q EXCEPT !.state = "owned"].state = "owned"
      BY <1>1 DEF Req
    <2> QED
      BY <1>1, <1>5, <2>1, PutKeeps
  <1> QED
    BY <1>3, <1>4, <1>5 DEF Look

LEMMA CheckOwnerKeeps ==
  ASSUME CopiesInv, NEW r \in Requests, CheckOwner(r)
  PROVE  CopiesInv'
  <1>1. reqs[r] \in Req /\ reqs[r] # Free /\ UNCHANGED meta
    BY DEF CopiesInv, CheckOwner, apiVars
  <1>2. CASE Put(r, Answered(r, "refused"))
    BY <1>1, <1>2, AnsweredKeeps, PutKeeps
  <1>3. CASE Put(r, [reqs[r] EXCEPT !.state = "owned"])
    <2>1. [reqs[r] EXCEPT !.state = "owned"] \in Req
          /\ [reqs[r] EXCEPT !.state = "owned"].state = "owned"
      BY <1>1 DEF Req
    <2> QED
      BY <1>1, <1>3, <2>1, PutKeeps
  <1> QED
    BY <1>2, <1>3 DEF CheckOwner

LEMMA ReadLockedKeeps ==
  ASSUME CopiesInv, NEW r \in Requests, ReadLocked(r)
  PROVE  CopiesInv'
  <1> DEFINE q == reqs[r]
             next == Applied(q.kind, meta[q.space], q.key)
             n == [q EXCEPT !.state = "read", !.copy = next]
  <1>1. q \in Req /\ q # Free /\ UNCHANGED meta
    BY DEF CopiesInv, ReadLocked
  <1>2. meta[q.space] \in Meta /\ UniqueIn(meta[q.space])
    BY <1>1 DEF CopiesInv, Req
  <1>3. /\ q.key \in Keys
        /\ q.kind \in {"open", "list", "restate", "version", "invite", "remove", "transfer"}
    BY <1>1 DEF Req
  <1>4. next \in Meta /\ UniqueIn(next)
    BY <1>2, <1>3, AppliedKeeps
  <1>5. CASE Put(r, Answered(r, "refused"))
    BY <1>1, <1>5, AnsweredKeeps, PutKeeps
  <1>6. CASE Put(r, n)
    <2>1. next \in Good
      BY <1>4 DEF Good
    <2> HIDE DEF next
    <2>2. n \in Req /\ n.copy = next
      BY <1>1, <2>1 DEF Req
    <2> HIDE DEF n
    <2> QED
      BY <1>1, <1>4, <1>6, <2>2, PutKeeps
  <1> QED
    BY <1>5, <1>6 DEF ReadLocked

\* The copy that is written is unique, and those of the others stay what they are.
LEMMA WriteKeeps ==
  ASSUME CopiesInv, NEW r \in Requests, Write(r)
  PROVE  CopiesInv'
  <1> DEFINE q == reqs[r]
             s == q.space
  <1>1. q \in Req /\ q # Free /\ q.state = "read" /\ q.copy \in Meta
    BY DEF CopiesInv, Write
  <1>2. UniqueIn(q.copy) /\ s \in Shared
    BY <1>1 DEF Req, Good
  <1>3. meta' = [meta EXCEPT ![s] = q.copy]
    BY DEF Write
  <1>4. meta' \in [Shared -> Meta] /\ \A t \in Shared : UniqueIn(meta'[t])
    BY <1>1, <1>2, <1>3 DEF CopiesInv
  <1>5. \A o \in Requests \ {r} : reqs[o] # Free /\ reqs[o] \in Req =>
          \A late \in {"no", "locked", "unlocked"} :
            /\ [reqs[o] EXCEPT !.late = late] \in Req
            /\ [reqs[o] EXCEPT !.late = late].copy = reqs[o].copy
            /\ [reqs[o] EXCEPT !.late = late].state = reqs[o].state
    BY DEF Req
  <1>6. reqs' \in [Requests -> Req \cup {Free}]
        /\ \A o \in Requests : reqs'[o] # Free /\ reqs'[o].state = "read" => reqs'[o].copy \in Meta
    <2> DEFINE after == IF q.claiming THEN [q EXCEPT !.state = "seen", !.claiming = FALSE, !.late = "no"]
                        ELSE Answered(r, "ok")
               free == Doing(q) \in Unlocked
    <2>1. after \in Req /\ after.state # "read"
      <3>1. [q EXCEPT !.state = "seen", !.claiming = FALSE, !.late = "no"] \in Req
            /\ [q EXCEPT !.state = "seen", !.claiming = FALSE, !.late = "no"].state = "seen"
        BY <1>1 DEF Req
      <3> QED
        BY <1>1, <3>1, AnsweredKeeps
    <2>2. reqs' = [o \in Requests |->
            IF o = r THEN after
            ELSE IF o \in Reading(s)
            THEN [reqs[o] EXCEPT !.late = IF free \/ reqs[o].late = "unlocked" THEN "unlocked" ELSE "locked"]
            ELSE reqs[o]]
      BY DEF Write
    <2> HIDE DEF after, free
    <2>3. reqs'[r] = after
      BY <2>2
    <2>4. \A o \in Requests \ {r} :
            /\ reqs'[o] \in Req \cup {Free}
            /\ reqs'[o] # Free /\ reqs'[o].state = "read" => reqs'[o].copy \in Meta
      <3> SUFFICES ASSUME NEW o \in Requests \ {r}
                   PROVE  /\ reqs'[o] \in Req \cup {Free}
                          /\ reqs'[o] # Free /\ reqs'[o].state = "read" => reqs'[o].copy \in Meta
        OBVIOUS
      <3>1. CASE o \in Reading(s)
        <4>1. reqs[o] # Free /\ reqs[o] \in Req /\ reqs[o].state = "read"
          BY <3>1 DEF Reading, CopiesInv
        <4>2. PICK late \in {"no", "locked", "unlocked"} : reqs'[o] = [reqs[o] EXCEPT !.late = late]
          BY <2>2, <3>1
        <4> QED
          BY <4>1, <4>2, <1>5 DEF CopiesInv
      <3>2. CASE o \notin Reading(s)
        BY <2>2, <3>2 DEF CopiesInv
      <3> QED
        BY <3>1, <3>2
    <2>5. reqs' = [o \in Requests |-> reqs'[o]]
      BY <2>2
    <2> QED
      BY <2>1, <2>3, <2>4, <2>5
  <1> QED
    BY <1>4, <1>6 DEF CopiesInv

LEMMA ServeKeeps ==
  ASSUME CopiesInv, NEW r \in Requests, Serve(r)
  PROVE  CopiesInv'
  BY AccessKeeps, LookKeeps, CheckOwnerKeeps, ReadLockedKeeps, WriteKeeps DEF Serve

-----------------------------------------------------------------------------
(* The steps of people and pages send, or end, one request.                  *)
LEMMA SendKeeps ==
  ASSUME CopiesInv, MembersAssumption, NEW r \in Requests, NEW by \in People, NEW s \in Shared,
         NEW key \in Keys, UNCHANGED meta,
         NEW kind \in {"open", "list", "restate", "version", "invite", "remove", "transfer"},
         NEW from \in {"others", "gone", "owner", "load", "act", "hub"},
         Put(r, Request(kind, by, s, key, from))
  PROVE  CopiesInv'
  <1> DEFINE n == Request(kind, by, s, key, from)
  <1>1. n \in Req /\ n.state = "sent"
    BY NewRequest
  <1> HIDE DEF n
  <1> QED
    BY <1>1, PutKeeps DEF n

LEMMA EndKeeps ==
  ASSUME CopiesInv, NEW r \in Requests, Put(r, Free), UNCHANGED meta
  PROVE  CopiesInv'
  BY PutKeeps

LEMMA LoadKeeps ==
  ASSUME CopiesInv, MembersAssumption, NEW r \in Requests, reqs[r] # Free, Load(r), UNCHANGED meta
  PROVE  CopiesInv'
  <1>1. reqs[r].space \in Shared
    BY DEF CopiesInv, Req
  <1>2. NoKey(Me) \in Keys /\ Me \in People
    BY DEF NoKey, Keys, MembersAssumption
  <1> QED
    BY <1>1, <1>2, SendKeeps DEF Load

LEMMA OthersKeep ==
  ASSUME CopiesInv, MembersAssumption, NEW r \in Requests, OthersAsk(r) \/ OthersAnswered(r)
  PROVE  CopiesInv'
  <1>1. CASE OthersAsk(r)
    <2>1. PICK p \in People \ {Me}, s \in Shared,
               kind \in {"open", "restate", "version"} \cup OwnerOnly, key \in Keys :
                 Put(r, Request(kind, p, s, key, "others")) /\ UNCHANGED meta
      BY <1>1 DEF OthersAsk, Send, apiVars
    <2>2. kind \in {"open", "list", "restate", "version", "invite", "remove", "transfer"}
      BY DEF OwnerOnly
    <2> QED
      BY <2>1, <2>2, SendKeeps
  <1>2. CASE OthersAnswered(r)
    BY <1>2, EndKeeps DEF OthersAnswered, apiVars
  <1> QED
    BY <1>1, <1>2

LEMMA OpenMembersKeeps ==
  ASSUME CopiesInv, MembersAssumption, NEW r \in Requests, NEW s \in Shared, OpenMembers(r, s)
  PROVE  CopiesInv'
  <1> DEFINE n == Request("list", Me, s, NoKey(Me), "owner")
  <1>1. n \in Req /\ n.state = "sent"
    <2>1. NoKey(Me) \in Keys /\ Me \in People
      BY DEF NoKey, Keys, MembersAssumption
    <2> QED
      BY <2>1, NewRequest
  <1>2. reqs' = [o \in Requests |-> IF o = r THEN n ELSE Unmounted(reqs[o])] /\ UNCHANGED meta
    BY DEF OpenMembers, apiVars
  <1> HIDE DEF n
  <1>3. \A q \in Req : /\ [q EXCEPT !.from = "gone"] \in Req
                       /\ [q EXCEPT !.from = "gone"].state = q.state
                       /\ [q EXCEPT !.from = "gone"].copy = q.copy
    BY DEF Req
  <1>4. \A o \in Requests : /\ reqs'[o] \in Req \cup {Free}
                            /\ reqs'[o] # Free /\ reqs'[o].state = "read" => reqs'[o].copy \in Meta
    <2> SUFFICES ASSUME NEW o \in Requests
                 PROVE  /\ reqs'[o] \in Req \cup {Free}
                        /\ reqs'[o] # Free /\ reqs'[o].state = "read" => reqs'[o].copy \in Meta
      OBVIOUS
    <2>1. CASE o = r
      BY <1>1, <1>2, <2>1
    <2>2. CASE o # r /\ reqs[o] # Free /\ reqs'[o] = [reqs[o] EXCEPT !.from = "gone"]
      <3>1. reqs[o] \in Req
        BY <2>2 DEF CopiesInv
      <3> QED
        BY <1>3, <2>2, <3>1 DEF CopiesInv
    <2>3. CASE o # r /\ reqs'[o] = reqs[o]
      BY <2>3 DEF CopiesInv
    <2> QED
      BY <1>2, <2>1, <2>2, <2>3 DEF Unmounted
  <1>5. reqs' \in [Requests -> Req \cup {Free}]
    BY <1>2, <1>4
  <1> QED
    BY <1>2, <1>4, <1>5 DEF CopiesInv

LEMMA PanelKeeps ==
  ASSUME CopiesInv, MembersAssumption, NEW r \in Requests,
         \/ OwnerAnswered(r) \/ LoadAnswered(r) \/ ManageAnswered(r) \/ \E s \in Shared : Manage(r, s)
  PROVE  CopiesInv'
  <1>1. CASE OwnerAnswered(r)
    BY <1>1, LoadKeeps DEF OwnerAnswered, Done, apiVars
  <1>2. CASE LoadAnswered(r)
    BY <1>2, EndKeeps DEF LoadAnswered, apiVars
  <1>3. CASE ManageAnswered(r)
    <2>1. reqs[r] # Free /\ UNCHANGED meta
      BY <1>3 DEF ManageAnswered, Done, apiVars
    <2> QED
      BY <1>3, <2>1, LoadKeeps, EndKeeps DEF ManageAnswered
  <1>4. CASE \E s \in Shared : Manage(r, s)
    <2>1. PICK s \in Shared, kind \in OwnerOnly, p \in People, by \in {"id", "mail"} :
                 /\ Put(r, Request(kind, Me, s, [by |-> by, who |-> p], "act")) /\ UNCHANGED meta
      BY <1>4 DEF Manage, Send, apiVars
    <2>2. /\ kind \in {"open", "list", "restate", "version", "invite", "remove", "transfer"}
          /\ [by |-> by, who |-> p] \in Keys /\ Me \in People
      BY DEF OwnerOnly, Keys, MembersAssumption
    <2> QED
      BY <2>1, <2>2, SendKeeps
  <1> QED
    BY <1>1, <1>2, <1>3, <1>4

LEMMA HubKeeps ==
  ASSUME CopiesInv, MembersAssumption, NEW r \in Requests,
         HubAnswered(r) \/ \E p \in People, s \in Shared : HubSends(r, p, s)
  PROVE  CopiesInv'
  <1>1. CASE HubAnswered(r)
    BY <1>1, EndKeeps DEF HubAnswered, apiVars
  <1>2. CASE \E p \in People, s \in Shared : HubSends(r, p, s)
    <2>1. PICK p \in People, s \in Shared, kind \in {"invite", "remove"}, by \in {"id", "mail"} :
                 Put(r, Request(kind, Me, s, [by |-> by, who |-> p], "hub")) /\ UNCHANGED meta
      BY <1>2 DEF HubSends, Send, apiVars
    <2>2. [by |-> by, who |-> p] \in Keys /\ Me \in People
      BY DEF Keys, MembersAssumption
    <2> QED
      BY <2>1, <2>2, SendKeeps
  <1> QED
    BY <1>1, <1>2

-----------------------------------------------------------------------------
LEMMA CopiesInitially == MembersInit => CopiesInv
  <1> SUFFICES ASSUME MembersInit PROVE CopiesInv
    OBVIOUS
  <1>1. \A s \in Shared : meta[s] \in Meta /\ meta[s].members = {} /\ meta[s].owner \notin meta[s].pending
    BY DEF MembersInit
  <1>2. meta \in [Shared -> Meta]
    BY DEF MembersInit
  <1>3. \A s \in Shared : UniqueIn(meta[s])
    BY <1>1 DEF UniqueIn
  <1>4. reqs = [r \in Requests |-> Free]
    BY DEF MembersInit
  <1> QED
    BY <1>2, <1>3, <1>4 DEF CopiesInv

LEMMA CopiesStep ==
  ASSUME MembersAssumption, CopiesInv, [MembersNext]_membersVars
  PROVE  CopiesInv'
  <1>1. CASE UNCHANGED membersVars
    BY <1>1 DEF membersVars, apiVars, CopiesInv
  <1>2. ASSUME NEW r \in Requests, Serve(r) \/ OthersAsk(r) \/ OthersAnswered(r)
        PROVE  CopiesInv'
    BY <1>2, ServeKeeps, OthersKeep
  <1>3. ASSUME NEW r \in Requests, NEW s \in Shared, OpenMembers(r, s) PROVE CopiesInv'
    BY <1>3, OpenMembersKeeps
  <1>4. ASSUME NEW r \in Requests,
               \/ OwnerAnswered(r) \/ LoadAnswered(r) \/ ManageAnswered(r)
               \/ \E s \in Shared : Manage(r, s)
        PROVE  CopiesInv'
    BY <1>4, PanelKeeps
  <1>5. ASSUME NEW r \in Requests, HubAnswered(r) \/ \E p \in People, s \in Shared : HubSends(r, p, s)
        PROVE  CopiesInv'
    BY <1>5, HubKeeps
  <1>6. CASE \/ OpenHub \/ HubReads \/ HubShows
             \/ \E p \in People : HubRemoves(p) \/ \E s \in Shared : HubAdds(p, s)
    <2>1. UNCHANGED <<meta, reqs>>
      BY <1>6 DEF OpenHub, HubReads, HubShows, HubRemoves, HubAdds, apiVars
    <2> QED
      BY <2>1 DEF CopiesInv
  <1> QED
    BY <1>1, <1>2, <1>3, <1>4, <1>5, <1>6 DEF MembersNext

\* Whatever requests cross each other, an address is at most once among the owner,
\* the members and the invitations of a workspace (019-workspace-rbac.md:53).
THEOREM AddressesStayUnique == MembersSpec => []AddressesUnique
  <1>1. MembersAssumption /\ CopiesInv /\ [MembersNext]_membersVars => CopiesInv'
    BY CopiesStep
  <1>2. CopiesInv => AddressesUnique
    BY DEF CopiesInv, AddressesUnique
  <1> QED
    BY <1>1, <1>2, CopiesInitially, MembersAssumption, PTL DEF MembersSpec

-----------------------------------------------------------------------------
(***************************************************************************)
(* No decision is lost, unless a rewrite without the lock crossed it.  A   *)
(* request that nobody wrote behind holds what it makes of the metadata as *)
(* they are now; one that takes the lock holds it from the read to the     *)
(* write, so only unlocked rewrites come between the two.                  *)
(***************************************************************************)
Made(q, m) == Applied(Doing(q), m, IF q.claiming THEN [by |-> "mail", who |-> q.by] ELSE q.key)
Current(r, q, metas, locks) ==
  /\ q.state \in {"sent", "seen", "owned"} => q.claiming = FALSE /\ q.late = "no"
  /\ q.state = "read" /\ q.late = "no" => q.copy = Made(q, metas[q.space])
  /\ q.state = "read" /\ Doing(q) \notin Unlocked => locks[q.space] = r /\ q.late # "locked"

DecisionInv ==
  /\ CopiesInv /\ DecisionsKept
  /\ DOMAIN decided = Shared /\ crossed \in [Shared -> BOOLEAN] /\ DOMAIN writeLock = Shared
  /\ \A r \in Requests : reqs[r] # Free => Current(r, reqs[r], meta, writeLock)

\* A request that is replaced by a fresh one, with the metadata left alone.
LEMMA PutStaysCurrent ==
  ASSUME DecisionInv, NEW r \in Requests, NEW q \in Req \cup {Free}, Put(r, q), CopiesInv',
         UNCHANGED apiVars, q # Free => Current(r, q, meta, writeLock)
  PROVE  DecisionInv'
  <1>1. \A o \in Requests : reqs'[o] = IF o = r THEN q ELSE reqs[o]
    BY DEF Put, DecisionInv, CopiesInv
  <1>2. UNCHANGED <<meta, writeLock, decided, crossed>>
    BY DEF apiVars
  <1>3. \A o \in Requests : reqs'[o] # Free => Current(o, reqs'[o], meta, writeLock)
    BY <1>1 DEF DecisionInv
  <1> QED
    BY <1>2, <1>3 DEF DecisionInv, DecisionsKept

\* Nothing is asked of a request that was sent just now, or is answered.
LEMMA RestIsCurrent ==
  ASSUME NEW r \in Requests, NEW q \in Req, q.state \notin {"read"},
         q.state = "done" \/ (q.claiming = FALSE /\ q.late = "no")
  PROVE  Current(r, q, meta, writeLock)
  BY DEF Current, Req

LEMMA AccessStaysCurrent ==
  ASSUME DecisionInv, NEW r \in Requests, Access(r)
  PROVE  DecisionInv'
  <1> DEFINE q == reqs[r]
             m == meta[q.space]
  <1>0. CopiesInv /\ CopiesInv'
    BY AccessKeeps DEF DecisionInv
  <1>1. q \in Req /\ q # Free /\ q.state = "sent" /\ UNCHANGED apiVars
    BY <1>0 DEF CopiesInv, Access
  <1>2. q.claiming = FALSE /\ q.late = "no"
    BY <1>1 DEF DecisionInv, Current
  <1>3. CASE q.by \in {m.owner} \cup m.members
    <2> DEFINE n == [q EXCEPT !.state = "seen"]
    <2>1. n \in Req /\ n.state = "seen" /\ n.claiming = FALSE /\ n.late = "no"
      BY <1>1, <1>2 DEF Req
    <2>2. Put(r, n)
      BY <1>3 DEF Access
    <2> HIDE DEF n
    <2> QED
      BY <1>0, <1>1, <2>1, <2>2, RestIsCurrent, PutStaysCurrent
  <1>4. CASE q.by \notin {m.owner} \cup m.members /\ q.by \in m.pending
    <2> DEFINE n == [q EXCEPT !.state = "read", !.claiming = TRUE, !.copy = Claim(m, q.by)]
    <2>1. Put(r, n)
      BY <1>4 DEF Access
    <2>2. n \in Req
      <3>1. Claim(m, q.by) \in Meta /\ UniqueIn(Claim(m, q.by))
        BY <1>0, <1>1, <1>4, OperationsKeep DEF CopiesInv, Req
      <3> QED
        BY <1>1, <3>1 DEF Req, Good
    <2>3. n.state = "read" /\ n.claiming = TRUE /\ n.copy = Claim(m, q.by) /\ n.by = q.by /\ n.space = q.space
      BY <1>1 DEF Req
    <2> HIDE DEF n
    <2>4. Doing(n) = "claim"
      BY <2>3 DEF Doing
    <2>5. Made(n, meta[n.space]) = Claim(m, q.by)
      BY <2>3, <2>4 DEF Made, Applied
    <2>6. Current(r, n, meta, writeLock)
      BY <2>3, <2>4, <2>5 DEF Current, Unlocked
    <2> QED
      BY <1>0, <1>1, <2>1, <2>2, <2>6, PutStaysCurrent
  <1>5. CASE q.by \notin {m.owner} \cup m.members /\ q.by \notin m.pending
    <2>1. Put(r, Answered(r, "refused"))
      BY <1>5 DEF Access
    <2>2. Answered(r, "refused") \in Req /\ Answered(r, "refused").state = "done"
      BY <1>0, <1>1, AnsweredKeeps
    <2> QED
      BY <1>0, <1>1, <2>1, <2>2, RestIsCurrent, PutStaysCurrent
  <1> QED
    BY <1>3, <1>4, <1>5

LEMMA LookStaysCurrent ==
  ASSUME DecisionInv, NEW r \in Requests, Look(r)
  PROVE  DecisionInv'
  <1> DEFINE q == reqs[r]
             m == meta[q.space]
  <1>0. CopiesInv /\ CopiesInv'
    BY LookKeeps DEF DecisionInv
  <1>1. q \in Req /\ q # Free /\ q.state = "seen" /\ UNCHANGED apiVars
    BY <1>0 DEF CopiesInv, Look
  <1>2. q.claiming = FALSE /\ q.late = "no"
    BY <1>1 DEF DecisionInv, Current
  <1>3. m \in Good
    BY <1>0, <1>1 DEF CopiesInv, Req, Good
  <1>4. CASE q.kind \in {"open", "list"} /\ Put(r, [Answered(r, "ok") EXCEPT !.copy = m])
    <2> DEFINE n == [Answered(r, "ok") EXCEPT !.copy = m]
    <2>1. Answered(r, "ok") \in Req /\ Answered(r, "ok").state = "done"
      BY <1>0, <1>1, AnsweredKeeps
    <2>2. n \in Req /\ n.state = "done"
      BY <2>1, <1>3 DEF Req
    <2>3. Put(r, n)
      BY <1>4
    <2> HIDE DEF n
    <2> QED
      BY <1>0, <1>1, <2>2, <2>3, RestIsCurrent, PutStaysCurrent
  <1>5. CASE q.kind = "restate" /\ Put(r, [q EXCEPT !.state = "read", !.copy = m])
    <2> DEFINE n == [q EXCEPT !.state = "read", !.copy = m]
    <2>1. /\ n \in Req /\ n.state = "read" /\ n.copy = m /\ n.claiming = FALSE /\ n.kind = "restate"
          /\ n.space = q.space
      BY <1>1, <1>2, <1>3, <1>5 DEF Req
    <2>2. Put(r, n)
      BY <1>5
    <2> HIDE DEF n
    <2>3. Doing(n) = "restate"
      BY <2>1 DEF Doing
    <2>4. Made(n, meta[n.space]) = m
      BY <2>1, <2>3 DEF Made, Applied
    <2>5. Current(r, n, meta, writeLock)
      BY <2>1, <2>3, <2>4 DEF Current, Unlocked
    <2> QED
      BY <1>0, <1>1, <2>1, <2>2, <2>5, PutStaysCurrent
  <1>6. CASE Put(r, [q EXCEPT !.state = "owned"])
    <2> DEFINE n == [q EXCEPT !.state = "owned"]
    <2>1. n \in Req /\ n.state = "owned" /\ n.claiming = FALSE /\ n.late = "no"
      BY <1>1, <1>2 DEF Req
    <2>2. Put(r, n)
      BY <1>6
    <2> HIDE DEF n
    <2> QED
      BY <1>0, <1>1, <2>1, <2>2, RestIsCurrent, PutStaysCurrent
  <1> QED
    BY <1>4, <1>5, <1>6 DEF Look

LEMMA CheckOwnerStaysCurrent ==
  ASSUME DecisionInv, NEW r \in Requests, CheckOwner(r)
  PROVE  DecisionInv'
  <1>0. CopiesInv /\ CopiesInv'
    BY CheckOwnerKeeps DEF DecisionInv
  <1>1. /\ reqs[r] \in Req /\ reqs[r] # Free /\ reqs[r].state = "seen" /\ UNCHANGED apiVars
    BY <1>0 DEF CopiesInv, CheckOwner
  <1>2. reqs[r].claiming = FALSE /\ reqs[r].late = "no"
    BY <1>1 DEF DecisionInv, Current
  <1>3. CASE Put(r, Answered(r, "refused"))
    <2>1. Answered(r, "refused") \in Req /\ Answered(r, "refused").state = "done"
      BY <1>0, <1>1, AnsweredKeeps
    <2> QED
      BY <1>0, <1>1, <1>3, <2>1, RestIsCurrent, PutStaysCurrent
  <1>4. CASE Put(r, [reqs[r] EXCEPT !.state = "owned"])
    <2> DEFINE n == [reqs[r] EXCEPT !.state = "owned"]
    <2>1. n \in Req /\ n.state = "owned" /\ n.claiming = FALSE /\ n.late = "no"
      BY <1>1, <1>2 DEF Req
    <2>2. Put(r, n)
      BY <1>4
    <2> HIDE DEF n
    <2> QED
      BY <1>0, <1>1, <2>1, <2>2, RestIsCurrent, PutStaysCurrent
  <1> QED
    BY <1>3, <1>4 DEF CheckOwner

\* Nobody else holds the lock that is taken, so no other request waits for it to be given back.
LEMMA ReadLockedStaysCurrent ==
  ASSUME DecisionInv, MembersAssumption, NEW r \in Requests, ReadLocked(r)
  PROVE  DecisionInv'
  <1> DEFINE q == reqs[r]
             s == q.space
             next == Applied(q.kind, meta[s], q.key)
             n == [q EXCEPT !.state = "read", !.copy = next]
  <1>0. CopiesInv /\ CopiesInv'
    BY ReadLockedKeeps DEF DecisionInv
  <1>1. /\ q \in Req /\ q # Free /\ q.state = "owned" /\ UNCHANGED <<meta, decided, crossed>>
        /\ writeLock[s] = NoPerson /\ NoPerson \notin Requests
    BY <1>0 DEF CopiesInv, ReadLocked, MembersAssumption
  <1>2. q.claiming = FALSE /\ q.late = "no" /\ s \in Shared
    BY <1>1 DEF DecisionInv, Current, Req
  <1>3. CASE Put(r, Answered(r, "refused")) /\ UNCHANGED writeLock
    <2>1. Answered(r, "refused") \in Req /\ Answered(r, "refused").state = "done"
      BY <1>0, <1>1, AnsweredKeeps
    <2>2. UNCHANGED apiVars
      BY <1>1, <1>3 DEF apiVars
    <2> QED
      BY <1>0, <1>1, <1>3, <2>1, <2>2, RestIsCurrent, PutStaysCurrent
  <1>4. CASE Put(r, n) /\ writeLock' = [writeLock EXCEPT ![s] = r]
    <2> HIDE DEF next
    <2>1. /\ n.state = "read" /\ n.copy = next /\ n.claiming = FALSE /\ n.late = "no"
          /\ n.kind = q.kind /\ n.key = q.key /\ n.space = s
      BY <1>1, <1>2 DEF Req
    <2>2. reqs' = [reqs EXCEPT ![r] = n]
      BY <1>4 DEF Put
    <2> HIDE DEF n
    <2>3. \A o \in Requests : reqs'[o] = IF o = r THEN n ELSE reqs[o]
      BY <1>0, <2>2 DEF CopiesInv
    <2>4. writeLock'[s] = r /\ DOMAIN writeLock' = Shared
          /\ \A t \in Shared : t # s => writeLock'[t] = writeLock[t]
      BY <1>2, <1>4 DEF DecisionInv
    <2>5. Doing(n) = q.kind /\ Made(n, meta[s]) = next
      BY <2>1 DEF Doing, Made, next
    <2>6. Current(r, n, meta, writeLock')
      BY <2>1, <2>4, <2>5 DEF Current
    <2>7. ASSUME NEW o \in Requests, o # r, reqs[o] # Free
          PROVE  Current(o, reqs[o], meta, writeLock')
      <3>1. Current(o, reqs[o], meta, writeLock) /\ reqs[o].space \in Shared
        BY <1>0, <2>7 DEF DecisionInv, CopiesInv, Req
      <3>2. writeLock[reqs[o].space] = o => writeLock'[reqs[o].space] = o
        BY <1>1, <2>4, <3>1
      <3> QED
        BY <3>1, <3>2 DEF Current
    <2>8. \A o \in Requests : reqs'[o] # Free => Current(o, reqs'[o], meta, writeLock')
      BY <2>3, <2>6, <2>7
    <2> QED
      BY <1>0, <1>1, <2>4, <2>8 DEF DecisionInv, DecisionsKept
  <1> QED
    BY <1>3, <1>4 DEF ReadLocked

\* The request writes what it makes of the decisions so far, unless it was crossed; a
\* locked one that reads meanwhile was not overtaken by another locked one.
LEMMA WriteStaysCurrent ==
  ASSUME DecisionInv, NEW r \in Requests, Write(r)
  PROVE  DecisionInv'
  <1> DEFINE q == reqs[r]
             s == q.space
             free == Doing(q) \in Unlocked
             made == Made(q, decided[s])
             after == IF q.claiming THEN [q EXCEPT !.state = "seen", !.claiming = FALSE, !.late = "no"]
                      ELSE Answered(r, "ok")
  <1>0. CopiesInv /\ CopiesInv'
    BY WriteKeeps DEF DecisionInv
  <1>1. q \in Req /\ q # Free /\ q.state = "read" /\ s \in Shared
    BY <1>0 DEF CopiesInv, Write, Req
  <1>2. /\ q.late = "no" => q.copy = Made(q, meta[s])
        /\ ~free => writeLock[s] = r /\ q.late # "locked"
    BY <1>1 DEF DecisionInv, Current
  <1>3. /\ DOMAIN decided' = Shared /\ DOMAIN writeLock' = Shared /\ crossed' \in [Shared -> BOOLEAN]
        /\ \A t \in Shared \ {s} : /\ meta'[t] = meta[t] /\ decided'[t] = decided[t]
                                   /\ crossed'[t] = crossed[t] /\ writeLock'[t] = writeLock[t]
        /\ meta'[s] = q.copy /\ decided'[s] = made
        /\ writeLock'[s] = IF writeLock[s] = r THEN NoPerson ELSE writeLock[s]
    <2>1. meta' = [meta EXCEPT ![s] = q.copy] /\ DOMAIN meta = Shared
      BY <1>0 DEF Write, CopiesInv
    <2>2. decided' = [decided EXCEPT ![s] = made] /\ DOMAIN decided = Shared
      BY DEF Write, Made, DecisionInv
    <2>3. /\ writeLock' = [writeLock EXCEPT ![s] = IF writeLock[s] = r THEN NoPerson ELSE writeLock[s]]
          /\ DOMAIN writeLock = Shared
      BY DEF Write, DecisionInv
    <2>4. /\ crossed' = [crossed EXCEPT ![s] = crossed[s] \/ q.late = "unlocked" \/ (q.late = "locked" /\ free)]
          /\ crossed \in [Shared -> BOOLEAN]
      BY DEF Write, DecisionInv
    <2> HIDE DEF made, free
    <2> QED
      BY <1>1, <2>1, <2>2, <2>3, <2>4
  <1>4. crossed'[s] = FALSE => crossed[s] = FALSE /\ q.late # "unlocked" /\ ~(q.late = "locked" /\ free)
    <2>1. /\ crossed' = [crossed EXCEPT ![s] = crossed[s] \/ q.late = "unlocked" \/ (q.late = "locked" /\ free)]
          /\ crossed \in [Shared -> BOOLEAN]
      BY DEF Write, DecisionInv
    <2> HIDE DEF free
    <2> QED
      BY <1>1, <2>1
  <1>5. DecisionsKept'
    <2>1. crossed'[s] = FALSE => meta'[s] = decided'[s]
      <3>1. SUFFICES ASSUME crossed'[s] = FALSE PROVE meta'[s] = decided'[s]
        OBVIOUS
      <3>2. q.late = "no"
        BY <1>1, <1>2, <1>4, <3>1 DEF Req
      <3>3. meta[s] = decided[s]
        BY <1>1, <1>4, <3>1 DEF DecisionInv, DecisionsKept
      <3> QED
        BY <1>2, <1>3, <3>2, <3>3
    <2>2. \A t \in Shared \ {s} : crossed'[t] = FALSE => meta'[t] = decided'[t]
      BY <1>3 DEF DecisionInv, DecisionsKept
    <2> QED
      BY <1>3, <2>1, <2>2 DEF DecisionsKept
  <1>6. reqs' = [o \in Requests |->
          IF o = r THEN after
          ELSE IF o \in Reading(s)
          THEN [reqs[o] EXCEPT !.late = IF free \/ reqs[o].late = "unlocked" THEN "unlocked" ELSE "locked"]
          ELSE reqs[o]]
    BY DEF Write
  <1>7. after # Free => Current(r, after, meta', writeLock')
    <2>1. CASE q.claiming
      <3>1. after = [q EXCEPT !.state = "seen", !.claiming = FALSE, !.late = "no"]
        BY <2>1
      <3>2. after \in Req /\ after.state = "seen" /\ after.claiming = FALSE /\ after.late = "no"
        BY <1>1, <3>1 DEF Req
      <3> QED
        BY <3>2 DEF Current
    <2>2. CASE ~q.claiming
      <3>1. after = Answered(r, "ok")
        BY <2>2
      <3>2. after \in Req /\ after.state = "done"
        BY <1>0, <1>1, <3>1, AnsweredKeeps
      <3> QED
        BY <3>2 DEF Current
    <2> QED
      BY <2>1, <2>2
  <1>8. ASSUME NEW o \in Requests, o # r, reqs[o] # Free
        PROVE  Current(o, reqs'[o], meta', writeLock')
    <2>1. reqs[o] \in Req /\ Current(o, reqs[o], meta, writeLock)
      BY <1>0, <1>8 DEF DecisionInv, CopiesInv
    <2>2. CASE o \in Reading(s)
      <3> DEFINE late == IF free \/ reqs[o].late = "unlocked" THEN "unlocked" ELSE "locked"
                 n == [reqs[o] EXCEPT !.late = late]
      <3>1. reqs[o].state = "read" /\ reqs[o].space = s
        BY <2>2 DEF Reading
      <3>2. reqs'[o] = n
        BY <1>6, <1>8, <2>2
      <3>3. Doing(reqs[o]) \notin Unlocked => free
        BY <1>2, <1>8, <2>1, <3>1 DEF Current
      <3>4. Doing(reqs[o]) \notin Unlocked => late # "locked"
        BY <3>3
      <3>5. late # "no"
        OBVIOUS
      <3> HIDE DEF late, free
      <3>6. /\ n.late = late /\ n.state = "read" /\ n.space = s
            /\ n.claiming = reqs[o].claiming /\ n.kind = reqs[o].kind
        BY <2>1, <3>1 DEF Req
      <3> HIDE DEF n
      <3>7. Doing(n) = Doing(reqs[o])
        BY <3>6 DEF Doing
      <3>8. Doing(n) \notin Unlocked => writeLock'[s] = o
        BY <1>3, <1>8, <2>1, <3>1, <3>7 DEF Current
      <3> QED
        BY <3>2, <3>4, <3>5, <3>6, <3>7, <3>8 DEF Current
    <2>3. CASE o \notin Reading(s)
      <3>1. reqs'[o] = reqs[o]
        BY <1>6, <1>8, <2>3
      <3>2. reqs[o].state = "read" => reqs[o].space \in Shared \ {s}
        BY <1>8, <2>1, <2>3 DEF Reading, Req
      <3>3. CASE reqs[o].state = "read"
        <4>1. meta'[reqs[o].space] = meta[reqs[o].space] /\ writeLock'[reqs[o].space] = writeLock[reqs[o].space]
          BY <1>3, <3>2, <3>3
        <4> QED
          BY <2>1, <3>1, <3>3, <4>1 DEF Current
      <3>4. CASE reqs[o].state # "read"
        BY <2>1, <3>1, <3>4 DEF Current
      <3> QED
        BY <3>3, <3>4
    <2> QED
      BY <2>2, <2>3
  <1>9. \A o \in Requests : reqs'[o] # Free => Current(o, reqs'[o], meta', writeLock')
    <2> SUFFICES ASSUME NEW o \in Requests, reqs'[o] # Free PROVE Current(o, reqs'[o], meta', writeLock')
      OBVIOUS
    <2>1. CASE o = r
      <3>1. reqs'[o] = after
        BY <1>6, <2>1
      <3> QED
        BY <1>7, <2>1, <3>1
    <2>2. CASE o # r /\ reqs[o] # Free
      BY <1>8, <2>2
    <2>3. CASE o # r /\ reqs[o] = Free
      BY <1>6, <2>3 DEF Reading
    <2> QED
      BY <2>1, <2>2, <2>3
  <1> QED
    BY <1>0, <1>3, <1>5, <1>9 DEF DecisionInv

\* A request that is new, or over.
LEMMA SendStaysCurrent ==
  ASSUME DecisionInv, CopiesInv', UNCHANGED apiVars, MembersAssumption, NEW r \in Requests,
         NEW by \in People, NEW s \in Shared, NEW key \in Keys,
         NEW kind \in {"open", "list", "restate", "version", "invite", "remove", "transfer"},
         NEW from \in {"others", "gone", "owner", "load", "act", "hub"},
         Put(r, Request(kind, by, s, key, from))
  PROVE  DecisionInv'
  <1> DEFINE n == Request(kind, by, s, key, from)
  <1>1. n \in Req /\ n.state = "sent"
    BY NewRequest
  <1>2. n.claiming = FALSE /\ n.late = "no"
    BY DEF Request
  <1> HIDE DEF n
  <1> QED
    BY <1>1, <1>2, RestIsCurrent, PutStaysCurrent DEF n

LEMMA EndStaysCurrent ==
  ASSUME DecisionInv, CopiesInv', UNCHANGED apiVars, NEW r \in Requests, Put(r, Free)
  PROVE  DecisionInv'
  BY PutStaysCurrent

LEMMA LoadStaysCurrent ==
  ASSUME DecisionInv, CopiesInv', UNCHANGED apiVars, MembersAssumption, NEW r \in Requests,
         reqs[r] # Free, Load(r)
  PROVE  DecisionInv'
  <1>1. reqs[r].space \in Shared
    BY DEF DecisionInv, CopiesInv, Req
  <1>2. NoKey(Me) \in Keys /\ Me \in People
    BY DEF NoKey, Keys, MembersAssumption
  <1> QED
    BY <1>1, <1>2, SendStaysCurrent DEF Load

LEMMA OthersStayCurrent ==
  ASSUME DecisionInv, CopiesInv', MembersAssumption, NEW r \in Requests,
         OthersAsk(r) \/ OthersAnswered(r)
  PROVE  DecisionInv'
  <1>1. CASE OthersAsk(r)
    <2>1. PICK p \in People \ {Me}, s \in Shared,
               kind \in {"open", "restate", "version"} \cup OwnerOnly, key \in Keys :
                 Put(r, Request(kind, p, s, key, "others")) /\ UNCHANGED apiVars
      BY <1>1 DEF OthersAsk, Send
    <2>2. kind \in {"open", "list", "restate", "version", "invite", "remove", "transfer"}
      BY DEF OwnerOnly
    <2> QED
      BY <2>1, <2>2, SendStaysCurrent
  <1>2. CASE OthersAnswered(r)
    BY <1>2, EndStaysCurrent DEF OthersAnswered
  <1> QED
    BY <1>1, <1>2

LEMMA OpenMembersStaysCurrent ==
  ASSUME DecisionInv, CopiesInv', MembersAssumption, NEW r \in Requests, NEW s \in Shared,
         OpenMembers(r, s)
  PROVE  DecisionInv'
  <1> DEFINE n == Request("list", Me, s, NoKey(Me), "owner")
  <1>1. n \in Req /\ n.state = "sent" /\ n.claiming = FALSE /\ n.late = "no"
    <2>1. NoKey(Me) \in Keys /\ Me \in People
      BY DEF NoKey, Keys, MembersAssumption
    <2>2. n.claiming = FALSE /\ n.late = "no"
      BY DEF Request
    <2> QED
      BY <2>1, <2>2, NewRequest
  <1>2. /\ reqs' = [o \in Requests |-> IF o = r THEN n ELSE Unmounted(reqs[o])]
        /\ UNCHANGED <<meta, writeLock, decided, crossed>>
    BY DEF OpenMembers, apiVars
  <1> HIDE DEF n
  <1>3. ASSUME NEW o \in Requests, reqs'[o] # Free
        PROVE  Current(o, reqs'[o], meta, writeLock)
    <2>1. CASE o = r
      BY <1>1, <1>2, <2>1, RestIsCurrent
    <2>2. CASE o # r /\ reqs[o] # Free /\ reqs'[o] = [reqs[o] EXCEPT !.from = "gone"]
      <3> DEFINE g == [reqs[o] EXCEPT !.from = "gone"]
      <3>1. reqs[o] \in Req /\ Current(o, reqs[o], meta, writeLock)
        BY <2>2 DEF DecisionInv, CopiesInv
      <3>2. /\ g.state = reqs[o].state /\ g.claiming = reqs[o].claiming /\ g.late = reqs[o].late
            /\ g.copy = reqs[o].copy /\ g.space = reqs[o].space /\ g.kind = reqs[o].kind
            /\ g.by = reqs[o].by /\ g.key = reqs[o].key
        BY <3>1 DEF Req
      <3> HIDE DEF g
      <3>3. Doing(g) = Doing(reqs[o]) /\ Made(g, meta[g.space]) = Made(reqs[o], meta[reqs[o].space])
        BY <3>2 DEF Doing, Made
      <3>4. Current(o, g, meta, writeLock)
        BY <3>1, <3>2, <3>3 DEF Current
      <3> QED
        BY <2>2, <3>4 DEF g
    <2>3. CASE o # r /\ reqs'[o] = reqs[o]
      BY <1>3, <2>3 DEF DecisionInv
    <2> QED
      BY <1>2, <1>3, <2>1, <2>2, <2>3 DEF Unmounted
  <1>4. \A o \in Requests : reqs'[o] # Free => Current(o, reqs'[o], meta, writeLock)
    BY <1>3
  <1> QED
    BY <1>2, <1>4 DEF DecisionInv, DecisionsKept

LEMMA PanelStaysCurrent ==
  ASSUME DecisionInv, CopiesInv', MembersAssumption, NEW r \in Requests,
         \/ OwnerAnswered(r) \/ LoadAnswered(r) \/ ManageAnswered(r) \/ \E s \in Shared : Manage(r, s)
  PROVE  DecisionInv'
  <1>1. CASE OwnerAnswered(r)
    BY <1>1, LoadStaysCurrent DEF OwnerAnswered, Done
  <1>2. CASE LoadAnswered(r)
    BY <1>2, EndStaysCurrent DEF LoadAnswered
  <1>3. CASE ManageAnswered(r)
    <2>1. reqs[r] # Free /\ UNCHANGED apiVars
      BY <1>3 DEF ManageAnswered, Done
    <2> QED
      BY <1>3, <2>1, LoadStaysCurrent, EndStaysCurrent DEF ManageAnswered
  <1>4. CASE \E s \in Shared : Manage(r, s)
    <2>1. PICK s \in Shared, kind \in OwnerOnly, p \in People, by \in {"id", "mail"} :
                 /\ Put(r, Request(kind, Me, s, [by |-> by, who |-> p], "act")) /\ UNCHANGED apiVars
      BY <1>4 DEF Manage, Send
    <2>2. /\ kind \in {"open", "list", "restate", "version", "invite", "remove", "transfer"}
          /\ [by |-> by, who |-> p] \in Keys /\ Me \in People
      BY DEF OwnerOnly, Keys, MembersAssumption
    <2> QED
      BY <2>1, <2>2, SendStaysCurrent
  <1> QED
    BY <1>1, <1>2, <1>3, <1>4

LEMMA HubStaysCurrent ==
  ASSUME DecisionInv, CopiesInv', MembersAssumption, NEW r \in Requests,
         HubAnswered(r) \/ \E p \in People, s \in Shared : HubSends(r, p, s)
  PROVE  DecisionInv'
  <1>1. CASE HubAnswered(r)
    BY <1>1, EndStaysCurrent DEF HubAnswered
  <1>2. CASE \E p \in People, s \in Shared : HubSends(r, p, s)
    <2>1. PICK p \in People, s \in Shared, kind \in {"invite", "remove"}, by \in {"id", "mail"} :
                 Put(r, Request(kind, Me, s, [by |-> by, who |-> p], "hub")) /\ UNCHANGED apiVars
      BY <1>2 DEF HubSends, Send
    <2>2. [by |-> by, who |-> p] \in Keys /\ Me \in People
      BY DEF Keys, MembersAssumption
    <2> QED
      BY <2>1, <2>2, SendStaysCurrent
  <1> QED
    BY <1>1, <1>2

LEMMA DecisionsInitially == MembersInit => DecisionInv
  <1> SUFFICES ASSUME MembersInit PROVE DecisionInv
    OBVIOUS
  <1>1. CopiesInv
    BY CopiesInitially
  <1>2. /\ decided = meta /\ crossed = [s \in Shared |-> FALSE]
        /\ writeLock = [s \in Shared |-> NoPerson] /\ reqs = [r \in Requests |-> Free]
    BY DEF MembersInit
  <1> QED
    BY <1>1, <1>2 DEF DecisionInv, DecisionsKept, CopiesInv

LEMMA DecisionsStep ==
  ASSUME MembersAssumption, DecisionInv, [MembersNext]_membersVars
  PROVE  DecisionInv'
  <1>0. CopiesInv'
    BY CopiesStep DEF DecisionInv
  <1>1. CASE UNCHANGED apiVars /\ UNCHANGED reqs
    BY <1>0, <1>1 DEF apiVars, DecisionInv, DecisionsKept, Current, Made
  <1>2. ASSUME NEW r \in Requests, Serve(r)
        PROVE  DecisionInv'
    BY <1>2, AccessStaysCurrent, LookStaysCurrent, CheckOwnerStaysCurrent, ReadLockedStaysCurrent,
       WriteStaysCurrent DEF Serve
  <1>3. ASSUME NEW r \in Requests, NEW s \in Shared, OpenMembers(r, s) PROVE DecisionInv'
    BY <1>0, <1>3, OpenMembersStaysCurrent
  <1>4. ASSUME NEW r \in Requests,
               \/ OwnerAnswered(r) \/ LoadAnswered(r) \/ ManageAnswered(r)
               \/ \E s \in Shared : Manage(r, s)
        PROVE  DecisionInv'
    BY <1>0, <1>4, PanelStaysCurrent
  <1>5. ASSUME NEW r \in Requests, HubAnswered(r) \/ \E p \in People, s \in Shared : HubSends(r, p, s)
        PROVE  DecisionInv'
    BY <1>0, <1>5, HubStaysCurrent
  <1>6. ASSUME NEW r \in Requests, OthersAsk(r) \/ OthersAnswered(r) PROVE DecisionInv'
    BY <1>0, <1>6, OthersStayCurrent
  <1>7. CASE \/ OpenHub \/ HubReads \/ HubShows
             \/ \E p \in People : HubRemoves(p) \/ \E s \in Shared : HubAdds(p, s)
    <2>1. UNCHANGED apiVars /\ UNCHANGED reqs
      BY <1>7 DEF OpenHub, HubReads, HubShows, HubRemoves, HubAdds
    <2> QED
      BY <1>1, <2>1
  <1>8. CASE UNCHANGED membersVars
    BY <1>1, <1>8 DEF membersVars
  <1> QED
    BY <1>2, <1>3, <1>4, <1>5, <1>6, <1>7, <1>8 DEF MembersNext

\* No invitation, removal or transfer is undone by the requests that take the lock of the
\* workspace; only a rewrite without it (the claim of an invitation, set_workspace_state,
\* rename_workspace_alias) that crosses another request may do so (mixins/rbac.py).
THEOREM DecisionsAreKept == MembersSpec => []DecisionsKept
  <1>1. MembersAssumption /\ DecisionInv /\ [MembersNext]_membersVars => DecisionInv'
    BY DecisionsStep
  <1>2. DecisionInv => DecisionsKept
    BY DEF DecisionInv
  <1> QED
    BY <1>1, <1>2, DecisionsInitially, MembersAssumption, PTL DEF MembersSpec


-----------------------------------------------------------------------------
(***************************************************************************)
(* The frame of the page.  Whoever signs in or out tells the three readers *)
(* in the same step, except the header under a ?user=.  The URL is that of *)
(* the view whenever its effects have run, so a reload starts from it; the *)
(* first pass overwrites the mode in the URL, but has read it before.      *)
(***************************************************************************)
SessionInv == pass # "mount" /\ news = FALSE /\ revived = FALSE => copies = [r \in Readers |-> storedName]

ViewInv ==
  /\ mode \in Modes /\ DOMAIN address = {"panel", "mode", "home"}
  /\ address.mode \in Modes \cup {"none"} /\ storedMode \in [Homes -> Modes \cup {"none"}]
  /\ {home, address.home} \subseteq Homes \cup {NoHome}
  /\ pass \in {"idle", "opened"} => address.panel = front /\ address.mode = mode
  /\ left # NoView =>
       /\ left = [panel |-> front, mode |-> left.mode] /\ left.mode \in Modes
       /\ IF pass = "mount" THEN address.panel = front /\ address.mode = left.mode
          ELSE mode = left.mode

ShellInv ==
  /\ {news, revived} \subseteq BOOLEAN
  /\ SessionInv /\ ViewInv

LEMMA ShellInitially == ShellInit => ShellInv
  <1> SUFFICES ASSUME ShellInit PROVE ShellInv
    OBVIOUS
  <1>1. mode = "customer" /\ pass = "mount" /\ left = NoView /\ news = FALSE /\ revived = FALSE
    BY DEF ShellInit, Fresh
  <1>2. DOMAIN address = {"panel", "mode", "home"}
    BY DEF ShellInit
  <1>3. /\ address.mode \in Modes \cup {"none"} /\ storedMode \in [Homes -> Modes \cup {"none"}]
        /\ {home, address.home} \subseteq Homes \cup {NoHome}
    BY DEF ShellInit, Fresh
  <1> QED
    BY <1>1, <1>2, <1>3 DEF ShellInv, SessionInv, ViewInv, Modes

\* Signing in and out leaves what is shown alone.
LEMMA SessionStep ==
  ASSUME SessionInv, {news, revived} \subseteq BOOLEAN, [ShellNext]_shellVars
  PROVE  SessionInv' /\ {news, revived}' \subseteq BOOLEAN
  <1> USE DEF SessionInv, Sync, session, kept, view, shellHistory, Turn, Act, OnPage, InSettings
  <1>1. CASE ElsewhereSigned
    BY <1>1 DEF ElsewhereSigned
  <1>2. CASE StorageEvent
    BY <1>2 DEF StorageEvent
  <1>3. CASE Mount
    BY <1>3 DEF Mount
  <1>4. CASE Effects
    BY <1>4 DEF Effects
  <1>5. CASE Reload
    BY <1>5 DEF Reload
  <1>6. ASSUME NEW p \in Front, SelectPanel(p) PROVE SessionInv' /\ {news, revived}' \subseteq BOOLEAN
    BY <1>6 DEF SelectPanel
  <1>7. CASE Browse(1) \/ Browse(-1)
    BY <1>7 DEF Browse
  <1>8. CASE ToggleMode
    BY <1>8 DEF ToggleMode
  <1>9. CASE HeaderAuth
    <2>1. CASE copies["header"] # NoName
      <3>1. /\ storedName' = Resolved(NoName) /\ UNCHANGED news
            /\ copies' = [r \in Readers |-> IF r = "header" THEN NoName ELSE Resolved(NoName)]
            /\ revived' = (queryName # NoName)
        BY <1>9, <2>1 DEF HeaderAuth
      <3>2. revived' = FALSE => Resolved(NoName) = NoName
        BY <3>1 DEF Resolved
      <3> HIDE DEF Sync
      <3> QED
        BY <3>1, <3>2
    <2>2. CASE copies["header"] = NoName
      BY <1>9, <2>2 DEF HeaderAuth
    <2> QED
      BY <2>1, <2>2
  <1>10. CASE Logout
    BY <1>10 DEF Logout
  <1>11. CASE CloseAuth \/ SwitchAuth
    BY <1>11 DEF CloseAuth, SwitchAuth
  <1>12. ASSUME NEW yes \in BOOLEAN, AnswerExpert(yes) PROVE SessionInv' /\ {news, revived}' \subseteq BOOLEAN
    BY <1>12 DEF AnswerExpert
  <1>13. ASSUME NEW h \in Homes \cup {NoHome}, OpenHome(h) PROVE SessionInv' /\ {news, revived}' \subseteq BOOLEAN
    BY <1>13 DEF OpenHome
  <1>14. ASSUME NEW t \in Gated \cup {"general"}, SelectTab(t) PROVE SessionInv' /\ {news, revived}' \subseteq BOOLEAN
    BY <1>14 DEF SelectTab
  <1>15. ASSUME NEW how \in {"login", "register"}, OpenAuth(how) PROVE SessionInv' /\ {news, revived}' \subseteq BOOLEAN
    BY <1>15 DEF OpenAuth
  <1>16. ASSUME NEW n \in Names, SubmitAuth(n) PROVE SessionInv' /\ {news, revived}' \subseteq BOOLEAN
    BY <1>16 DEF SubmitAuth
  <1>17. CASE UNCHANGED shellVars
    BY <1>17 DEF shellVars
  <1> HIDE DEF SessionInv, Sync
  <1> QED
    BY <1>1, <1>2, <1>3, <1>4, <1>5, <1>6, <1>7, <1>8, <1>9, <1>10, <1>11, <1>12, <1>13, <1>14,
       <1>15, <1>16, <1>17 DEF ShellNext

\* The tab, the mode and the URL: an action of the user is a new start.
LEMMA ModesAreKept ==
  ASSUME ViewInv
  PROVE  /\ ModeOfHome \in Modes
         /\ [storedMode EXCEPT ![home] = mode] \in [Homes -> Modes \cup {"none"}]
         /\ \A p, m : /\ DOMAIN [address EXCEPT !.panel = p, !.mode = m] = {"panel", "mode", "home"}
                      /\ [address EXCEPT !.panel = p, !.mode = m].panel = p
                      /\ [address EXCEPT !.panel = p, !.mode = m].mode = m
                      /\ [address EXCEPT !.panel = p, !.mode = m].home = address.home
  <1>1. ModeOfHome \in Modes
    BY DEF ViewInv, ModeOfHome, Modes
  <1>2. [storedMode EXCEPT ![home] = mode] \in [Homes -> Modes \cup {"none"}]
    BY DEF ViewInv
  <1> QED
    BY <1>1, <1>2 DEF ViewInv

LEMMA ViewStep ==
  ASSUME ViewInv, [ShellNext]_shellVars
  PROVE  ViewInv'
  <1> USE DEF session, kept, view, shellHistory, Turn, Act, OnPage, InSettings, NoView
  <1>0. ASSUME pass = "idle", pass' = "render", left' = NoView, UNCHANGED <<address, storedMode, home>>,
               mode' \in Modes
        PROVE  ViewInv'
    BY <1>0 DEF ViewInv
  <1>1. CASE UNCHANGED <<address, storedMode, home, front, mode, left>> /\ (pass' = pass \/ (pass = "idle" /\ pass' = "render"))
    BY <1>1 DEF ViewInv
  <1>2. CASE Mount
    <2>1. /\ pass = "mount" /\ pass' = "render" /\ UNCHANGED <<front, home, left>>
          /\ mode' = ModeOfHome /\ address' = [address EXCEPT !.panel = front, !.mode = mode]
          /\ storedMode' = IF home = NoHome THEN storedMode ELSE [storedMode EXCEPT ![home] = mode]
      BY <1>2 DEF Mount, WriteAddress, StoreMode
    <2>2. left # NoView => mode' = left.mode
      BY <2>1 DEF ModeOfHome, Modes, ViewInv
    <2>3. address'.mode = mode /\ address'.home = address.home /\ DOMAIN address' = {"panel", "mode", "home"}
      BY <2>1, ModesAreKept
    <2>4. mode' \in Modes /\ storedMode' \in [Homes -> Modes \cup {"none"}]
      BY <2>1, ModesAreKept DEF ViewInv
    <2> QED
      BY <2>1, <2>2, <2>3, <2>4 DEF ViewInv
  <1>3. CASE Effects
    <2>1. /\ pass \in {"render", "opened"} /\ UNCHANGED <<front, home, left>>
          /\ mode' = (IF pass = "opened" /\ home # NoHome THEN ModeOfHome ELSE mode)
          /\ address' = [address EXCEPT !.panel = front, !.mode = mode]
          /\ storedMode' = (IF home = NoHome THEN storedMode ELSE [storedMode EXCEPT ![home] = mode])
          /\ pass' = IF MustAsk \/ mode' # mode THEN "render" ELSE "idle"
      BY <1>3 DEF Effects, WriteAddress, StoreMode
    <2>2. mode' = mode
      BY <2>1 DEF ModeOfHome, Modes, ViewInv
    <2>3. /\ address'.mode = mode /\ address'.home = address.home /\ address'.panel = front
          /\ DOMAIN address' = {"panel", "mode", "home"}
      BY <2>1, ModesAreKept
    <2>4. storedMode' \in [Homes -> Modes \cup {"none"}]
      BY <2>1, ModesAreKept DEF ViewInv
    <2>5. pass' \in {"render", "idle"}
      BY <2>1
    <2> QED
      BY <2>1, <2>2, <2>3, <2>4, <2>5 DEF ViewInv
  <1>4. CASE Reload
    <2>1. /\ pass = "idle" /\ pass' = "mount" /\ left' = [panel |-> front, mode |-> mode]
          /\ home' = address.home /\ UNCHANGED <<address, storedMode>> /\ front' = address.panel
          /\ mode' = "customer"
      BY <1>4 DEF Reload, View
    <2> QED
      BY <2>1 DEF ViewInv, Modes
  <1>5. ASSUME NEW h \in Homes \cup {NoHome}, OpenHome(h) PROVE ViewInv'
    <2>1. /\ pass = "idle" /\ pass' = "opened" /\ home' = h /\ address' = [address EXCEPT !.home = h]
          /\ left' \in {left, NoView} /\ UNCHANGED <<front, mode, storedMode>>
      BY <1>5 DEF OpenHome
    <2>2. /\ DOMAIN address' = {"panel", "mode", "home"} /\ address'.home = h
          /\ address'.mode = address.mode /\ address'.panel = address.panel
      BY <2>1 DEF ViewInv
    <2> QED
      BY <2>1, <2>2 DEF ViewInv
  <1>6. ASSUME NEW p \in Front, SelectPanel(p) PROVE ViewInv'
    BY <1>0, <1>6 DEF SelectPanel, ViewInv
  <1>7. CASE Browse(1) \/ Browse(-1)
    BY <1>0, <1>7 DEF Browse, ViewInv
  <1>8. CASE ToggleMode
    BY <1>0, <1>8 DEF ToggleMode, ViewInv, Modes
  <1>9. ASSUME NEW yes \in BOOLEAN, AnswerExpert(yes) PROVE ViewInv'
    BY <1>0, <1>9 DEF AnswerExpert, ViewInv, Modes
  <1>10. CASE \/ HeaderAuth \/ Logout \/ CloseAuth \/ SwitchAuth
              \/ \E t \in Gated \cup {"general"} : SelectTab(t)
              \/ \E how \in {"login", "register"} : OpenAuth(how)
              \/ \E n \in Names : SubmitAuth(n)
    <2>1. pass = "idle" /\ pass' = "render" /\ left' = NoView /\ UNCHANGED <<address, storedMode, home, mode>>
      BY <1>10 DEF HeaderAuth, Logout, CloseAuth, SwitchAuth, SelectTab, OpenAuth, SubmitAuth
    <2> QED
      BY <1>0, <2>1 DEF ViewInv
  <1>11. CASE ElsewhereSigned \/ StorageEvent \/ UNCHANGED shellVars
    <2>1. UNCHANGED <<address, storedMode, home, front, mode, left>> /\ (pass' = pass \/ (pass = "idle" /\ pass' = "render"))
      BY <1>11 DEF ElsewhereSigned, StorageEvent, shellVars
    <2> QED
      BY <1>1, <2>1
  <1> QED
    BY <1>2, <1>3, <1>4, <1>5, <1>6, <1>7, <1>8, <1>9, <1>10, <1>11 DEF ShellNext

\* The header, the Settings tab and the workspace panel agree on who is signed in, and a
\* reload brings back the tab and the mode the user left (useDeploymentWorkspaceEffects.ts,
\* DeploymentWorkspaceTemplate.tsx).
THEOREM ShellStaysAgreed == ShellSpec => []ShellAgrees
  <1>1. ShellInv /\ [ShellNext]_shellVars => ShellInv'
    <2> SUFFICES ASSUME ShellInv, [ShellNext]_shellVars PROVE ShellInv'
      OBVIOUS
    <2>1. SessionInv' /\ {news, revived}' \subseteq BOOLEAN
      BY SessionStep DEF ShellInv
    <2>2. ViewInv'
      BY ViewStep DEF ShellInv
    <2> QED
      BY <2>1, <2>2 DEF ShellInv
  <1>2. ShellInv => ShellAgrees
    BY DEF ShellInv, SessionInv, ViewInv, ShellAgrees, SessionsAgree, ReloadKeepsView, View
  <1> QED
    BY <1>1, <1>2, ShellInitially, PTL DEF ShellSpec


-----------------------------------------------------------------------------
(***************************************************************************)
(* The bill.  Whatever changes the cart or the users marks the bill for a  *)
(* pass of its effect, and the pass gives up the quotes of the one before: *)
(* so the quotes under way are those of the cart as it is, or the effect   *)
(* is still due.                                                           *)
(***************************************************************************)
AsBilled(answers, groups, seats) ==
  {r.group : r \in answers} = groups /\ \A r \in answers : r.seats \in {0, seats}

IsBill(b) ==
  /\ b = [open |-> b.open, seats |-> b.seats, rows |-> b.rows, loading |-> b.loading, due |-> b.due]
  /\ b.open \in BOOLEAN /\ b.due \in BOOLEAN /\ b.loading \in BOOLEAN

BillInv ==
  /\ teamNews \in BOOLEAN /\ IsBill(bill)
  /\ bill.open = FALSE => bill.due = FALSE /\ quotes = {}
  /\ bill.open = TRUE /\ bill.due = FALSE =>
       /\ teamNews = FALSE => bill.seats = team
       /\ IF bill.loading = TRUE THEN quotes = {[groups |-> Groups(cart), seats |-> bill.seats]}
          ELSE quotes = {} /\ AsBilled(bill.rows, Groups(cart), bill.seats)

LEMMA ABill ==
  ASSUME NEW open \in BOOLEAN, NEW due \in BOOLEAN, NEW busy \in BOOLEAN, NEW seats, NEW answers
  PROVE  LET b == [open |-> open, seats |-> seats, rows |-> answers, loading |-> busy, due |-> due]
         IN  IsBill(b) /\ b.open = open /\ b.seats = seats /\ b.rows = answers /\ b.loading = busy /\ b.due = due
  BY DEF IsBill

LEMMA BillStep ==
  ASSUME BillInv, [OrdersNext]_ordersVars
  PROVE  BillInv'
  <1> USE DEF formVars, hireVars, Buy, NotSearching
  <1>1. ASSUME bill' = Due(bill), UNCHANGED <<quotes, team, teamNews>> PROVE BillInv'
    <2>1. /\ bill.open \in BOOLEAN /\ bill.loading \in BOOLEAN
          /\ bill' = [open |-> bill.open, seats |-> bill.seats, rows |-> bill.rows,
                      loading |-> bill.loading, due |-> bill.open]
      BY <1>1 DEF BillInv, IsBill, Due
    <2>2. IsBill(bill') /\ bill'.open = bill.open /\ bill'.due = bill.open
      BY <2>1, ABill
    <2> QED
      BY <1>1, <2>1, <2>2 DEF BillInv
  <1>2. ASSUME UNCHANGED <<shop, carts, billVars>> PROVE BillInv'
    BY <1>2 DEF BillInv, billVars, cart
  <1>3. CASE \/ \E p \in Machines \X Apps, choice \in Selection : ChangeCart(p, choice)
             \/ \E s \in Shops : SwitchShop(s)
    <2>1. bill' = Due(bill) /\ UNCHANGED <<quotes, team, teamNews>>
      BY <1>3 DEF ChangeCart, SwitchShop
    <2> QED
      BY <1>1, <2>1
  <1>4. ASSUME NEW n \in Seats, CountUsers(n) PROVE BillInv'
    BY <1>4 DEF CountUsers, BillInv, cart
  <1>5. CASE UsersUpdated
    <2>1. CASE bill.open /\ bill.seats # team
      <3>1. bill' = Due([bill EXCEPT !.seats = team]) /\ teamNews' = FALSE
        BY <1>5, <2>1 DEF UsersUpdated
      <3>2. bill' = [open |-> TRUE, seats |-> team, rows |-> bill.rows, loading |-> bill.loading, due |-> TRUE]
        BY <2>1, <3>1 DEF Due, BillInv, IsBill
      <3>3. bill.loading \in BOOLEAN
        BY DEF BillInv, IsBill
      <3>4. IsBill(bill') /\ bill'.open = TRUE /\ bill'.due = TRUE
        BY <3>2, <3>3, ABill
      <3> QED
        BY <3>1, <3>4 DEF BillInv
    <2>2. CASE ~(bill.open /\ bill.seats # team)
      <3>1. UNCHANGED <<bill, quotes, shop, carts, team>> /\ teamNews' = FALSE
        BY <1>5, <2>2 DEF UsersUpdated
      <3> QED
        BY <2>2, <3>1 DEF BillInv, cart
    <2> QED
      BY <2>1, <2>2
  <1>6. CASE OpenBilling
    <2>1. /\ bill' = [NoBill EXCEPT !.open = TRUE, !.due = TRUE] /\ UNCHANGED teamNews
      BY <1>6 DEF OpenBilling
    <2>2. bill' = [open |-> TRUE, seats |-> 1, rows |-> {}, loading |-> FALSE, due |-> TRUE]
      BY <2>1 DEF NoBill
    <2>3. IsBill(bill') /\ bill'.open = TRUE /\ bill'.due = TRUE
      BY <2>2, ABill
    <2> QED
      BY <2>1, <2>3 DEF BillInv
  <1>7. CASE LeaveBilling
    <2>1. bill' = NoBill /\ quotes' = {} /\ UNCHANGED teamNews
      BY <1>7 DEF LeaveBilling
    <2>2. IsBill(bill') /\ bill'.open = FALSE /\ bill'.due = FALSE
      BY <2>1, ABill DEF NoBill
    <2> QED
      BY <2>1, <2>2 DEF BillInv
  <1>8. CASE FetchQuotes
    <2> DEFINE groups == Groups(cart)
    <2>1. /\ bill.due
          /\ bill' = [bill EXCEPT !.seats = team, !.due = (bill.seats # team), !.loading = (groups # {}),
                          !.rows = IF groups = {} THEN {} ELSE @]
          /\ quotes' = IF groups = {} THEN {} ELSE {[groups |-> groups, seats |-> bill.seats]}
          /\ UNCHANGED <<shop, carts, team, teamNews>>
      BY <1>8 DEF FetchQuotes
    <2>2. bill.open = TRUE /\ Groups(cart)' = groups
      BY <2>1 DEF BillInv, cart, Groups, Placed
    <2> HIDE DEF groups
    <2>3. bill' = [open |-> TRUE, seats |-> team, rows |-> IF groups = {} THEN {} ELSE bill.rows,
                   loading |-> (groups # {}), due |-> (bill.seats # team)]
      BY <2>1, <2>2 DEF BillInv, IsBill
    <2>4. /\ IsBill(bill') /\ bill'.open = TRUE /\ bill'.due = (bill.seats # team) /\ bill'.seats = team
          /\ bill'.loading = (groups # {}) /\ bill'.rows = IF groups = {} THEN {} ELSE bill.rows
      BY <2>3, ABill
    <2>5. teamNews' \in BOOLEAN
      BY <2>1 DEF BillInv
    <2>6. CASE bill.seats # team
      BY <2>4, <2>5, <2>6 DEF BillInv
    <2>7. CASE bill.seats = team /\ groups = {}
      <3>1. AsBilled(bill'.rows, groups, team) /\ quotes' = {} /\ bill'.loading = FALSE
        BY <2>1, <2>4, <2>7 DEF AsBilled
      <3> QED
        BY <2>1, <2>2, <2>4, <2>5, <3>1 DEF BillInv
    <2>8. CASE bill.seats = team /\ groups # {}
      <3>1. quotes' = {[groups |-> groups, seats |-> team]} /\ bill'.loading = TRUE
        BY <2>1, <2>4, <2>8
      <3> QED
        BY <2>1, <2>2, <2>4, <2>5, <3>1 DEF BillInv
    <2> QED
      BY <2>6, <2>7, <2>8
  <1>9. ASSUME NEW q \in quotes, Quoted(q) PROVE BillInv'
    <2>1. PICK missing \in SUBSET q.groups :
            bill' = [bill EXCEPT !.loading = FALSE, !.rows =
                       {Row(g, IF g \in missing THEN 0 ELSE q.seats) : g \in q.groups}]
      BY <1>9 DEF Quoted
    <2> DEFINE answers == {Row(g, IF g \in missing THEN 0 ELSE q.seats) : g \in q.groups}
    <2>2. quotes' = quotes \ {q} /\ UNCHANGED <<shop, carts, team, teamNews>>
      BY <1>9 DEF Quoted
    <2>3. AsBilled(answers, q.groups, q.seats)
      <3>1. \A g, n : Row(g, n).group = g /\ Row(g, n).seats = n
        BY DEF Row
      <3>2. \A r \in answers : \E g \in q.groups : r.group = g /\ r.seats \in {0, q.seats}
        BY <3>1
      <3>3. \A g \in q.groups : \E r \in answers : r.group = g
        BY <3>1
      <3> HIDE DEF answers
      <3> QED
        BY <3>2, <3>3 DEF AsBilled
    <2> HIDE DEF answers
    <2>4. /\ bill' = [open |-> bill.open, seats |-> bill.seats, rows |-> answers, loading |-> FALSE, due |-> bill.due]
          /\ bill.due \in BOOLEAN /\ bill.open = TRUE /\ teamNews' \in BOOLEAN
      BY <2>1, <2>2 DEF BillInv, IsBill, answers
    <2>5. /\ IsBill(bill') /\ bill'.open = TRUE /\ bill'.seats = bill.seats /\ bill'.rows = answers
          /\ bill'.loading = FALSE /\ bill'.due = bill.due
      BY <2>4, ABill
    <2>6. CASE bill.due = TRUE
      BY <2>4, <2>5, <2>6 DEF BillInv
    <2>7. CASE bill.due = FALSE
      <3>1. q = [groups |-> Groups(cart), seats |-> bill.seats] /\ quotes' = {}
        BY <2>2, <2>4, <2>7 DEF BillInv
      <3>2. Groups(cart)' = Groups(cart)
        BY <2>2 DEF cart, Groups, Placed
      <3>3. AsBilled(bill'.rows, Groups(cart)', bill'.seats)
        BY <2>3, <2>5, <3>1, <3>2
      <3> QED
        BY <2>2, <2>4, <2>5, <2>7, <3>1, <3>3 DEF BillInv
    <2> QED
      BY <2>4, <2>6, <2>7
  <1>10. CASE \/ OpenOrderTab \/ LeaveOrderTab \/ Submit
              \/ \E step \in {"overview", "form"} : Checkout(step)
              \/ \E complete \in BOOLEAN : UpdateField(complete)
              \/ \E c \in checkouts : PlaceOrder(c) \/ OrderAnswered(c)
              \/ \E target \in servers \cup {NoAlias} : OpenSearch(target)
              \/ OffersLoaded \/ CloseSearch \/ \E offer \in Offers : PlaceServerOrder(offer)
              \/ \E h \in hires : ServerOrdered(h) \/ ServerReported(h)
    <2>1. UNCHANGED <<shop, carts, billVars>>
      BY <1>10 DEF OpenOrderTab, LeaveOrderTab, Submit, Checkout, UpdateField, PlaceOrder,
                   OrderAnswered, OpenSearch, OffersLoaded, CloseSearch, PlaceServerOrder,
                   ServerOrdered, ServerReported
    <2> QED
      BY <1>2, <2>1
  <1>11. CASE UNCHANGED ordersVars
    BY <1>2, <1>11 DEF ordersVars
  <1> QED
    BY <1>3, <1>4, <1>5, <1>6, <1>7, <1>8, <1>9, <1>10, <1>11 DEF OrdersNext

(***************************************************************************)
(* Forms and devices.  The form on the page is the draft of the workspace  *)
(* that is open; a device reported to the page is in the inventory of the  *)
(* workspace it was ordered for, and no device leaves an inventory.        *)
(***************************************************************************)
FormInv ==
  /\ shop \in Shops /\ DOMAIN drafts = Shops /\ \A s \in Shops : drafts[s].typed \subseteq {s}
  /\ tab = [open |-> tab.open, step |-> tab.step, form |-> tab.form,
            submitting |-> tab.submitting, confirmed |-> tab.confirmed]
  /\ tab.open => tab.form.typed \subseteq {shop}
  /\ \A c \in checkouts :
       /\ c = [shop |-> c.shop, form |-> c.form, items |-> c.items, state |-> c.state, shown |-> c.shown]
       /\ c.shop \in Shops /\ c.form.typed \subseteq {c.shop}
  /\ \A o \in orders : o.form.typed \subseteq {o.shop}

HireInv ==
  /\ shop \in Shops /\ DOMAIN fleet = Shops /\ strayed \in BOOLEAN
  /\ \A h \in hires :
       /\ h = [shop |-> h.shop, state |-> h.state, shown |-> h.shown, alias |-> h.alias]
       /\ h.shop \in Shops
       /\ h.state = "ordered" => h.alias \in fleet[h.shop]
  /\ strayed = FALSE => servers \subseteq fleet[shop]

LEMMA FormStep ==
  ASSUME FormInv, [OrdersNext]_ordersVars
  PROVE  FormInv'
  <1> USE DEF billVars, hireVars, Buy, NotSearching
  <1>1. ASSUME UNCHANGED <<shop, formVars>> PROVE FormInv'
    BY <1>1 DEF FormInv, formVars
  <1>2. ASSUME NEW s \in Shops, SwitchShop(s) PROVE FormInv'
    <2>1. /\ shop' = s /\ UNCHANGED <<drafts, checkouts, orders>>
          /\ tab' = IF tab.open THEN [tab EXCEPT !.form = drafts[s], !.confirmed = NoShop] ELSE tab
      BY <1>2 DEF SwitchShop
    <2>2. CASE tab.open
      <3>1. tab' = [open |-> tab.open, step |-> tab.step, form |-> drafts[s],
                    submitting |-> tab.submitting, confirmed |-> NoShop]
        BY <2>1, <2>2 DEF FormInv
      <3> QED
        BY <2>1, <3>1 DEF FormInv
    <2>3. CASE ~tab.open
      BY <2>1, <2>3 DEF FormInv
    <2> QED
      BY <2>2, <2>3
  <1>3. CASE OpenOrderTab
    <2>1. tab' = [NoTab EXCEPT !.open = TRUE, !.form = drafts[shop]] /\ UNCHANGED <<shop, drafts, checkouts, orders>>
      BY <1>3 DEF OpenOrderTab
    <2>2. tab' = [open |-> TRUE, step |-> "overview", form |-> drafts[shop], submitting |-> FALSE,
                  confirmed |-> NoShop]
      BY <2>1 DEF NoTab
    <2> QED
      BY <2>1, <2>2 DEF FormInv
  <1>4. CASE LeaveOrderTab
    <2>1. /\ tab' = NoTab /\ checkouts' = {[c EXCEPT !.shown = FALSE] : c \in checkouts}
          /\ UNCHANGED <<shop, drafts, orders>>
      BY <1>4 DEF LeaveOrderTab
    <2>2. \A c \in checkouts : [c EXCEPT !.shown = FALSE]
            = [shop |-> c.shop, form |-> c.form, items |-> c.items, state |-> c.state, shown |-> FALSE]
      <3>1. \A c \in checkouts : \A v : [c EXCEPT !.shown = v]
              = [shop |-> c.shop, form |-> c.form, items |-> c.items, state |-> c.state, shown |-> v]
        BY DEF FormInv
      <3> QED
        BY <3>1
    <2>3. \A c \in checkouts' :
            /\ c = [shop |-> c.shop, form |-> c.form, items |-> c.items, state |-> c.state, shown |-> c.shown]
            /\ c.shop \in Shops /\ c.form.typed \subseteq {c.shop}
      BY <2>1, <2>2 DEF FormInv
    <2> QED
      BY <2>1, <2>3 DEF FormInv, NoTab
  <1>5. ASSUME NEW step \in {"overview", "form"}, Checkout(step) PROVE FormInv'
    <2>1. tab' = [tab EXCEPT !.step = step] /\ UNCHANGED <<shop, drafts, checkouts, orders>>
      BY <1>5 DEF Checkout
    <2>2. tab' = [open |-> tab.open, step |-> step, form |-> tab.form,
                  submitting |-> tab.submitting, confirmed |-> tab.confirmed]
      BY <2>1 DEF FormInv
    <2> QED
      BY <2>1, <2>2 DEF FormInv
  <1>6. ASSUME NEW complete \in BOOLEAN, UpdateField(complete) PROVE FormInv'
    <2> DEFINE draft == [typed |-> tab.form.typed \cup {shop}, complete |-> complete]
    <2>1. /\ tab.open /\ tab' = [tab EXCEPT !.form = draft, !.confirmed = NoShop]
          /\ drafts' = [drafts EXCEPT ![shop] = draft] /\ UNCHANGED <<shop, checkouts, orders>>
      BY <1>6 DEF UpdateField
    <2>2. draft.typed \subseteq {shop}
      BY <2>1 DEF FormInv
    <2> HIDE DEF draft
    <2>3. tab' = [open |-> tab.open, step |-> tab.step, form |-> draft,
                  submitting |-> tab.submitting, confirmed |-> NoShop]
      BY <2>1 DEF FormInv
    <2> QED
      BY <2>1, <2>2, <2>3 DEF FormInv
  <1>7. CASE Submit
    <2> DEFINE items == Items(cart)
               c == [shop |-> shop, form |-> tab.form, items |-> items, state |-> "sent", shown |-> TRUE]
    <2>1. /\ tab.open /\ tab' = [tab EXCEPT !.submitting = TRUE] /\ checkouts' = checkouts \cup {c}
          /\ UNCHANGED <<shop, drafts, orders>>
      BY <1>7 DEF Submit
    <2> HIDE DEF items
    <2>2. /\ c = [shop |-> c.shop, form |-> c.form, items |-> c.items, state |-> c.state, shown |-> c.shown]
          /\ c.shop = shop /\ c.form = tab.form
      OBVIOUS
    <2> HIDE DEF c
    <2>3. tab' = [open |-> tab.open, step |-> tab.step, form |-> tab.form,
                  submitting |-> TRUE, confirmed |-> tab.confirmed]
      BY <2>1 DEF FormInv
    <2> QED
      BY <2>1, <2>2, <2>3 DEF FormInv
  <1>8. ASSUME NEW c \in checkouts, PlaceOrder(c) PROVE FormInv'
    <2>1. PICK state \in {"placed", "refused"} :
            /\ checkouts' = (checkouts \ {c}) \cup {[c EXCEPT !.state = state]}
            /\ orders' = IF state = "refused" THEN orders
                         ELSE orders \cup {[shop |-> c.shop, form |-> c.form, items |-> c.items]}
      BY <1>8 DEF PlaceOrder
    <2>2. UNCHANGED <<shop, tab, drafts>>
      BY <1>8 DEF PlaceOrder
    <2>3. [c EXCEPT !.state = state]
            = [shop |-> c.shop, form |-> c.form, items |-> c.items, state |-> state, shown |-> c.shown]
      BY DEF FormInv
    <2>4. /\ \A o \in orders' : o.form.typed \subseteq {o.shop}
          /\ \A d \in checkouts' :
               /\ d = [shop |-> d.shop, form |-> d.form, items |-> d.items, state |-> d.state, shown |-> d.shown]
               /\ d.shop \in Shops /\ d.form.typed \subseteq {d.shop}
      BY <2>1, <2>3 DEF FormInv
    <2> QED
      BY <2>2, <2>4 DEF FormInv
  <1>9. ASSUME NEW c \in checkouts, OrderAnswered(c) PROVE FormInv'
    <2>1. PICK confirmed \in {c.state = "placed", FALSE} :
       /\ drafts' = IF confirmed THEN [drafts EXCEPT ![c.shop] = EmptyForm] ELSE drafts
       /\ tab' = IF c.shown
                 THEN [tab EXCEPT !.submitting = FALSE,
                                  !.confirmed = IF confirmed THEN c.shop ELSE @]
                 ELSE tab
      BY <1>9 DEF OrderAnswered
    <2>2. checkouts' \subseteq checkouts /\ UNCHANGED <<shop, orders>>
      BY <1>9 DEF OrderAnswered
    <2>3. DOMAIN drafts' = Shops /\ \A s \in Shops : drafts'[s].typed \subseteq {s}
      BY <2>1 DEF FormInv, EmptyForm
    <2>4. \E submitting, conf : tab' = [open |-> tab.open, step |-> tab.step, form |-> tab.form,
                                     submitting |-> submitting, confirmed |-> conf]
      BY <2>1 DEF FormInv
    <2> QED
      BY <2>2, <2>3, <2>4 DEF FormInv
  <1>10. CASE \/ \E p \in Machines \X Apps, choice \in Selection : ChangeCart(p, choice)
              \/ \E n \in Seats : CountUsers(n)
              \/ UsersUpdated \/ OpenBilling \/ LeaveBilling \/ FetchQuotes \/ \E q \in quotes : Quoted(q)
              \/ \E target \in servers \cup {NoAlias} : OpenSearch(target)
              \/ OffersLoaded \/ CloseSearch \/ \E offer \in Offers : PlaceServerOrder(offer)
              \/ \E h \in hires : ServerOrdered(h) \/ ServerReported(h)
              \/ UNCHANGED ordersVars
    <2>1. UNCHANGED <<shop, formVars>>
      BY <1>10 DEF ChangeCart, CountUsers, UsersUpdated, OpenBilling, LeaveBilling, FetchQuotes, Quoted,
                   OpenSearch, OffersLoaded, CloseSearch, PlaceServerOrder, ServerOrdered,
                   ServerReported, ordersVars
    <2> QED
      BY <1>1, <2>1
  <1> QED
    BY <1>2, <1>3, <1>4, <1>5, <1>6, <1>7, <1>8, <1>9, <1>10 DEF OrdersNext

LEMMA HireStep ==
  ASSUME HireInv, [OrdersNext]_ordersVars
  PROVE  HireInv'
  <1> USE DEF billVars, formVars, Buy, NotSearching
  <1>1. ASSUME UNCHANGED <<shop, servers, hires, fleet, strayed>> PROVE HireInv'
    BY <1>1 DEF HireInv
  <1>2. ASSUME NEW s \in Shops, SwitchShop(s) PROVE HireInv'
    BY <1>2 DEF HireInv, SwitchShop
  <1>3. CASE CloseSearch
    <2>1. hires' = {[h EXCEPT !.shown = FALSE] : h \in hires} /\ UNCHANGED <<shop, servers, fleet, strayed>>
      BY <1>3 DEF CloseSearch
    <2>2. \A h \in hires : [h EXCEPT !.shown = FALSE]
                           = [shop |-> h.shop, state |-> h.state, shown |-> FALSE, alias |-> h.alias]
      <3>1. \A h \in hires : \A v : [h EXCEPT !.shown = v]
                                   = [shop |-> h.shop, state |-> h.state, shown |-> v, alias |-> h.alias]
        BY DEF HireInv
      <3> QED
        BY <3>1
    <2>3. \A h \in hires' : /\ h = [shop |-> h.shop, state |-> h.state, shown |-> h.shown, alias |-> h.alias]
                            /\ h.shop \in Shops
       /\ h.state = "ordered" => h.alias \in fleet[h.shop]
      BY <2>1, <2>2 DEF HireInv
    <2> QED
      BY <2>1, <2>3 DEF HireInv
  <1>4. ASSUME NEW offer \in Offers, PlaceServerOrder(offer) PROVE HireInv'
    <2> DEFINE alias == IF search.target = NoAlias THEN <<shop, offer>> ELSE search.target
               h == [shop |-> shop, state |-> "sent", shown |-> TRUE, alias |-> alias]
    <2>1. hires' = hires \cup {h} /\ UNCHANGED <<shop, servers, fleet, strayed>>
      BY <1>4 DEF PlaceServerOrder
    <2> HIDE DEF alias
    <2>2. /\ h = [shop |-> h.shop, state |-> h.state, shown |-> h.shown, alias |-> h.alias]
          /\ h.shop = shop /\ h.state = "sent"
      OBVIOUS
    <2> HIDE DEF h
    <2> QED
      BY <2>1, <2>2 DEF HireInv
  <1>5. ASSUME NEW h \in hires, ServerOrdered(h) PROVE HireInv'
    <2>1. PICK state \in {"ordered", "refused"} :
            /\ hires' = (hires \ {h}) \cup {[h EXCEPT !.state = state]}
            /\ fleet' = IF state = "refused" THEN fleet
                        ELSE [fleet EXCEPT ![h.shop] = @ \cup {h.alias}]
      BY <1>5 DEF ServerOrdered
    <2>2. UNCHANGED <<shop, servers, strayed>>
      BY <1>5 DEF ServerOrdered
    <2>3. [h EXCEPT !.state = state]
            = [shop |-> h.shop, state |-> state, shown |-> h.shown, alias |-> h.alias]
      BY DEF HireInv
    <2>4. /\ DOMAIN fleet' = Shops /\ \A s \in Shops : fleet[s] \subseteq fleet'[s]
          /\ state = "ordered" => h.alias \in fleet'[h.shop]
      <3>1. h.shop \in Shops /\ DOMAIN fleet = Shops
        BY DEF HireInv
      <3>2. CASE state = "refused"
        BY <2>1, <3>1, <3>2
      <3>3. CASE state # "refused"
        <4>1. fleet' = [fleet EXCEPT ![h.shop] = fleet[h.shop] \cup {h.alias}]
          BY <2>1, <3>3
        <4> QED
          BY <3>1, <4>1
      <3> QED
        BY <3>2, <3>3
    <2>5. \A g \in hires' : /\ g = [shop |-> g.shop, state |-> g.state, shown |-> g.shown, alias |-> g.alias]
                            /\ g.shop \in Shops
                            /\ g.state = "ordered" => g.alias \in fleet'[g.shop]
      BY <2>1, <2>3, <2>4 DEF HireInv
    <2> QED
      BY <2>2, <2>4, <2>5 DEF HireInv
  <1>6. ASSUME NEW h \in hires, ServerReported(h) PROVE HireInv'
    <2>1. PICK reported \in {h.state = "ordered", FALSE} :
            /\ servers' = IF reported THEN servers \cup {h.alias} ELSE servers
            /\ strayed' = (strayed \/ (reported /\ h.shop # shop))
      BY <1>6 DEF ServerReported
    <2>2. hires' \subseteq hires /\ UNCHANGED <<shop, fleet>>
      BY <1>6 DEF ServerReported
    <2>3. strayed' \in BOOLEAN /\ (strayed' = FALSE => strayed = FALSE /\ (reported => h.shop = shop))
      BY <2>1 DEF HireInv
    <2>4. ASSUME reported PROVE h.alias \in fleet[h.shop]
      <3>1. h.state = "ordered"
        BY <2>1, <2>4
      <3> QED
        BY <3>1 DEF HireInv
    <2>5. strayed' = FALSE => servers' \subseteq fleet[shop]
      BY <2>1, <2>3, <2>4 DEF HireInv
    <2> QED
      BY <2>2, <2>3, <2>5 DEF HireInv
  <1>7. CASE \/ \E p \in Machines \X Apps, choice \in Selection : ChangeCart(p, choice)
             \/ \E n \in Seats : CountUsers(n)
             \/ UsersUpdated \/ OpenBilling \/ LeaveBilling \/ FetchQuotes \/ \E q \in quotes : Quoted(q)
             \/ OpenOrderTab \/ LeaveOrderTab \/ Submit
             \/ \E step \in {"overview", "form"} : Checkout(step)
             \/ \E complete \in BOOLEAN : UpdateField(complete)
             \/ \E c \in checkouts : PlaceOrder(c) \/ OrderAnswered(c)
             \/ \E target \in servers \cup {NoAlias} : OpenSearch(target)
             \/ OffersLoaded \/ UNCHANGED ordersVars
    <2>1. UNCHANGED <<shop, servers, hires, fleet, strayed>>
      BY <1>7 DEF ChangeCart, CountUsers, UsersUpdated, OpenBilling, LeaveBilling, FetchQuotes, Quoted,
                  OpenOrderTab, LeaveOrderTab, Submit, Checkout, UpdateField, PlaceOrder,
                  OrderAnswered, OpenSearch, OffersLoaded, ordersVars, hireVars
    <2> QED
      BY <1>1, <2>1
  <1> QED
    BY <1>2, <1>3, <1>4, <1>5, <1>6, <1>7 DEF OrdersNext

\* The bill is that of the cart and the users there are, what is typed for one workspace
\* is in no order of another one, and a device of the page is in its inventory
\* (BillingPanel.tsx, OrderTabPanel.tsx).  A page has a workspace to begin with.
THEOREM OrdersStayAgreed == Shops # {} => (OrdersSpec => []OrdersAgree)
  <1> SUFFICES ASSUME Shops # {} PROVE OrdersSpec => []OrdersAgree
    OBVIOUS
  <1>1. OrdersInit => BillInv /\ FormInv /\ HireInv
    <2> SUFFICES ASSUME OrdersInit PROVE BillInv /\ FormInv /\ HireInv
      OBVIOUS
    <2>1. shop \in Shops
      BY DEF OrdersInit
    <2>2. BillInv
      BY DEF OrdersInit, BillInv, IsBill, NoBill
    <2>3. FormInv
      BY <2>1 DEF OrdersInit, FormInv, NoTab, EmptyForm
    <2>4. HireInv
      BY <2>1 DEF OrdersInit, HireInv
    <2> QED
      BY <2>2, <2>3, <2>4
  <1>2. BillInv /\ FormInv /\ HireInv /\ [OrdersNext]_ordersVars => (BillInv /\ FormInv /\ HireInv)'
    BY BillStep, FormStep, HireStep
  <1>3. BillInv => BillOfCart
    BY DEF BillInv, BillOfCart, AsBilled, IsBill
  <1>4. FormInv /\ HireInv => OrdersStayHome
    BY DEF FormInv, HireInv, OrdersStayHome
  <1> QED
    BY <1>1, <1>2, <1>3, <1>4, PTL DEF OrdersSpec, OrdersAgree


-----------------------------------------------------------------------------
(***************************************************************************)
(* The audit log: the types of what is kept.                               *)
(***************************************************************************)
Config == AuditSettings \cup {NoAudit}
Loads == {l \in [space : AuditSpaces, filters : FilterValues, page : 1 .. MaxPage, got : Config,
                  at : {"sent", "read", "answered"}, live : BOOLEAN] :
            l.at = "sent" \/ l.got \in AuditSettings}
Updates == [space : AuditSpaces, config : AuditSettings, by : {"panel", "other"},
            at : {"sent", "committed", "stored"}]
Lookups == [event : Nat, space : AuditSpaces, request : RequestKinds, got : AuditSettings]
Form == [of : AuditSpaces \cup {NoAudit}, config : AuditSettings, draft : AuditSettings]

SettingsTypes ==
  /\ rows \in [AuditSpaces -> Config] /\ known \in [AuditSpaces -> Config]
  /\ updates \subseteq Updates /\ readers \subseteq Lookups /\ audits \in Nat
PanelTypes ==
  /\ resolved \in AuditSpaces \cup {NoAudit} /\ filters \in FilterValues /\ page \in 1 .. MaxPage
  /\ loads \subseteq Loads /\ form \in Form /\ loading \in BOOLEAN /\ failed \in BOOLEAN
LogTypes == SettingsTypes /\ PanelTypes

LEMMA RowsAreSettings ==
  ASSUME AuditAssumption, SettingsTypes, NEW w \in AuditSpaces
  PROVE  RowOf(w) \in AuditSettings
  BY DEF AuditAssumption, SettingsTypes, Config, RowOf

LEMMA Retiring ==
  ASSUME PanelTypes
  PROVE  /\ Retired \subseteq Loads /\ \A r \in Retired : r.live = FALSE
         /\ \A r \in Retired : \E l \in loads : r.space = l.space /\ r.at = l.at /\ r.got = l.got
  <1>1. \A l \in Loads : /\ [l EXCEPT !.live = FALSE] \in Loads /\ [l EXCEPT !.live = FALSE].live = FALSE
                         /\ [l EXCEPT !.live = FALSE].space = l.space /\ [l EXCEPT !.live = FALSE].at = l.at
                         /\ [l EXCEPT !.live = FALSE].got = l.got
    BY DEF Loads
  <1>2. SUFFICES ASSUME NEW r \in Retired
                 PROVE  /\ r \in Loads /\ r.live = FALSE
                        /\ \E l \in loads : r.space = l.space /\ r.at = l.at /\ r.got = l.got
    OBVIOUS
  <1>3. PICK l \in loads : r = [l EXCEPT !.live = FALSE]
    BY DEF Retired
  <1>4. l \in Loads
    BY DEF PanelTypes
  <1> HIDE DEF Loads
  <1> QED
    BY <1>1, <1>3, <1>4

LEMMA Asking ==
  ASSUME NEW w \in AuditSpaces, NEW s \in FilterValues, NEW p \in 1 .. MaxPage
  PROVE  /\ Query(w, s, p) \in Loads /\ Query(w, s, p).live = TRUE /\ Query(w, s, p).at = "sent"
         /\ Query(w, s, p).space = w /\ Query(w, s, p).filters = s /\ Query(w, s, p).page = p
         /\ [Query(w, s, p) EXCEPT !.live = FALSE] \in Loads
         /\ [Query(w, s, p) EXCEPT !.live = FALSE].live = FALSE
         /\ [Query(w, s, p) EXCEPT !.live = FALSE].at = "sent"
  BY DEF Query, Loads, Config

\* What a load is after a step of the API, and what an update is.
LEMMA LoadServed ==
  ASSUME NEW l \in Loads, NEW c \in AuditSettings
  PROVE  /\ LET r == [l EXCEPT !.at = "read", !.got = c]
            IN  r \in Loads /\ r.live = l.live /\ r.space = l.space /\ r.filters = l.filters
                /\ r.page = l.page /\ r.at = "read" /\ r.got = c
         /\ LET r == [l EXCEPT !.at = "answered", !.got = c]
            IN  r \in Loads /\ r.live = l.live /\ r.space = l.space /\ r.filters = l.filters
                /\ r.page = l.page /\ r.at = "answered"
         /\ l.at # "sent" =>
            LET r == [l EXCEPT !.at = "answered"]
            IN  r \in Loads /\ r.live = l.live /\ r.space = l.space /\ r.filters = l.filters
                /\ r.page = l.page /\ r.at = "answered"
  BY DEF Loads, Config

LEMMA Updating ==
  ASSUME NEW u \in Updates
  PROVE  /\ \A at \in {"sent", "committed", "stored"} :
              LET v == [u EXCEPT !.at = at]
              IN  v \in Updates /\ v.space = u.space /\ v.config = u.config /\ v.at = at
         /\ LET v == [u EXCEPT !.by = "other"]
            IN  v \in Updates /\ v.space = u.space /\ v.config = u.config /\ v.at = u.at
  BY DEF Updates

-----------------------------------------------------------------------------
(* What a step does to the settings: everything else is told by the lemmas.  *)
LEMMA SettingsTypesStep ==
  ASSUME AuditAssumption, LogTypes, [AuditNext]_auditVars
  PROVE  SettingsTypes'
  <1> USE DEF LogTypes, settingsVars, panelVars, eventVars, tableVars, Once
  <1>1. ASSUME NEW u \in updates, CommitUpdate(u) PROVE SettingsTypes'
    <2>1. /\ rows' = [rows EXCEPT ![u.space] = u.config] /\ UNCHANGED <<known, readers, audits>>
          /\ updates' = (updates \ {u}) \cup {[u EXCEPT !.at = "committed"]}
      BY <1>1 DEF CommitUpdate
    <2>2. u \in Updates
      BY DEF SettingsTypes
    <2>3. [u EXCEPT !.at = "committed"] \in Updates
      BY <2>2, Updating
    <2>4. u.config \in Config /\ u.space \in AuditSpaces
      BY <2>2 DEF Updates, Config
    <2> QED
      BY <2>1, <2>3, <2>4 DEF SettingsTypes
  <1>2. ASSUME NEW u \in updates, StoreUpdate(u) PROVE SettingsTypes'
    <2>1. /\ known' = [known EXCEPT ![u.space] = u.config] /\ UNCHANGED <<rows, readers, audits>>
          /\ updates' \subseteq updates \cup {[u EXCEPT !.at = "stored"]}
      BY <1>2 DEF StoreUpdate
    <2>2. u \in Updates
      BY DEF SettingsTypes
    <2>3. [u EXCEPT !.at = "stored"] \in Updates
      BY <2>2, Updating
    <2>4. u.config \in Config /\ u.space \in AuditSpaces
      BY <2>2 DEF Updates, Config
    <2> QED
      BY <2>1, <2>3, <2>4 DEF SettingsTypes
  <1>3. ASSUME NEW l \in loads, StoreRead(l) PROVE SettingsTypes'
    <2>1. known' = [known EXCEPT ![l.space] = l.got] /\ UNCHANGED <<rows, updates, readers, audits>>
      BY <1>3 DEF StoreRead
    <2>2. l.space \in AuditSpaces /\ l.got \in Config
      BY DEF PanelTypes, Loads
    <2> QED
      BY <2>1, <2>2 DEF SettingsTypes
  <1>4. ASSUME NEW r \in readers, EventRead(r) PROVE SettingsTypes'
    <2>1. known' = [known EXCEPT ![r.space] = r.got] /\ UNCHANGED <<rows, updates, audits>>
          /\ readers' = readers \ {r}
      BY <1>4 DEF EventRead
    <2>2. r.space \in AuditSpaces /\ r.got \in Config
      BY DEF SettingsTypes, Lookups, Config
    <2> QED
      BY <2>1, <2>2 DEF SettingsTypes
  <1>5. ASSUME NEW w \in AuditSpaces, NEW request \in RequestKinds, AuditRequest(w, request)
        PROVE  SettingsTypes'
    <2>1. /\ readers' \subseteq readers \cup
                {[event |-> audits, space |-> w, request |-> request, got |-> RowOf(w)]}
          /\ audits' = audits + 1 /\ UNCHANGED <<rows, known, updates>>
      BY <1>5 DEF AuditRequest
    <2>2. [event |-> audits, space |-> w, request |-> request, got |-> RowOf(w)] \in Lookups
      BY RowsAreSettings DEF SettingsTypes, Lookups
    <2> QED
      BY <2>1, <2>2 DEF SettingsTypes
  <1>6. CASE RestartApi
    BY <1>6 DEF RestartApi, SettingsTypes, Config
  <1>7. CASE Remount
    <2>1. /\ updates' = {[u EXCEPT !.by = "other"] : u \in {v \in updates : v.at # "stored"}}
          /\ audits' = audits + 1 /\ UNCHANGED <<rows, known, readers>>
      BY <1>7 DEF Remount
    <2>2. \A u \in updates : [u EXCEPT !.by = "other"] \in Updates
      BY Updating DEF SettingsTypes
    <2> QED
      BY <2>1, <2>2 DEF SettingsTypes
  <1>8. CASE SaveSettings \/ \E w \in AuditSpaces, c \in AuditSettings : OtherUpdate(w, c)
    <2>1. PICK w \in AuditSpaces, c \in AuditSettings, by \in {"panel", "other"} :
            /\ updates' = updates \cup {[space |-> w, config |-> c, by |-> by, at |-> "sent"]}
            /\ audits' = audits + 1 /\ UNCHANGED <<rows, known, readers>>
      BY <1>8 DEF SaveSettings, OtherUpdate, PanelTypes, Form
    <2>2. [space |-> w, config |-> c, by |-> by, at |-> "sent"] \in Updates
      BY DEF Updates
    <2> QED
      BY <2>1, <2>2 DEF SettingsTypes
  <1>9. ASSUME NEW u \in updates, SaveAnswered(u) \/ SaveFailed(u) PROVE SettingsTypes'
    BY <1>9 DEF SaveAnswered, SaveFailed, SettingsTypes
  <1>10. CASE \/ \E l \in loads : ServeConfig(l) \/ LogAnswered(l) \/ LogFailed(l)
              \/ \E works \in BOOLEAN : InsertBatch(works) \/ \E e \in spilled : InsertSpilled(e, works)
              \/ TakeBatch \/ ResetFilters \/ CancelSettings
              \/ \E s \in FilterValues : SetFilter(s)
              \/ \E p \in 1..MaxPage : GoToPage(p)
              \/ \E c \in AuditSettings : TypeSettings(c)
              \/ \E w \in AuditSpaces \cup {NoAudit} : SwitchAudit(w)
              \/ UNCHANGED auditVars
    <2>1. UNCHANGED <<rows, known, updates, readers>> /\ audits' \in {audits, audits + 1}
      BY <1>10 DEF ServeConfig, LogAnswered, ShowLog, LogFailed, InsertBatch, InsertSpilled, TakeBatch,
                   ResetFilters, CancelSettings, SetFilter, GoToPage, TypeSettings, SwitchAudit, auditVars
    <2> QED
      BY <2>1 DEF SettingsTypes
  <1> QED
    BY <1>1, <1>2, <1>3, <1>4, <1>5, <1>6, <1>7, <1>8, <1>9, <1>10 DEF AuditNext

LEMMA PanelTypesStep ==
  ASSUME AuditAssumption, LogTypes, [AuditNext]_auditVars
  PROVE  PanelTypes'
  <1> USE DEF LogTypes
  <1>r. Retired \subseteq Loads
    BY Retiring
  <1>n. NoFilter \in FilterValues /\ 1 \in 1 .. MaxPage /\ Defaults \in AuditSettings
    BY DEF AuditAssumption
  <1>L. ASSUME NEW w \in AuditSpaces \cup {NoAudit}, NEW s \in FilterValues, NEW p \in 1 .. MaxPage,
               LoadLog(w, s, p)
        PROVE  loads' \subseteq Loads /\ loading' \in BOOLEAN /\ failed' \in BOOLEAN
    <2>1. CASE w = NoAudit
      BY <1>L, <1>r, <2>1 DEF LoadLog, PanelTypes
    <2>2. CASE w # NoAudit
      <3>1. Query(w, s, p) \in Loads
        BY <2>2, Asking
      <3> QED
        BY <1>L, <1>r, <2>2, <3>1 DEF LoadLog
    <2> QED
      BY <2>1, <2>2
  <1>1. ASSUME NEW l \in loads, ServeConfig(l) \/ StoreRead(l) PROVE PanelTypes'
    <2>1. l \in Loads /\ l.space \in AuditSpaces
      BY DEF PanelTypes, Loads
    <2>2. RowOf(l.space) \in AuditSettings /\ (known[l.space] # NoAudit => known[l.space] \in AuditSettings)
      BY <2>1, RowsAreSettings DEF SettingsTypes, Config
    <2>3. loads' \subseteq Loads
      <3>0. /\ \A c \in AuditSettings : /\ [l EXCEPT !.at = "read", !.got = c] \in Loads
                                       /\ [l EXCEPT !.at = "answered", !.got = c] \in Loads
            /\ l.at # "sent" => [l EXCEPT !.at = "answered"] \in Loads
        BY <2>1, LoadServed, RowsAreSettings
      <3>s. loads \subseteq Loads
        BY DEF PanelTypes
      <3> HIDE DEF Loads, LogTypes
      <3>1. CASE ServeConfig(l)
        BY <3>1, <3>0, <3>s, <2>2 DEF ServeConfig
      <3>2. CASE StoreRead(l)
        BY <3>2, <3>0, <3>s DEF StoreRead
      <3> QED
        BY <1>1, <3>1, <3>2
    <2> QED
      BY <1>1, <2>3 DEF ServeConfig, StoreRead, PanelTypes, tableVars
  <1>2. ASSUME NEW l \in loads, LogAnswered(l) \/ LogFailed(l) PROVE PanelTypes'
    <2>1. l \in Loads /\ l.space \in AuditSpaces /\ (l.at = "answered" => l.got \in AuditSettings)
      BY DEF PanelTypes, Loads
    <2>2. l.at = "answered" => [of |-> l.space, config |-> l.got, draft |-> l.got] \in Form
      BY <2>1 DEF Form
    <2>3. loads' \subseteq loads /\ UNCHANGED <<resolved, filters, page>>
          /\ (form' = form \/ (l.at = "answered" /\ form' = [of |-> l.space, config |-> l.got, draft |-> l.got]))
          /\ (loading' = loading \/ loading' = FALSE) /\ (failed' = failed \/ failed' = TRUE)
      BY <1>2 DEF LogAnswered, LogFailed, ShowLog, tableVars
    <2> QED
      BY <2>2, <2>3 DEF PanelTypes
  <1>3. ASSUME NEW u \in updates, SaveAnswered(u) PROVE PanelTypes'
    <2>1. u.space \in AuditSpaces /\ u.config \in AuditSettings
      BY DEF SettingsTypes, Updates
    <2>2. form' \in Form
      BY <1>3, <2>1 DEF SaveAnswered, Form
    <2>3. LoadLog(resolved, filters, page) /\ UNCHANGED <<resolved, filters, page>>
      BY <1>3 DEF SaveAnswered
    <2> QED
      BY <1>L, <2>2, <2>3 DEF PanelTypes
  <1>4. ASSUME NEW s \in FilterValues, SetFilter(s) PROVE PanelTypes'
    <2>1. CASE resolved = NoAudit
      BY <1>4, <2>1, <1>r, <1>n DEF SetFilter, PanelTypes
    <2>2. CASE resolved # NoAudit
      <3>1. resolved \in AuditSpaces /\ page \in 1 .. MaxPage
        BY <2>2 DEF PanelTypes
      <3>2. Query(resolved, s, 1) \in Loads /\ [Query(resolved, s, page) EXCEPT !.live = FALSE] \in Loads
        BY <3>1, <1>n, Asking
      <3> QED
        BY <1>4, <2>2, <3>2, <1>r, <1>n DEF SetFilter, PanelTypes
    <2> QED
      BY <2>1, <2>2
  <1>5. CASE ResetFilters
    <2>1. LoadLog(resolved, NoFilter, 1) /\ filters' = NoFilter /\ page' = 1 /\ UNCHANGED <<resolved, form>>
      BY <1>5 DEF ResetFilters
    <2> QED
      BY <1>L, <1>n, <2>1 DEF PanelTypes
  <1>6. ASSUME NEW p \in 1 .. MaxPage, GoToPage(p) PROVE PanelTypes'
    <2>1. LoadLog(resolved, filters, p) /\ page' = p /\ UNCHANGED <<resolved, filters, form>>
      BY <1>6 DEF GoToPage
    <2> QED
      BY <1>L, <2>1 DEF PanelTypes
  <1>7. ASSUME NEW w \in AuditSpaces \cup {NoAudit}, SwitchAudit(w) PROVE PanelTypes'
    <2>1. LoadLog(w, filters, page) /\ resolved' = w /\ UNCHANGED <<filters, page, form>>
      BY <1>7 DEF SwitchAudit
    <2> QED
      BY <1>L, <2>1 DEF PanelTypes
  <1>8. CASE Remount
    <2>1. loads' \subseteq Loads
      <3>1. CASE resolved = NoAudit
        BY <1>8, <3>1, <1>r DEF Remount
      <3>2. CASE resolved # NoAudit
        <4>1. Query(resolved, NoFilter, 1) \in Loads
          BY <3>2, <1>n, Asking DEF PanelTypes
        <4> QED
          BY <1>8, <3>2, <4>1, <1>r DEF Remount
      <3> QED
        BY <3>1, <3>2
    <2>2. form' \in Form
      BY <1>8, <1>n DEF Remount, Form
    <2> QED
      BY <1>8, <1>n, <2>1, <2>2 DEF Remount, PanelTypes
  <1>9. CASE \/ RestartApi \/ CancelSettings \/ SaveSettings
             \/ \E c \in AuditSettings : TypeSettings(c)
    <2>1. \A c \in AuditSettings : [form EXCEPT !.draft = c] \in Form
      BY DEF PanelTypes, Form
    <2>2. form.config \in AuditSettings
      BY DEF PanelTypes, Form
    <2>3. form' \in Form /\ UNCHANGED <<resolved, filters, page>>
      BY <1>9, <2>1, <2>2 DEF RestartApi, CancelSettings, SaveSettings, TypeSettings, PanelTypes, tableVars
    <2>4. loads' \in {loads, {}} /\ loading' \in BOOLEAN /\ failed' \in BOOLEAN
      BY <1>9 DEF RestartApi, CancelSettings, SaveSettings, TypeSettings, PanelTypes, tableVars
    <2> QED
      BY <2>3, <2>4 DEF PanelTypes
  <1>10. CASE \/ \E u \in updates : CommitUpdate(u) \/ StoreUpdate(u) \/ SaveFailed(u)
              \/ \E w \in AuditSpaces, c \in AuditSettings : OtherUpdate(w, c)
              \/ \E w \in AuditSpaces, request \in RequestKinds : AuditRequest(w, request)
              \/ \E r \in readers : EventRead(r)
              \/ \E works \in BOOLEAN : InsertBatch(works) \/ \E e \in spilled : InsertSpilled(e, works)
              \/ TakeBatch \/ UNCHANGED auditVars
    <2>1. UNCHANGED <<resolved, filters, page, loads, form, loading, failed>>
      BY <1>10 DEF CommitUpdate, StoreUpdate, SaveFailed, OtherUpdate, AuditRequest, EventRead, InsertBatch,
                   InsertSpilled, TakeBatch, panelVars, tableVars, auditVars
    <2> QED
      BY <2>1 DEF PanelTypes
  <1> QED
    BY <1>1, <1>2, <1>3, <1>4, <1>5, <1>6, <1>7, <1>8, <1>9, <1>10 DEF AuditNext

-----------------------------------------------------------------------------
(***************************************************************************)
(* The panel.  A load that is still wanted is the only one, and asks for    *)
(* what the fields say.                                                     *)
(***************************************************************************)
PanelInv ==
  /\ \A l \in loads : l.live =>
       /\ resolved # NoAudit /\ l.space = resolved /\ l.filters = filters /\ l.page = page
       /\ loading = TRUE
       /\ \A m \in loads : m.live => m = l
  /\ PanelShowsItsQuery

LEMMA PanelStep ==
  ASSUME AuditAssumption, LogTypes, PanelInv, [AuditNext]_auditVars
  PROVE  PanelInv'
  <1> USE DEF LogTypes
  <1>r. \A m \in Retired : m.live = FALSE
    BY Retiring
  <1>n. NoFilter \in FilterValues /\ 1 \in 1 .. MaxPage
    BY DEF AuditAssumption
  <1>q. ASSUME NEW w \in AuditSpaces, NEW s \in FilterValues, NEW p \in 1 .. MaxPage,
               resolved' = w, filters' = s, page' = p, loading' = TRUE,
               \A m \in loads' : m.live => m = Query(w, s, p)
        PROVE  PanelInv'
    <2>1. /\ Query(w, s, p).space = w /\ Query(w, s, p).filters = s /\ Query(w, s, p).page = p
      BY DEF Query
    <2>2. w # NoAudit
      BY DEF AuditAssumption
    <2> QED
      BY <1>q, <2>1, <2>2 DEF PanelInv, PanelShowsItsQuery
  <1>L. ASSUME NEW w \in AuditSpaces \cup {NoAudit}, NEW s \in FilterValues, NEW p \in 1 .. MaxPage,
               LoadLog(w, s, p), resolved' = w, filters' = s, page' = p
        PROVE  PanelInv'
    <2>1. CASE w = NoAudit
      BY <1>L, <1>r, <2>1 DEF LoadLog, PanelInv, PanelShowsItsQuery
    <2>2. CASE w # NoAudit
      <3>1. loading' = TRUE /\ \A m \in loads' : m.live => m = Query(w, s, p)
        BY <1>L, <1>r, <2>2 DEF LoadLog
      <3> QED
        BY <1>L, <1>q, <2>2, <3>1
    <2> QED
      BY <2>1, <2>2
  <1>1. ASSUME NEW l \in loads, ServeConfig(l) \/ StoreRead(l) PROVE PanelInv'
    <2>1. l \in Loads /\ l.space \in AuditSpaces
      BY DEF PanelTypes, Loads
    <2>2. PICK m : /\ loads' = (loads \ {l}) \cup {m}
                   /\ m.live = l.live /\ m.space = l.space /\ m.filters = l.filters /\ m.page = l.page
      <3>1. RowOf(l.space) \in AuditSettings /\ (known[l.space] # NoAudit => known[l.space] \in AuditSettings)
        BY <2>1, RowsAreSettings DEF SettingsTypes, Config
      <3>2. CASE ServeConfig(l)
        <4>1. CASE known[l.space] = NoAudit
          <5> DEFINE m == [l EXCEPT !.at = "read", !.got = RowOf(l.space)]
          <5>1. m.live = l.live /\ m.space = l.space /\ m.filters = l.filters /\ m.page = l.page
            BY <2>1 DEF Loads
          <5>2. loads' = (loads \ {l}) \cup {m}
            BY <3>2, <4>1 DEF ServeConfig
          <5> QED
            BY <5>1, <5>2
        <4>2. CASE known[l.space] # NoAudit
          <5> DEFINE m == [l EXCEPT !.at = "answered", !.got = known[l.space]]
          <5>1. m.live = l.live /\ m.space = l.space /\ m.filters = l.filters /\ m.page = l.page
            BY <2>1 DEF Loads
          <5>2. loads' = (loads \ {l}) \cup {m}
            BY <3>2, <4>2 DEF ServeConfig
          <5> QED
            BY <5>1, <5>2
        <4> QED
          BY <4>1, <4>2
      <3>3. CASE StoreRead(l)
        <4> DEFINE m == [l EXCEPT !.at = "answered"]
        <4>1. m.live = l.live /\ m.space = l.space /\ m.filters = l.filters /\ m.page = l.page
          BY <2>1, <3>3, LoadServed DEF StoreRead
        <4>2. loads' = (loads \ {l}) \cup {m}
          BY <3>3 DEF StoreRead
        <4> QED
          BY <4>1, <4>2
      <3> QED
        BY <1>1, <3>2, <3>3
    <2>3. UNCHANGED <<resolved, filters, page, shown, form, loading, failed>>
      BY <1>1 DEF ServeConfig, StoreRead, tableVars
    <2> QED
      BY <2>2, <2>3 DEF PanelInv, PanelShowsItsQuery
  <1>2. ASSUME NEW l \in loads, LogAnswered(l) PROVE PanelInv'
    <2>1. CASE l.live
      <3>1. resolved # NoAudit /\ l.space = resolved /\ l.filters = filters /\ l.page = page
            /\ \A m \in loads : m.live => m = l
        BY <2>1 DEF PanelInv
      <3>2. /\ shown' = [space |-> l.space, filters |-> l.filters, page |-> l.page]
            /\ form' = [of |-> l.space, config |-> l.got, draft |-> l.got]
            /\ loads' = loads \ {l} /\ UNCHANGED <<resolved, filters, page>>
        BY <1>2, <2>1 DEF LogAnswered, ShowLog
      <3> QED
        BY <3>1, <3>2 DEF PanelInv, PanelShowsItsQuery
    <2>2. CASE ~l.live
      <3>1. loads' = loads \ {l} /\ UNCHANGED <<resolved, filters, page, shown, form, loading, failed>>
        BY <1>2, <2>2 DEF LogAnswered, tableVars
      <3> QED
        BY <3>1 DEF PanelInv, PanelShowsItsQuery
    <2> QED
      BY <2>1, <2>2
  <1>3. ASSUME NEW l \in loads, LogFailed(l) PROVE PanelInv'
    <2>1. /\ loads' = loads \ {l} /\ failed' = TRUE /\ \A m \in loads : m.live => m = l
      BY <1>3 DEF LogFailed, PanelInv
    <2> QED
      BY <2>1 DEF PanelInv, PanelShowsItsQuery
  <1>4. ASSUME NEW u \in updates, SaveAnswered(u) PROVE PanelInv'
    <2>1. LoadLog(resolved, filters, page) /\ UNCHANGED <<resolved, filters, page>>
      BY <1>4 DEF SaveAnswered
    <2> QED
      BY <1>L, <2>1 DEF PanelTypes
  <1>5. ASSUME NEW s \in FilterValues, SetFilter(s) PROVE PanelInv'
    <2>1. CASE resolved = NoAudit
      BY <1>5, <2>1, <1>r DEF SetFilter, PanelInv, PanelShowsItsQuery
    <2>2. CASE resolved # NoAudit
      <3>1. resolved \in AuditSpaces /\ page \in 1 .. MaxPage
        BY <2>2 DEF PanelTypes
      <3>2. [Query(resolved, s, page) EXCEPT !.live = FALSE].live = FALSE
        BY <3>1, Asking
      <3>3. /\ resolved' = resolved /\ filters' = s /\ page' = 1 /\ loading' = TRUE
            /\ \A m \in loads' : m.live => m = Query(resolved, s, 1)
        BY <1>5, <2>2, <3>2, <1>r DEF SetFilter
      <3> QED
        BY <3>1, <3>3, <1>n, <1>q
    <2> QED
      BY <2>1, <2>2
  <1>6. CASE ResetFilters
    <2>1. LoadLog(resolved, NoFilter, 1) /\ filters' = NoFilter /\ page' = 1 /\ resolved' = resolved
      BY <1>6 DEF ResetFilters
    <2> QED
      BY <1>L, <1>n, <2>1 DEF PanelTypes
  <1>7. ASSUME NEW p \in 1 .. MaxPage, GoToPage(p) PROVE PanelInv'
    <2>1. LoadLog(resolved, filters, p) /\ page' = p /\ UNCHANGED <<resolved, filters>>
      BY <1>7 DEF GoToPage
    <2> QED
      BY <1>L, <2>1 DEF PanelTypes
  <1>8. ASSUME NEW w \in AuditSpaces \cup {NoAudit}, SwitchAudit(w) PROVE PanelInv'
    <2>1. LoadLog(w, filters, page) /\ resolved' = w /\ UNCHANGED <<filters, page>>
      BY <1>8 DEF SwitchAudit
    <2> QED
      BY <1>L, <2>1 DEF PanelTypes
  <1>9. CASE Remount
    <2>1. CASE resolved = NoAudit
      BY <1>9, <2>1, <1>r DEF Remount, PanelInv, PanelShowsItsQuery
    <2>2. CASE resolved # NoAudit
      <3>1. /\ resolved' = resolved /\ filters' = NoFilter /\ page' = 1 /\ loading' = TRUE
            /\ \A m \in loads' : m.live => m = Query(resolved, NoFilter, 1)
        BY <1>9, <2>2, <1>r DEF Remount
      <3> QED
        BY <2>2, <3>1, <1>n, <1>q DEF PanelTypes
    <2> QED
      BY <2>1, <2>2
  <1>10. CASE RestartApi
    <2>1. CASE \E l \in loads : l.live
      BY <1>10, <2>1 DEF RestartApi, PanelInv, PanelShowsItsQuery
    <2>2. CASE ~\E l \in loads : l.live
      <3>1. /\ loads' = {} /\ loading' = (loading /\ TRUE) /\ failed' = (failed \/ FALSE)
            /\ UNCHANGED <<resolved, filters, page, shown, form>>
        BY <1>10, <2>2 DEF RestartApi
      <3> QED
        BY <3>1 DEF PanelInv, PanelShowsItsQuery
    <2> QED
      BY <2>1, <2>2
  <1>11. CASE \/ CancelSettings \/ SaveSettings
              \/ \E c \in AuditSettings : TypeSettings(c)
    <2>1. form \in Form /\ \A c : [form EXCEPT !.draft = c].of = form.of
      BY DEF PanelTypes, Form
    <2>2. form'.of = form.of
      BY <1>11, <2>1 DEF CancelSettings, SaveSettings, TypeSettings
    <2>3. UNCHANGED <<resolved, filters, page, loads, shown, loading, failed>>
      BY <1>11 DEF CancelSettings, SaveSettings, TypeSettings, tableVars
    <2> QED
      BY <2>2, <2>3 DEF PanelInv, PanelShowsItsQuery
  <1>12. CASE \/ \E u \in updates : CommitUpdate(u) \/ StoreUpdate(u) \/ SaveFailed(u)
              \/ \E w \in AuditSpaces, c \in AuditSettings : OtherUpdate(w, c)
              \/ \E w \in AuditSpaces, request \in RequestKinds : AuditRequest(w, request)
              \/ \E r \in readers : EventRead(r)
              \/ \E works \in BOOLEAN : InsertBatch(works) \/ \E e \in spilled : InsertSpilled(e, works)
              \/ TakeBatch \/ UNCHANGED auditVars
    <2>1. UNCHANGED <<resolved, filters, page, shown, loads, form, loading, failed>>
      BY <1>12 DEF CommitUpdate, StoreUpdate, SaveFailed, OtherUpdate, AuditRequest, EventRead, InsertBatch,
                   InsertSpilled, TakeBatch, panelVars, tableVars, auditVars
    <2> QED
      BY <2>1 DEF PanelInv, PanelShowsItsQuery
  <1> QED
    BY <1>1, <1>2, <1>3, <1>4, <1>5, <1>6, <1>7, <1>8, <1>9, <1>10, <1>11, <1>12 DEF AuditNext

-----------------------------------------------------------------------------
(***************************************************************************)
(* The cache: while nobody changed the settings under a request that used   *)
(* them, whoever still has them to store has those of the row.              *)
(***************************************************************************)
CacheInv ==
  \A w \in AuditSpaces \ disturbed :
    /\ known[w] \in {NoAudit, RowOf(w)} \/ \E u \in updates : u.at = "committed" /\ u.space = w
    /\ \A u \in updates : u.at = "committed" /\ u.space = w => u.config = RowOf(w)
    /\ \A l \in loads : l.at = "read" /\ l.space = w => l.got = RowOf(w)
    /\ \A r \in readers : r.space = w => r.got = RowOf(w)

\* A load that was asked for has read nothing, and one that is retired has what it had.
LEMMA LoadsFrame ==
  ASSUME LogTypes,
         \/ \E w \in AuditSpaces \cup {NoAudit}, s \in FilterValues, p \in 1 .. MaxPage : LoadLog(w, s, p)
         \/ \E s \in FilterValues : SetFilter(s)
         \/ Remount
  PROVE  \A m \in loads' : m.at = "sent" \/ \E l \in loads : m.space = l.space /\ m.at = l.at /\ m.got = l.got
  <1> USE DEF LogTypes
  <1>r. \A m \in Retired : \E l \in loads : m.space = l.space /\ m.at = l.at /\ m.got = l.got
    BY Retiring
  <1>q. \A w, s, p : Query(w, s, p).at = "sent" /\ [Query(w, s, p) EXCEPT !.live = FALSE].at = "sent"
    BY DEF Query
  <1>1. CASE \E w \in AuditSpaces \cup {NoAudit}, s \in FilterValues, p \in 1 .. MaxPage : LoadLog(w, s, p)
    <2>1. PICK w, s, p : loads' \subseteq Retired \cup {Query(w, s, p)}
      BY <1>1 DEF LoadLog
    <2> QED
      BY <2>1, <1>r, <1>q
  <1>2. CASE \E s \in FilterValues : SetFilter(s)
    <2>1. PICK s : loads' \subseteq Retired \cup {Query(resolved, s, 1)}
                               \cup {[Query(resolved, s, page) EXCEPT !.live = FALSE]}
      BY <1>2 DEF SetFilter
    <2>2. Query(resolved, s, 1).at = "sent" /\ [Query(resolved, s, page) EXCEPT !.live = FALSE].at = "sent"
      BY <1>q
    <2> QED
      BY <2>1, <2>2, <1>r
  <1>3. CASE Remount
    <2>1. loads' \subseteq Retired \cup {Query(resolved, NoFilter, 1)}
      BY <1>3 DEF Remount
    <2> QED
      BY <2>1, <1>r, <1>q
  <1> QED
    BY <1>1, <1>2, <1>3

LEMMA CacheStep ==
  ASSUME AuditAssumption, LogTypes, CacheInv, [AuditNext]_auditVars
  PROVE  CacheInv'
  <1> USE DEF LogTypes
  <1>1. ASSUME NEW u \in updates, CommitUpdate(u) PROVE CacheInv'
    <2> DEFINE v == [u EXCEPT !.at = "committed"]
    <2>1. u \in Updates
      BY DEF SettingsTypes
    <2>2. v.space = u.space /\ v.config = u.config /\ v.at = "committed" /\ u.space \in AuditSpaces
          /\ u.config \in AuditSettings
      BY <2>1 DEF Updates
    <2>3. updates' = (updates \ {u}) \cup {v} /\ u.at = "sent" /\ UNCHANGED <<known, readers, loads>>
          /\ rows' = [rows EXCEPT ![u.space] = u.config]
      BY <1>1 DEF CommitUpdate, panelVars
    <2> HIDE DEF v
    <2>4. RowOf(u.space)' = u.config
      BY <2>2, <2>3 DEF RowOf, SettingsTypes, AuditAssumption
    <2>5. \A w \in AuditSpaces : w # u.space => RowOf(w)' = RowOf(w)
      BY <2>3 DEF RowOf, SettingsTypes
    <2>6. u.space \in disturbed' \/ ReadingOf(u.space) \cup Storing(u.space) = {}
      BY <1>1 DEF CommitUpdate
    <2>7. disturbed \subseteq disturbed'
      BY <1>1 DEF CommitUpdate
    <2>8. SUFFICES ASSUME NEW w \in AuditSpaces \ disturbed'
                   PROVE  /\ known[w] \in {NoAudit, RowOf(w)'} \/ \E x \in updates' : x.at = "committed" /\ x.space = w
                          /\ \A x \in updates' : x.at = "committed" /\ x.space = w => x.config = RowOf(w)'
                          /\ \A l \in loads : l.at = "read" /\ l.space = w => l.got = RowOf(w)'
                          /\ \A r \in readers : r.space = w => r.got = RowOf(w)'
      BY <2>3 DEF CacheInv
    <2>9. w \notin disturbed
      BY <2>7
    <2>10. CASE w = u.space
      <3>1. v \in updates' /\ v.at = "committed" /\ v.space = w /\ v.config = RowOf(w)'
        BY <2>2, <2>3, <2>4, <2>10
      <3>2. /\ \A l \in loads : ~(l.at = "read" /\ l.space = w)
            /\ \A r \in readers : r.space # w
            /\ \A x \in updates : ~(x.at = "committed" /\ x.space = w)
        BY <2>6, <2>10 DEF ReadingOf, Storing
      <3> QED
        BY <2>3, <3>1, <3>2
    <2>11. CASE w # u.space
      <3>1. RowOf(w)' = RowOf(w)
        BY <2>5, <2>11
      <3>2. /\ known[w] \in {NoAudit, RowOf(w)} \/ \E x \in updates : x.at = "committed" /\ x.space = w
            /\ \A x \in updates : x.at = "committed" /\ x.space = w => x.config = RowOf(w)
            /\ \A l \in loads : l.at = "read" /\ l.space = w => l.got = RowOf(w)
            /\ \A r \in readers : r.space = w => r.got = RowOf(w)
        BY <2>9 DEF CacheInv
      <3> QED
        BY <2>2, <2>3, <2>11, <3>1, <3>2
    <2> QED
      BY <2>10, <2>11
  <1>2. ASSUME NEW u \in updates, StoreUpdate(u) PROVE CacheInv'
    <2>1. u \in Updates
      BY DEF SettingsTypes
    <2>2. u.space \in AuditSpaces /\ [u EXCEPT !.at = "stored"].at # "committed"
      BY <2>1 DEF Updates
    <2>3. /\ known' = [known EXCEPT ![u.space] = u.config] /\ u.at = "committed"
          /\ UNCHANGED <<rows, readers, loads, disturbed>>
          /\ updates \ {u} \subseteq updates' /\ updates' \subseteq (updates \ {u}) \cup {[u EXCEPT !.at = "stored"]}
      BY <1>2 DEF StoreUpdate, panelVars
    <2>4. \A w \in AuditSpaces : known'[w] = IF w = u.space THEN u.config ELSE known[w]
      BY <2>2, <2>3 DEF SettingsTypes
    <2>5. \A w : RowOf(w)' = RowOf(w)
      BY <2>3 DEF RowOf
    <2>6. SUFFICES ASSUME NEW w \in AuditSpaces \ disturbed
                   PROVE  /\ known'[w] \in {NoAudit, RowOf(w)} \/ \E x \in updates' : x.at = "committed" /\ x.space = w
                          /\ \A x \in updates' : x.at = "committed" /\ x.space = w => x.config = RowOf(w)
                          /\ \A m \in loads' : m.at = "read" /\ m.space = w => m.got = RowOf(w)
                          /\ \A r \in readers : r.space = w => r.got = RowOf(w)
      BY <2>3, <2>5 DEF CacheInv
    <2>7. \A x \in updates : x.at = "committed" /\ x.space = w => x.config = RowOf(w)
      BY DEF CacheInv
    <2>8. \A r \in readers : r.space = w => r.got = RowOf(w)
      BY DEF CacheInv
    <2>9. \A m \in loads : m.at = "read" /\ m.space = w => m.got = RowOf(w)
      BY DEF CacheInv
    <2>10. known[w] \in {NoAudit, RowOf(w)} \/ \E x \in updates : x.at = "committed" /\ x.space = w
      BY DEF CacheInv
    <2>11. known'[w] \in {NoAudit, RowOf(w)} \/ \E x \in updates' : x.at = "committed" /\ x.space = w
      BY <2>3, <2>4, <2>7, <2>9, <2>10
    <2> QED
      BY <2>2, <2>3, <2>7, <2>8, <2>9, <2>11
  <1>3. ASSUME NEW l \in loads, StoreRead(l) PROVE CacheInv'
    <2>1. l \in Loads
      BY DEF PanelTypes
    <2>2. l.space \in AuditSpaces /\ [l EXCEPT !.at = "answered"].at # "read"
      BY <2>1 DEF Loads
    <2>3. /\ known' = [known EXCEPT ![l.space] = l.got] /\ l.at = "read"
          /\ UNCHANGED <<rows, readers, updates, disturbed>>
          /\ loads' = (loads \ {l}) \cup {[l EXCEPT !.at = "answered"]}
      BY <1>3 DEF StoreRead
    <2>4. \A w \in AuditSpaces : known'[w] = IF w = l.space THEN l.got ELSE known[w]
      BY <2>2, <2>3 DEF SettingsTypes
    <2>5. \A w : RowOf(w)' = RowOf(w)
      BY <2>3 DEF RowOf
    <2>6. SUFFICES ASSUME NEW w \in AuditSpaces \ disturbed
                   PROVE  /\ known'[w] \in {NoAudit, RowOf(w)} \/ \E x \in updates' : x.at = "committed" /\ x.space = w
                          /\ \A x \in updates' : x.at = "committed" /\ x.space = w => x.config = RowOf(w)
                          /\ \A m \in loads' : m.at = "read" /\ m.space = w => m.got = RowOf(w)
                          /\ \A r \in readers : r.space = w => r.got = RowOf(w)
      BY <2>3, <2>5 DEF CacheInv
    <2>7. \A x \in updates : x.at = "committed" /\ x.space = w => x.config = RowOf(w)
      BY DEF CacheInv
    <2>8. \A r \in readers : r.space = w => r.got = RowOf(w)
      BY DEF CacheInv
    <2>9. \A m \in loads : m.at = "read" /\ m.space = w => m.got = RowOf(w)
      BY DEF CacheInv
    <2>10. known[w] \in {NoAudit, RowOf(w)} \/ \E x \in updates : x.at = "committed" /\ x.space = w
      BY DEF CacheInv
    <2>11. known'[w] \in {NoAudit, RowOf(w)} \/ \E x \in updates' : x.at = "committed" /\ x.space = w
      BY <2>3, <2>4, <2>7, <2>9, <2>10
    <2> QED
      BY <2>2, <2>3, <2>7, <2>8, <2>9, <2>11
  <1>4. ASSUME NEW r \in readers, EventRead(r) PROVE CacheInv'
    <2>1. r.space \in AuditSpaces
      BY DEF SettingsTypes, Lookups
    <2>2. /\ known' = [known EXCEPT ![r.space] = r.got] /\ readers' = readers \ {r}
          /\ UNCHANGED <<rows, loads, updates, disturbed>>
      BY <1>4 DEF EventRead, panelVars
    <2>3. \A w \in AuditSpaces : known'[w] = IF w = r.space THEN r.got ELSE known[w]
      BY <2>1, <2>2 DEF SettingsTypes
    <2>4. \A w : RowOf(w)' = RowOf(w)
      BY <2>2 DEF RowOf
    <2> QED
      BY <2>1, <2>2, <2>3, <2>4 DEF CacheInv
  <1>5. ASSUME NEW w \in AuditSpaces, NEW request \in RequestKinds, AuditRequest(w, request)
        PROVE  CacheInv'
    <2> DEFINE x == [event |-> audits, space |-> w, request |-> request, got |-> RowOf(w)]
    <2>1. readers' \subseteq readers \cup {x} /\ UNCHANGED <<rows, known, loads, updates, disturbed>>
      BY <1>5 DEF AuditRequest, panelVars
    <2>2. x.space = w /\ x.got = RowOf(w)
      OBVIOUS
    <2>3. \A z : RowOf(z)' = RowOf(z)
      BY <2>1 DEF RowOf
    <2> HIDE DEF x
    <2> QED
      BY <2>1, <2>2, <2>3 DEF CacheInv
  <1>6. ASSUME NEW l \in loads, ServeConfig(l) PROVE CacheInv'
    <2>1. l \in Loads
      BY DEF PanelTypes
    <2>2. PICK m : loads' = (loads \ {l}) \cup {m} /\ (m.at = "read" => m.space = l.space /\ m.got = RowOf(l.space))
      <3>1. CASE known[l.space] = NoAudit
        <4> DEFINE m == [l EXCEPT !.at = "read", !.got = RowOf(l.space)]
        <4>1. m.space = l.space /\ m.got = RowOf(l.space)
          BY <2>1 DEF Loads
        <4>2. loads' = (loads \ {l}) \cup {m}
          BY <1>6, <3>1 DEF ServeConfig
        <4> QED
          BY <4>1, <4>2
      <3>2. CASE known[l.space] # NoAudit
        <4> DEFINE m == [l EXCEPT !.at = "answered", !.got = known[l.space]]
        <4>1. m.at # "read"
          BY <2>1 DEF Loads
        <4>2. loads' = (loads \ {l}) \cup {m}
          BY <1>6, <3>2 DEF ServeConfig
        <4> QED
          BY <4>1, <4>2
      <3> QED
        BY <3>1, <3>2
    <2>3. UNCHANGED <<rows, known, readers, updates, disturbed>>
      BY <1>6 DEF ServeConfig, settingsVars
    <2>4. \A z : RowOf(z)' = RowOf(z)
      BY <2>3 DEF RowOf
    <2> QED
      BY <2>2, <2>3, <2>4 DEF CacheInv
  <1>7. CASE RestartApi
    <2>1. /\ \A w \in AuditSpaces : known'[w] = NoAudit
          /\ updates' = {} /\ readers' = {} /\ loads' = {}
      BY <1>7 DEF RestartApi
    <2> QED
      BY <2>1 DEF CacheInv
  <1>8. CASE Remount
    <2>1. \A m \in loads' : m.at = "sent" \/ \E l \in loads : m.space = l.space /\ m.at = l.at /\ m.got = l.got
      BY <1>8, LoadsFrame
    <2>2. \A u \in updates : LET v == [u EXCEPT !.by = "other"]
                            IN  v.space = u.space /\ v.config = u.config /\ v.at = u.at
      BY Updating DEF SettingsTypes
    <2>3. /\ \A v \in updates' : \E u \in updates : v.space = u.space /\ v.config = u.config /\ v.at = u.at
          /\ \A u \in updates : u.at = "committed" =>
                 \E v \in updates' : v.space = u.space /\ v.config = u.config /\ v.at = u.at
      BY <1>8, <2>2 DEF Remount
    <2>4. UNCHANGED <<rows, known, readers, disturbed>>
      BY <1>8 DEF Remount
    <2>5. \A z : RowOf(z)' = RowOf(z)
      BY <2>4 DEF RowOf
    <2> QED
      BY <2>1, <2>3, <2>4, <2>5 DEF CacheInv
  <1>9. CASE SaveSettings \/ \E w \in AuditSpaces, c \in AuditSettings : OtherUpdate(w, c)
    <2>1. PICK v : v.at = "sent" /\ updates' = updates \cup {v}
      BY <1>9 DEF SaveSettings, OtherUpdate
    <2>2. UNCHANGED <<rows, known, readers, loads, disturbed>>
      BY <1>9 DEF SaveSettings, OtherUpdate, panelVars
    <2>3. \A z : RowOf(z)' = RowOf(z)
      BY <2>2 DEF RowOf
    <2> QED
      BY <2>1, <2>2, <2>3 DEF CacheInv
  <1>10. ASSUME NEW u \in updates, SaveAnswered(u) \/ SaveFailed(u) PROVE CacheInv'
    <2>1. \A m \in loads' : m.at = "sent" \/ \E l \in loads : m.space = l.space /\ m.at = l.at /\ m.got = l.got
      <3>1. CASE SaveAnswered(u)
        <4>1. LoadLog(resolved, filters, page)
          BY <3>1 DEF SaveAnswered
        <4> QED
          BY <4>1, LoadsFrame DEF PanelTypes
      <3>2. CASE SaveFailed(u)
        BY <3>2 DEF SaveFailed
      <3> QED
        BY <1>10, <3>1, <3>2
    <2>2. u.at # "committed" /\ updates' = updates \ {u} /\ UNCHANGED <<rows, known, readers, disturbed>>
      BY <1>10 DEF SaveAnswered, SaveFailed
    <2>3. \A z : RowOf(z)' = RowOf(z)
      BY <2>2 DEF RowOf
    <2> QED
      BY <2>1, <2>2, <2>3 DEF CacheInv
  <1>11. CASE \/ \E l \in loads : LogAnswered(l) \/ LogFailed(l)
              \/ \E works \in BOOLEAN : InsertBatch(works) \/ \E e \in spilled : InsertSpilled(e, works)
              \/ TakeBatch \/ ResetFilters \/ CancelSettings
              \/ \E s \in FilterValues : SetFilter(s)
              \/ \E p \in 1..MaxPage : GoToPage(p)
              \/ \E c \in AuditSettings : TypeSettings(c)
              \/ \E w \in AuditSpaces \cup {NoAudit} : SwitchAudit(w)
              \/ UNCHANGED auditVars
    <2>1. \A m \in loads' : m.at = "sent" \/ \E l \in loads : m.space = l.space /\ m.at = l.at /\ m.got = l.got
      <3>1. CASE \/ ResetFilters \/ \E p \in 1..MaxPage : GoToPage(p)
                 \/ \E w \in AuditSpaces \cup {NoAudit} : SwitchAudit(w)
        <4>1. NoFilter \in FilterValues /\ 1 \in 1 .. MaxPage
          BY DEF AuditAssumption
        <4>2. \E w \in AuditSpaces \cup {NoAudit}, s \in FilterValues, p \in 1 .. MaxPage : LoadLog(w, s, p)
          BY <3>1, <4>1 DEF ResetFilters, GoToPage, SwitchAudit, PanelTypes
        <4> QED
          BY <4>2, LoadsFrame
      <3>2. CASE \E s \in FilterValues : SetFilter(s)
        BY <3>2, LoadsFrame
      <3>3. CASE \/ \E l \in loads : LogAnswered(l) \/ LogFailed(l)
                 \/ \E works \in BOOLEAN : InsertBatch(works) \/ \E e \in spilled : InsertSpilled(e, works)
                 \/ TakeBatch \/ CancelSettings
                 \/ \E c \in AuditSettings : TypeSettings(c)
                 \/ UNCHANGED auditVars
        <4>1. loads' \subseteq loads
          BY <3>3 DEF LogAnswered, ShowLog, LogFailed, InsertBatch, InsertSpilled, TakeBatch, CancelSettings,
                      TypeSettings, panelVars, auditVars
        <4> QED
          BY <4>1
      <3> QED
        BY <1>11, <3>1, <3>2, <3>3
    <2>2. UNCHANGED settingsVars
      BY <1>11 DEF LogAnswered, ShowLog, LogFailed, InsertBatch, InsertSpilled, TakeBatch, ResetFilters,
                   CancelSettings, SetFilter, GoToPage, TypeSettings, SwitchAudit, auditVars, settingsVars
    <2>3. \A z : RowOf(z)' = RowOf(z)
      BY <2>2 DEF RowOf, settingsVars
    <2> QED
      BY <2>1, <2>2, <2>3 DEF CacheInv, settingsVars
  <1> QED
    BY <1>1, <1>2, <1>3, <1>4, <1>5, <1>6, <1>7, <1>8, <1>9, <1>10, <1>11 DEF AuditNext

-----------------------------------------------------------------------------
(***************************************************************************)
(* The events: each is numbered by the action that made it, is in the queue *)
(* once, and is not yet logged while its settings are looked up.            *)
(***************************************************************************)
Distinct(q) == \A i, j \in DOMAIN q : q[i] = q[j] => i = j

EventInv ==
  /\ queue \in Seq(Nat) /\ batch \in Seq(Nat) /\ Distinct(queue)
  /\ logged = Events(queue) \cup Events(batch) \cup spilled \cup stored \cup lost
  /\ Events(queue) \cap (Events(batch) \cup spilled \cup stored \cup lost) = {}
  /\ Events(batch) \cap (spilled \cup stored \cup lost) = {}
  /\ spilled \cap (stored \cup lost) = {} /\ stored \cap lost = {}
  /\ \A e \in logged : e \in Nat /\ e < audits
  /\ \A r \in readers : /\ r.event < audits /\ r.event \notin logged
                       /\ \A q \in readers : q.event = r.event => q = r

LEMMA Accounted ==
  ASSUME EventInv
  PROVE  EventsAccounted
  <1> DEFINE places == <<Events(queue), Events(batch), spilled, stored, lost>>
  <1>1. /\ DOMAIN places = 1 .. 5
        /\ places[1] = Events(queue) /\ places[2] = Events(batch) /\ places[3] = spilled
        /\ places[4] = stored /\ places[5] = lost
    OBVIOUS
  <1> HIDE DEF places
  <1>2. Events(places) = {Events(queue), Events(batch), spilled, stored, lost}
    <2>1. Events(places) = {places[i] : i \in 1 .. 5}
      BY <1>1 DEF Events
    <2>2. 1 .. 5 = {1, 2, 3, 4, 5}
      OBVIOUS
    <2> QED
      BY <1>1, <2>1, <2>2
  <1>3. logged = UNION Events(places)
    BY <1>2 DEF EventInv
  <1>4. \A i, j \in DOMAIN places : i # j => places[i] \cap places[j] = {}
    <2>1. SUFFICES ASSUME NEW i \in {1, 2, 3, 4, 5}, NEW j \in {1, 2, 3, 4, 5}, i # j
                   PROVE  places[i] \cap places[j] = {}
      BY <1>1
    <2>2. /\ Events(queue) \cap Events(batch) = {} /\ Events(queue) \cap spilled = {}
          /\ Events(queue) \cap stored = {} /\ Events(queue) \cap lost = {}
          /\ Events(batch) \cap spilled = {} /\ Events(batch) \cap stored = {} /\ Events(batch) \cap lost = {}
          /\ spilled \cap stored = {} /\ spilled \cap lost = {} /\ stored \cap lost = {}
      BY DEF EventInv
    <2>3. \A s, t : s \cap t = t \cap s
      OBVIOUS
    <2>4. CASE i = 1
      BY <1>1, <2>1, <2>2, <2>3, <2>4
    <2>5. CASE i = 2
      BY <1>1, <2>1, <2>2, <2>3, <2>5
    <2>6. CASE i = 3
      BY <1>1, <2>1, <2>2, <2>3, <2>6
    <2>7. CASE i = 4
      BY <1>1, <2>1, <2>2, <2>3, <2>7
    <2>8. CASE i = 5
      BY <1>1, <2>1, <2>2, <2>3, <2>8
    <2> QED
      BY <2>4, <2>5, <2>6, <2>7, <2>8
  <1> QED
    BY <1>3, <1>4 DEF EventsAccounted, places

LEMMA Queueing ==
  ASSUME NEW q \in Seq(Nat), NEW e \in Nat
  PROVE  /\ Append(q, e) \in Seq(Nat) /\ Events(Append(q, e)) = Events(q) \cup {e}
         /\ Distinct(q) /\ e \notin Events(q) => Distinct(Append(q, e))
  <1>1. /\ Append(q, e) \in Seq(Nat) /\ DOMAIN Append(q, e) = 1 .. (Len(q) + 1) /\ DOMAIN q = 1 .. Len(q)
        /\ Len(q) \in Nat
        /\ \A i \in 1 .. (Len(q) + 1) : Append(q, e)[i] = IF i = Len(q) + 1 THEN e ELSE q[i]
    OBVIOUS
  <1>2. 1 .. (Len(q) + 1) = (1 .. Len(q)) \cup {Len(q) + 1} /\ Len(q) + 1 \notin 1 .. Len(q)
    BY <1>1
  <1>3. Events(Append(q, e)) = Events(q) \cup {e}
    BY <1>1, <1>2 DEF Events
  <1>4. Distinct(q) /\ e \notin Events(q) => Distinct(Append(q, e))
    BY <1>1, <1>2 DEF Events, Distinct
  <1> QED
    BY <1>1, <1>3, <1>4

LEMMA Cutting ==
  ASSUME NEW q \in Seq(Nat), NEW n \in 0 .. Len(q), Distinct(q)
  PROVE  LET a == SubSeq(q, 1, n)
             b == SubSeq(q, n + 1, Len(q))
         IN  /\ a \in Seq(Nat) /\ b \in Seq(Nat) /\ Distinct(b)
             /\ Events(a) \cup Events(b) = Events(q) /\ Events(a) \cap Events(b) = {}
  <1> DEFINE a == SubSeq(q, 1, n)
             b == SubSeq(q, n + 1, Len(q))
  <1>1. /\ DOMAIN q = 1 .. Len(q) /\ Len(q) \in Nat /\ n \in Nat /\ n <= Len(q)
    OBVIOUS
  <1>2. a \in Seq(Nat) /\ DOMAIN a = 1 .. n /\ \A i \in 1 .. n : a[i] = q[i]
    BY <1>1
  <1>3. b \in Seq(Nat) /\ DOMAIN b = 1 .. (Len(q) - n) /\ \A i \in 1 .. (Len(q) - n) : b[i] = q[n + i]
    BY <1>1
  <1> HIDE DEF a, b
  <1>4. Distinct(b)
    <2>1. SUFFICES ASSUME NEW i \in 1 .. (Len(q) - n), NEW j \in 1 .. (Len(q) - n), b[i] = b[j] PROVE i = j
      BY <1>3 DEF Distinct
    <2>2. n + i \in 1 .. Len(q) /\ n + j \in 1 .. Len(q) /\ (n + i = n + j => i = j)
      BY <1>1
    <2>3. q[n + i] = q[n + j]
      BY <1>3, <2>1
    <2> QED
      BY <1>1, <2>2, <2>3 DEF Distinct
  <1>5. Events(a) \subseteq Events(q) /\ Events(b) \subseteq Events(q)
    <2>1. \A i \in 1 .. n : i \in 1 .. Len(q)
      BY <1>1
    <2>2. \A i \in 1 .. (Len(q) - n) : n + i \in 1 .. Len(q)
      BY <1>1
    <2> QED
      BY <1>1, <1>2, <1>3, <2>1, <2>2 DEF Events
  <1>6. ASSUME NEW i \in 1 .. Len(q) PROVE q[i] \in Events(a) \cup Events(b)
    <2>1. CASE i <= n
      BY <1>1, <1>2, <2>1 DEF Events
    <2>2. CASE ~(i <= n)
      <3>1. i - n \in 1 .. (Len(q) - n) /\ n + (i - n) = i
        BY <1>1, <2>2
      <3> QED
        BY <1>3, <3>1 DEF Events
    <2> QED
      BY <2>1, <2>2
  <1>7. Events(a) \cap Events(b) = {}
    <2>1. SUFFICES ASSUME NEW i \in 1 .. n, NEW j \in 1 .. (Len(q) - n), a[i] = b[j] PROVE FALSE
      BY <1>2, <1>3 DEF Events
    <2>2. i \in 1 .. Len(q) /\ n + j \in 1 .. Len(q) /\ i # n + j
      BY <1>1
    <2> QED
      BY <1>1, <1>2, <1>3, <2>1, <2>2 DEF Distinct
  <1>8. Events(a) \cup Events(b) = Events(q)
    BY <1>1, <1>5, <1>6 DEF Events
  <1> QED
    BY <1>2, <1>3, <1>4, <1>7, <1>8 DEF a, b

\* An event that is judged is in one place more or in none; nothing else moves.
LEMMA Judging ==
  ASSUME EventInv, NEW e \in Nat, NEW config, NEW request, Judge(e, config, request), e \notin logged,
         NEW n \in Nat, e < n, audits <= n, audits \in Nat
  PROVE  /\ queue' \in Seq(Nat) /\ batch' \in Seq(Nat) /\ Distinct(queue)'
         /\ logged' = (Events(queue) \cup Events(batch) \cup spilled \cup stored \cup lost)'
         /\ (Events(queue) \cap (Events(batch) \cup spilled \cup stored \cup lost) = {})'
         /\ (Events(batch) \cap (spilled \cup stored \cup lost) = {})'
         /\ (spilled \cap (stored \cup lost) = {})' /\ (stored \cap lost = {})'
         /\ logged' \subseteq logged \cup {e}
         /\ \A x \in logged' : x \in Nat /\ x < n
  <1>1. CASE Logs(config, request)
    <2>1. Enqueue(e)
      BY <1>1 DEF Judge
    <2>2. logged' = logged \cup {e} /\ UNCHANGED <<batch, stored, lost>>
      BY <2>1 DEF Enqueue
    <2>3. \A x \in logged' : x \in Nat /\ x < n
      BY <2>2 DEF EventInv
    <2>4. /\ e \notin Events(queue) /\ e \notin Events(batch) /\ e \notin spilled /\ e \notin stored
          /\ e \notin lost
      BY DEF EventInv
    <2>5. CASE queue' = Append(queue, e) /\ UNCHANGED spilled
      <3>1. queue' \in Seq(Nat) /\ Events(queue') = Events(queue) \cup {e} /\ Distinct(queue')
        BY <2>4, <2>5, Queueing DEF EventInv
      <3>2. Events(queue)' = Events(queue) \cup {e} /\ Distinct(queue)' /\ Events(batch)' = Events(batch)
        BY <3>1, <2>2 DEF Events, Distinct
      <3> QED
        BY <2>2, <2>3, <2>4, <2>5, <3>1, <3>2 DEF EventInv
    <2>6. CASE spilled' = spilled \cup {e} /\ UNCHANGED queue
      <3>1. Events(queue)' = Events(queue) /\ Events(batch)' = Events(batch) /\ (Distinct(queue)' <=> Distinct(queue))
        BY <2>6, <2>2 DEF Events, Distinct
      <3> QED
        BY <2>2, <2>3, <2>4, <2>6, <3>1 DEF EventInv
    <2> QED
      BY <2>1, <2>5, <2>6 DEF Enqueue
  <1>2. CASE ~Logs(config, request)
    <2>1. UNCHANGED <<queue, batch, spilled, stored, logged, lost>>
      BY <1>2 DEF Judge, eventVars
    <2>2. \A x \in logged : x \in Nat /\ x < n
      BY DEF EventInv
    <2>3. Events(queue)' = Events(queue) /\ Events(batch)' = Events(batch) /\ (Distinct(queue)' <=> Distinct(queue))
      BY <2>1 DEF Events, Distinct
    <2> QED
      BY <2>1, <2>2, <2>3 DEF EventInv
  <1> QED
    BY <1>1, <1>2

LEMMA EventStep ==
  ASSUME AuditAssumption, LogTypes, EventInv, [AuditNext]_auditVars
  PROVE  EventInv'
  <1> USE DEF LogTypes
  <1>0. audits \in Nat /\ \A r \in readers : r \in Lookups /\ r.event \in Nat
    BY DEF SettingsTypes, Lookups
  <1>i. /\ Events(queue) \cap Events(batch) = {} /\ Events(queue) \cap spilled = {}
        /\ Events(queue) \cap stored = {} /\ Events(queue) \cap lost = {}
        /\ Events(batch) \cap spilled = {} /\ Events(batch) \cap stored = {} /\ Events(batch) \cap lost = {}
        /\ spilled \cap stored = {} /\ spilled \cap lost = {} /\ stored \cap lost = {}
    BY DEF EventInv
  <1>1. ASSUME NEW w \in AuditSpaces, NEW request \in RequestKinds, AuditRequest(w, request)
        PROVE  EventInv'
    <2>1. audits' = audits + 1 /\ audits' \in Nat /\ audits < audits' /\ audits <= audits'
      BY <1>1, <1>0 DEF AuditRequest, Once
    <2>2. audits \notin logged /\ \A r \in readers : r.event # audits
      BY <1>0 DEF EventInv
    <2>3. CASE known[w] = NoAudit
      <3> DEFINE x == [event |-> audits, space |-> w, request |-> request, got |-> RowOf(w)]
      <3>1. readers' = readers \cup {x} /\ UNCHANGED <<queue, batch, spilled, stored, logged, lost>>
        BY <1>1, <2>3 DEF AuditRequest, eventVars
      <3>2. x.event = audits
        OBVIOUS
      <3> HIDE DEF x
      <3>3. /\ \A e \in logged' : e \in Nat /\ e < audits'
            /\ \A r \in readers' : r.event < audits' /\ r.event \notin logged'
        BY <3>1, <3>2, <2>1, <2>2, <1>0 DEF EventInv
      <3>4. \A r \in readers' : \A q \in readers' : q.event = r.event => q = r
        BY <3>1, <3>2, <2>2 DEF EventInv
      <3>5. Events(queue)' = Events(queue) /\ Events(batch)' = Events(batch) /\ (Distinct(queue)' <=> Distinct(queue))
        BY <3>1 DEF Events, Distinct
      <3> QED
        BY <3>1, <3>3, <3>4, <3>5 DEF EventInv
    <2>4. CASE known[w] # NoAudit
      <3>1. Judge(audits, known[w], request) /\ readers' = readers
        BY <1>1, <2>4 DEF AuditRequest
      <3>2. /\ queue' \in Seq(Nat) /\ batch' \in Seq(Nat) /\ Distinct(queue)'
            /\ logged' = (Events(queue) \cup Events(batch) \cup spilled \cup stored \cup lost)'
            /\ (Events(queue) \cap (Events(batch) \cup spilled \cup stored \cup lost) = {})'
            /\ (Events(batch) \cap (spilled \cup stored \cup lost) = {})'
            /\ (spilled \cap (stored \cup lost) = {})' /\ (stored \cap lost = {})'
            /\ logged' \subseteq logged \cup {audits}
            /\ \A x \in logged' : x \in Nat /\ x < audits'
        BY <3>1, <2>1, <2>2, <1>0, Judging
      <3>3. \A r \in readers' : r.event < audits' /\ r.event \notin logged'
        BY <3>1, <3>2, <2>1, <2>2, <1>0 DEF EventInv
      <3>4. \A r \in readers' : \A q \in readers' : q.event = r.event => q = r
        BY <3>1 DEF EventInv
      <3> QED
        BY <3>2, <3>3, <3>4 DEF EventInv
    <2> QED
      BY <2>3, <2>4
  <1>2. ASSUME NEW r \in readers, EventRead(r) PROVE EventInv'
    <2>1. Judge(r.event, r.got, r.request) /\ readers' = readers \ {r} /\ audits' = audits
      BY <1>2 DEF EventRead
    <2>2. r.event \in Nat /\ r.event < audits /\ audits <= audits /\ r.event \notin logged
      BY <1>0 DEF EventInv
    <2>3. /\ queue' \in Seq(Nat) /\ batch' \in Seq(Nat) /\ Distinct(queue)'
          /\ logged' = (Events(queue) \cup Events(batch) \cup spilled \cup stored \cup lost)'
          /\ (Events(queue) \cap (Events(batch) \cup spilled \cup stored \cup lost) = {})'
          /\ (Events(batch) \cap (spilled \cup stored \cup lost) = {})'
          /\ (spilled \cap (stored \cup lost) = {})' /\ (stored \cap lost = {})'
          /\ logged' \subseteq logged \cup {r.event}
          /\ \A x \in logged' : x \in Nat /\ x < audits
      BY <2>1, <2>2, <1>0, Judging
    <2>4. \A q \in readers' : q.event < audits /\ q.event \notin logged'
      BY <2>1, <2>3 DEF EventInv
    <2>5. \A p \in readers' : \A q \in readers' : q.event = p.event => q = p
      BY <2>1 DEF EventInv
    <2> QED
      BY <2>1, <2>3, <2>4, <2>5 DEF EventInv
  <1>3. CASE TakeBatch
    <2> DEFINE n == IF Len(queue) < BatchMax THEN Len(queue) ELSE BatchMax
               a == SubSeq(queue, 1, n)
               b == SubSeq(queue, n + 1, Len(queue))
    <2>1. batch = <<>> /\ batch' = a /\ queue' = b
          /\ UNCHANGED <<spilled, stored, logged, lost, audits, readers>>
      BY <1>3 DEF TakeBatch, settingsVars
    <2>2. n \in 0 .. Len(queue)
      <3>1. BatchMax \in Nat
        BY DEF AuditAssumption
      <3>2. Len(queue) \in Nat
        BY DEF EventInv
      <3> QED
        BY <3>1, <3>2
    <2>3. /\ a \in Seq(Nat) /\ b \in Seq(Nat) /\ Distinct(b)
          /\ Events(a) \cup Events(b) = Events(queue) /\ Events(a) \cap Events(b) = {}
      BY <2>2, Cutting DEF EventInv
    <2> HIDE DEF a, b, n
    <2>4. Events(batch) = {}
      BY <2>1 DEF Events
    <2>5. Events(queue)' = Events(b) /\ Events(batch)' = Events(a) /\ (Distinct(queue)' <=> Distinct(b))
      BY <2>1 DEF Events, Distinct
    <2>6. /\ (logged = Events(queue) \cup Events(batch) \cup spilled \cup stored \cup lost)'
          /\ (Events(queue) \cap (Events(batch) \cup spilled \cup stored \cup lost) = {})'
          /\ (Events(batch) \cap (spilled \cup stored \cup lost) = {})'
      BY <2>1, <2>3, <2>4, <2>5 DEF EventInv
    <2> QED
      BY <2>1, <2>3, <2>5, <2>6 DEF EventInv
  <1>4. ASSUME NEW works \in BOOLEAN, InsertBatch(works) PROVE EventInv'
    <2>1. /\ batch' = <<>> /\ UNCHANGED <<queue, spilled, logged, audits, readers>>
          /\ Keep(Events(batch), works)
      BY <1>4 DEF InsertBatch, settingsVars, Events
    <2>2. Events(batch)' = {} /\ Events(queue)' = Events(queue) /\ (Distinct(queue)' <=> Distinct(queue))
          /\ batch' \in Seq(Nat)
      BY <2>1 DEF Events, Distinct
    <2>3. \/ stored' = stored \cup Events(batch) /\ lost' = lost
          \/ lost' = lost \cup Events(batch) /\ stored' = stored
      BY <2>1 DEF Keep
    <2>4. /\ (logged = Events(queue) \cup Events(batch) \cup spilled \cup stored \cup lost)'
          /\ (Events(queue) \cap (Events(batch) \cup spilled \cup stored \cup lost) = {})'
          /\ (Events(batch) \cap (spilled \cup stored \cup lost) = {})'
          /\ (spilled \cap (stored \cup lost) = {})' /\ (stored \cap lost = {})'
      BY <2>1, <2>2, <2>3, <1>i DEF EventInv
    <2> QED
      BY <2>1, <2>2, <2>4 DEF EventInv
  <1>5. ASSUME NEW works \in BOOLEAN, NEW e \in spilled, InsertSpilled(e, works) PROVE EventInv'
    <2>1. /\ spilled' = spilled \ {e} /\ UNCHANGED <<queue, batch, logged, audits, readers>>
          /\ Keep({e}, works)
      BY <1>5 DEF InsertSpilled, settingsVars
    <2>2. Events(batch)' = Events(batch) /\ Events(queue)' = Events(queue) /\ (Distinct(queue)' <=> Distinct(queue))
      BY <2>1 DEF Events, Distinct
    <2>3. \/ stored' = stored \cup {e} /\ lost' = lost
          \/ lost' = lost \cup {e} /\ stored' = stored
      BY <2>1 DEF Keep
    <2>4. /\ (logged = Events(queue) \cup Events(batch) \cup spilled \cup stored \cup lost)'
          /\ (Events(queue) \cap (Events(batch) \cup spilled \cup stored \cup lost) = {})'
          /\ (Events(batch) \cap (spilled \cup stored \cup lost) = {})'
          /\ (spilled \cap (stored \cup lost) = {})' /\ (stored \cap lost = {})'
      BY <2>1, <2>2, <2>3, <1>i DEF EventInv
    <2> QED
      BY <2>1, <2>2, <2>4 DEF EventInv
  <1>6. CASE RestartApi
    <2>1. /\ readers' = {} /\ queue' = <<>> /\ batch' = <<>> /\ spilled' = {} /\ lost' = logged \ stored
          /\ audits' = audits + 1 /\ UNCHANGED <<stored, logged>>
      BY <1>6 DEF RestartApi, Once
    <2>2. Events(queue)' = {} /\ Events(batch)' = {} /\ Distinct(queue)' /\ queue' \in Seq(Nat) /\ batch' \in Seq(Nat)
      BY <2>1 DEF Events, Distinct
    <2>3. stored \subseteq logged
      BY DEF EventInv
    <2>4. \A e \in logged' : e \in Nat /\ e < audits'
      BY <2>1, <1>0 DEF EventInv
    <2> QED
      BY <2>1, <2>2, <2>3, <2>4 DEF EventInv
  <1>7. CASE \/ \E u \in updates : CommitUpdate(u) \/ StoreUpdate(u) \/ SaveAnswered(u) \/ SaveFailed(u)
             \/ \E l \in loads : ServeConfig(l) \/ StoreRead(l) \/ LogAnswered(l) \/ LogFailed(l)
             \/ \E w \in AuditSpaces, c \in AuditSettings : OtherUpdate(w, c)
             \/ ResetFilters \/ CancelSettings \/ SaveSettings \/ Remount
             \/ \E s \in FilterValues : SetFilter(s)
             \/ \E p \in 1..MaxPage : GoToPage(p)
             \/ \E c \in AuditSettings : TypeSettings(c)
             \/ \E w \in AuditSpaces \cup {NoAudit} : SwitchAudit(w)
             \/ UNCHANGED auditVars
    <2>1. UNCHANGED <<queue, batch, spilled, stored, logged, lost, readers>> /\ audits' \in {audits, audits + 1}
      BY <1>7 DEF CommitUpdate, StoreUpdate, SaveAnswered, SaveFailed, ServeConfig, StoreRead, LogAnswered,
                  ShowLog, LogFailed, OtherUpdate, ResetFilters, CancelSettings, SaveSettings, Remount, SetFilter,
                  GoToPage, TypeSettings, SwitchAudit, Once, settingsVars, eventVars, auditVars
    <2>2. Events(batch)' = Events(batch) /\ Events(queue)' = Events(queue) /\ (Distinct(queue)' <=> Distinct(queue))
      BY <2>1 DEF Events, Distinct
    <2>3. /\ \A e \in logged' : e \in Nat /\ e < audits'
          /\ \A r \in readers' : r.event < audits'
      BY <2>1, <1>0 DEF EventInv
    <2> QED
      BY <2>1, <2>2, <2>3 DEF EventInv
  <1> QED
    BY <1>1, <1>2, <1>3, <1>4, <1>5, <1>6, <1>7 DEF AuditNext

-----------------------------------------------------------------------------
AuditInv == LogTypes /\ PanelInv /\ CacheInv /\ EventInv

LEMMA AuditStarts ==
  ASSUME AuditAssumption, AuditSpaces # {}, AuditInit
  PROVE  AuditInv
  <1>1. NoFilter \in FilterValues /\ 1 \in 1 .. MaxPage /\ Defaults \in AuditSettings
    BY DEF AuditAssumption
  <1>2. resolved \in AuditSpaces
    BY DEF AuditInit
  <1>3. /\ Query(resolved, filters, page) \in Loads /\ Query(resolved, filters, page).at = "sent"
        /\ Query(resolved, filters, page).space = resolved
    <2>1. filters \in FilterValues /\ page \in 1 .. MaxPage
      BY <1>1 DEF AuditInit
    <2>2. Query(resolved, filters, page) \in Loads
      BY <1>2, <2>1, Asking
    <2> QED
      BY <2>2 DEF Query
  <1>4. Query(resolved, filters, page).filters = filters /\ Query(resolved, filters, page).page = page
    BY DEF Query
  <1>5. resolved # NoAudit
    BY <1>2 DEF AuditAssumption
  <1>6. LogTypes
    BY <1>1, <1>2, <1>3 DEF LogTypes, SettingsTypes, PanelTypes, AuditInit, Config, Form
  <1>7. PanelInv
    BY <1>3, <1>4, <1>5 DEF PanelInv, PanelShowsItsQuery, AuditInit
  <1>8. CacheInv
    BY <1>3 DEF CacheInv, AuditInit
  <1>9. EventInv
    BY DEF EventInv, AuditInit, Events, Distinct
  <1> QED
    BY <1>6, <1>7, <1>8, <1>9 DEF AuditInv

\* The settings that the API keeps in its cache are those of the row, unless
\* they were changed under a request that used them, and each event that was
\* to be logged is in exactly one place (audit_logs_query.py, audit_logs_bootstrap.py).
THEOREM AuditStaysAgreed == AuditSpaces # {} => (AuditSpec => []AuditAgrees)
  <1> SUFFICES ASSUME AuditSpaces # {} PROVE AuditSpec => []AuditAgrees
    OBVIOUS
  <1>1. AuditInit => AuditInv
    BY AuditStarts, AuditAssumption
  <1>2. AuditInv /\ [AuditNext]_auditVars => AuditInv'
    BY SettingsTypesStep, PanelTypesStep, PanelStep, CacheStep, EventStep, AuditAssumption DEF AuditInv, LogTypes
  <1>3. AuditInv => AuditAgrees
    <2>1. CacheInv => CacheIsRow
      BY DEF CacheInv, CacheIsRow, Storing
    <2> QED
      BY <2>1, Accounted DEF AuditInv, AuditAgrees
  <1> QED
    BY <1>1, <1>2, <1>3, PTL DEF AuditSpec

\* However the answers come, a panel that is not loading and has not failed
\* shows the entries of its fields and the settings of its workspace
\* (AuditLogsPanel.tsx).
THEOREM AuditPanelShowsItsQuery == AuditSpaces # {} => (AuditSpec => []PanelShowsItsQuery)
  <1> SUFFICES ASSUME AuditSpaces # {} PROVE AuditSpec => []PanelShowsItsQuery
    OBVIOUS
  <1>1. AuditInit => AuditInv
    BY AuditStarts, AuditAssumption
  <1>2. AuditInv /\ [AuditNext]_auditVars => AuditInv'
    BY SettingsTypesStep, PanelTypesStep, PanelStep, CacheStep, EventStep, AuditAssumption DEF AuditInv, LogTypes
  <1>3. AuditInv => PanelShowsItsQuery
    BY DEF AuditInv, PanelInv
  <1> QED
    BY <1>1, <1>2, <1>3, PTL DEF AuditSpec

-----------------------------------------------------------------------------
(***************************************************************************)
(* The types of the parts, from here on: beside the invariants above, what  *)
(* is left of the types of each is an invariant of its steps.               *)
(***************************************************************************)
\* The rest of the types of the frame.
Users == Names \cup {NoName}
Dialog == [open : BOOLEAN, mode : {"login", "register"}, pending : Gated \cup {"none"}]
ShellRest ==
  /\ storedName \in Users /\ queryName \in Users /\ copies \in [Readers -> Users]
  /\ address.panel \in Front \cup Gated \cup {"none"} /\ front \in Front
  /\ accountTab \in Gated \cup {"general"} /\ auth \in Dialog /\ asksExpert \in BOOLEAN
  /\ pass \in {"mount", "opened", "render", "idle"} /\ done \in 0 .. MaxActs

LEMMA FrontPanels == Front = {"store", "inventory", "order", "deploy", "account"}
  <1>1. DOMAIN Panels = 1 .. 5
    BY DEF Panels
  <1>2. 1 .. 5 = {1, 2, 3, 4, 5}
    OBVIOUS
  <1> QED
    BY <1>1, <1>2 DEF Front, Panels

LEMMA Dialogs ==
  /\ NoDialog \in Dialog
  /\ \A t \in Gated \cup {"none"}, m \in {"login", "register"} : [open |-> TRUE, mode |-> m, pending |-> t] \in Dialog
  /\ \A d \in Dialog :
       /\ [d EXCEPT !.pending = "none"] \in Dialog /\ [d EXCEPT !.open = FALSE, !.pending = "none"] \in Dialog
       /\ [d EXCEPT !.open = TRUE] \in Dialog
       /\ [d EXCEPT !.mode = IF @ = "login" THEN "register" ELSE "login"] \in Dialog
  BY DEF NoDialog, Dialog, Gated

LEMMA SyncTypes ==
  ASSUME ShellRest, NEW name \in Users, Sync(name)
  PROVE  storedName' \in Users /\ queryName' \in Users /\ copies' \in [Readers -> Users]
  <1>1. Resolved(name) \in Users
    BY DEF ShellRest, Resolved
  <1> QED
    BY <1>1 DEF Sync, ShellRest

LEMMA Turns ==
  ASSUME done \in 0 .. MaxActs, done < MaxActs, done' = done + 1
  PROVE  done' \in 0 .. MaxActs
  BY ShellAssumption

\* The URL: only the effects and what opens a workspace write it.
LEMMA AddressTypes ==
  ASSUME ViewInv, ShellRest
  PROVE  /\ WriteAddress => address'.panel \in Front \cup Gated \cup {"none"}
         /\ \A h : [address EXCEPT !.home = h].panel = address.panel
  <1>1. DOMAIN address = {"panel", "mode", "home"}
    BY DEF ViewInv
  <1>2. \A h : [address EXCEPT !.home = h].panel = address.panel
    BY <1>1
  <1>3. ASSUME WriteAddress PROVE address'.panel \in Front
    <2>1. address' = [address EXCEPT !.panel = front, !.mode = mode]
      BY <1>3 DEF WriteAddress
    <2>2. address'.panel = front
      BY <1>1, <2>1
    <2> QED
      BY <2>2 DEF ShellRest
  <1> QED
    BY <1>2, <1>3

LEMMA ShellRestInitially == ShellInit => ShellRest
  <1> SUFFICES ASSUME ShellInit PROVE ShellRest
    OBVIOUS
  <1>1. address.panel \in {"none", "deploy", "billing", "rbac"}
    BY DEF ShellInit, Gated
  <1>2. front \in Front /\ address.panel \in Front \cup Gated \cup {"none"}
    BY <1>1, FrontPanels DEF ShellInit, Fresh, PanelOf, Gated
  <1>3. 0 \in 0 .. MaxActs
    BY ShellAssumption
  <1>4. copies \in [Readers -> Users]
    BY DEF ShellInit, Users
  <1> QED
    BY <1>2, <1>3, <1>4, Dialogs DEF ShellInit, Fresh, ShellRest, Users

LEMMA ShellRestStep ==
  ASSUME ViewInv, ShellRest, [ShellNext]_shellVars
  PROVE  ShellRest'
  <1> USE DEF session, kept, view, shellHistory
  <1>1. CASE UNCHANGED shellVars
    BY <1>1 DEF shellVars, ShellRest
  <1>2. CASE ElsewhereSigned
    BY <1>2, Turns DEF ElsewhereSigned, ShellRest, Users
  <1>3. CASE StorageEvent
    <2>1. storedName' \in Users /\ queryName' \in Users /\ copies' \in [Readers -> Users]
      BY <1>3, SyncTypes DEF StorageEvent, ShellRest
    <2> QED
      BY <1>3, <2>1 DEF StorageEvent, ShellRest
  <1>4. CASE Mount
    <2>1. storedName' \in Users /\ queryName' \in Users /\ copies' \in [Readers -> Users]
      BY <1>4, SyncTypes DEF Mount, ShellRest
    <2>2. address'.panel \in Front \cup Gated \cup {"none"}
      BY <1>4, AddressTypes DEF Mount
    <2>3. accountTab' \in Gated \cup {"general"}
      BY <1>4 DEF Mount
    <2> QED
      BY <1>4, <2>1, <2>2, <2>3 DEF Mount, ShellRest
  <1>5. CASE Effects
    <2>1. address'.panel \in Front \cup Gated \cup {"none"}
      BY <1>5, AddressTypes DEF Effects
    <2>2. accountTab' \in Gated \cup {"general"} /\ auth' \in Dialog
      BY <1>5, Dialogs DEF Effects, GateEffect, MustAsk, ShellRest
    <2>3. UNCHANGED <<storedName, queryName, copies, front, done>>
      BY <1>5 DEF Effects
    <2>4. pass' \in {"render", "idle"} /\ asksExpert' \in BOOLEAN
      BY <1>5 DEF Effects
    <2> QED
      BY <2>1, <2>2, <2>3, <2>4 DEF ShellRest
  <1>6. CASE Reload
    <2>1. address.panel = front
      BY <1>6 DEF Reload, ViewInv
    <2>2. copies' \in [Readers -> Users]
      BY <1>6 DEF Reload, Users
    <2>3. done' \in 0 .. MaxActs
      BY <1>6, Turns DEF Reload, ShellRest
    <2>4. auth' \in Dialog
      BY <1>6, Dialogs DEF Reload
    <2>5. UNCHANGED <<storedName, queryName, address>> /\ front' = address.panel /\ pass' = "mount"
          /\ asksExpert' = FALSE /\ accountTab' = "general"
      BY <1>6 DEF Reload
    <2> QED
      BY <2>1, <2>2, <2>3, <2>4, <2>5 DEF ShellRest
  <1> USE DEF Turn, Act, OnPage, InSettings
  <1>7. CASE (\E p \in Front : SelectPanel(p)) \/ Browse(1) \/ Browse(-1) \/ ToggleMode \/ \E yes \in BOOLEAN : AnswerExpert(yes)
    <2>1. UNCHANGED <<storedName, queryName, copies, address, accountTab, auth>> /\ pass' = "render"
      BY <1>7 DEF SelectPanel, Browse, ToggleMode, AnswerExpert
    <2>2. done' \in 0 .. MaxActs
      BY <1>7, Turns DEF SelectPanel, Browse, ToggleMode, AnswerExpert, ShellRest
    <2>3. front' \in Front
      BY <1>7 DEF SelectPanel, Browse, ToggleMode, AnswerExpert, ShellRest, Front, VisiblePanels
    <2>4. asksExpert' \in BOOLEAN
      BY <1>7 DEF SelectPanel, Browse, ToggleMode, AnswerExpert, ShellRest
    <2> QED
      BY <2>1, <2>2, <2>3, <2>4 DEF ShellRest
  <1>8. ASSUME NEW h \in Homes \cup {NoHome}, OpenHome(h) PROVE ShellRest'
    <2>1. address'.panel = address.panel
      BY <1>8, AddressTypes DEF OpenHome
    <2>2. done' \in 0 .. MaxActs
      BY <1>8, Turns DEF OpenHome, ShellRest
    <2> QED
      BY <1>8, <2>1, <2>2 DEF OpenHome, ShellRest
  <1>9. CASE HeaderAuth
    <2>1. Resolved(NoName) \in Users
      BY DEF Resolved, ShellRest, Users
    <2>2. storedName' \in Users /\ queryName' \in Users /\ copies' \in [Readers -> Users]
      BY <1>9, <2>1 DEF HeaderAuth, ShellRest, Users
    <2>3. auth' \in Dialog
      BY <1>9 DEF HeaderAuth, ShellRest, Dialog, NoDialog
    <2>4. done' \in 0 .. MaxActs
      BY <1>9, Turns DEF HeaderAuth, ShellRest
    <2> QED
      BY <1>9, <2>2, <2>3, <2>4 DEF HeaderAuth, ShellRest
  <1>10. ASSUME NEW t \in Gated \cup {"general"}, SelectTab(t) PROVE ShellRest'
    <2>1. accountTab' \in Gated \cup {"general"} /\ auth' \in Dialog
      BY <1>10, Dialogs DEF SelectTab, ShellRest
    <2>2. done' \in 0 .. MaxActs
      BY <1>10, Turns DEF SelectTab, ShellRest
    <2> QED
      BY <1>10, <2>1, <2>2 DEF SelectTab, ShellRest
  <1>11. ASSUME NEW how \in {"login", "register"}, OpenAuth(how) PROVE ShellRest'
    <2>1. auth' \in Dialog
      BY <1>11, Dialogs DEF OpenAuth
    <2>2. done' \in 0 .. MaxActs
      BY <1>11, Turns DEF OpenAuth, ShellRest
    <2> QED
      BY <1>11, <2>1, <2>2 DEF OpenAuth, ShellRest
  <1>12. CASE Logout
    <2>1. storedName' \in Users /\ queryName' \in Users /\ copies' \in [Readers -> Users]
      BY <1>12, SyncTypes DEF Logout, Users
    <2>2. auth' \in Dialog
      BY <1>12, Dialogs DEF Logout, ShellRest
    <2>3. done' \in 0 .. MaxActs
      BY <1>12, Turns DEF Logout, ShellRest
    <2> QED
      BY <1>12, <2>1, <2>2, <2>3 DEF Logout, ShellRest
  <1>13. CASE CloseAuth \/ SwitchAuth
    <2>1. auth' \in Dialog
      BY <1>13, Dialogs DEF CloseAuth, SwitchAuth, ShellRest
    <2>2. done' \in 0 .. MaxActs
      BY <1>13, Turns DEF CloseAuth, SwitchAuth, ShellRest
    <2> QED
      BY <1>13, <2>1, <2>2 DEF CloseAuth, SwitchAuth, ShellRest
  <1>14. ASSUME NEW n \in Names, SubmitAuth(n) PROVE ShellRest'
    <2>1. storedName' \in Users /\ queryName' \in Users /\ copies' \in [Readers -> Users]
      BY <1>14, SyncTypes DEF SubmitAuth, Users
    <2>2. auth' \in Dialog
      BY <1>14, Dialogs DEF SubmitAuth, ShellRest
    <2>3. accountTab' \in Gated \cup {"general"}
      BY <1>14 DEF SubmitAuth, ShellRest, Dialog
    <2>4. done' \in 0 .. MaxActs
      BY <1>14, Turns DEF SubmitAuth, ShellRest
    <2> QED
      BY <1>14, <2>1, <2>2, <2>3, <2>4 DEF SubmitAuth, ShellRest
  <1> QED
    BY <1>1, <1>2, <1>3, <1>4, <1>5, <1>6, <1>7, <1>8, <1>9, <1>10, <1>11, <1>12, <1>13, <1>14 DEF ShellNext

LEMMA ShellTyped == ShellSpec => []ShellTypeOK
  <1>1. ShellInv /\ ShellRest /\ [ShellNext]_shellVars => ShellInv' /\ ShellRest'
    <2> SUFFICES ASSUME ShellInv, ShellRest, [ShellNext]_shellVars PROVE ShellInv' /\ ShellRest'
      OBVIOUS
    <2>1. SessionInv' /\ {news, revived}' \subseteq BOOLEAN
      BY SessionStep DEF ShellInv
    <2>2. ViewInv' /\ ShellRest'
      BY ViewStep, ShellRestStep DEF ShellInv
    <2> QED
      BY <2>1, <2>2 DEF ShellInv
  <1>2. ShellInv /\ ShellRest => ShellTypeOK
    <2> SUFFICES ASSUME ShellInv, ShellRest PROVE ShellTypeOK
      OBVIOUS
    <2>1. news \in BOOLEAN /\ asksExpert \in BOOLEAN /\ auth.open \in BOOLEAN /\ revived \in BOOLEAN
      BY DEF ShellInv, ShellRest, Dialog
    <2>2. {news, asksExpert, auth.open, revived} \subseteq BOOLEAN
      BY <2>1, Zenon
    <2>3. auth.pending \in Gated \cup {"none"}
      BY DEF ShellRest, Dialog
    <2>4. address.home \in Homes \cup {NoHome} /\ home \in Homes \cup {NoHome}
      BY DEF ShellInv, ViewInv
    <2> QED
      BY <2>2, <2>3, <2>4 DEF ShellInv, ViewInv, ShellRest, ShellTypeOK, Users
  <1> QED
    BY <1>1, <1>2, ShellInitially, ShellRestInitially, PTL DEF ShellSpec

\* The rest of the types of bill, order and servers.
OrderForm == [typed : SUBSET Shops, complete : BOOLEAN]
OrderTab == [open : BOOLEAN, step : {"overview", "form"}, form : OrderForm, submitting : BOOLEAN,
             confirmed : Shops \cup {NoShop}]
ServerSearch == [open : BOOLEAN, target : Aliases \cup {NoAlias}, offers : SUBSET Offers, loading : BOOLEAN,
                 busy : Offers \cup {NoAlias}]
BillRest == carts \in [Shops -> Carts] /\ team \in Seats /\ bill.seats \in Seats /\ buys \in 0 .. MaxBuys
FormRest == drafts \in [Shops -> OrderForm] /\ tab \in OrderTab
HireRest ==
  /\ search \in ServerSearch /\ servers \subseteq Aliases /\ fleet \in [Shops -> SUBSET Aliases]
  /\ \A h \in hires : h.alias \in Aliases
OrdersRest == BillRest /\ FormRest /\ HireRest

LEMMA Bought ==
  ASSUME buys \in 0 .. MaxBuys, Buy
  PROVE  buys' \in 0 .. MaxBuys
  BY OrdersAssumption DEF Buy

LEMMA OrdersRestInitially ==
  ASSUME OrdersInit
  PROVE  OrdersRest
  <1>1. carts \in [Shops -> Carts]
    <2>1. \A c \in {"unset", "absent"} : [p \in Machines \X Apps |-> c] \in Carts
      BY DEF Carts, Selection
    <2> QED
      BY <2>1 DEF OrdersInit
  <1>2. BillRest
    BY <1>1, OrdersAssumption DEF OrdersInit, BillRest, NoBill, Seats
  <1>3. EmptyForm \in OrderForm
    BY DEF EmptyForm, OrderForm
  <1>4. FormRest
    BY <1>3 DEF OrdersInit, FormRest, NoTab, OrderTab
  <1>5. HireRest
    BY DEF OrdersInit, HireRest, NoSearch, ServerSearch
  <1> QED
    BY <1>2, <1>4, <1>5 DEF OrdersRest

\* The bill.  A bill keeps its shape, so what its passes count is a number of users.
LEMMA BillSeats ==
  ASSUME IsBill(bill)
  PROVE  /\ Due(bill).seats = bill.seats
         /\ \A s : Due([bill EXCEPT !.seats = s]).seats = s
         /\ \A s, d, l, r : [bill EXCEPT !.seats = s, !.due = d, !.loading = l, !.rows = r].seats = s
         /\ \A r : [bill EXCEPT !.loading = FALSE, !.rows = r].seats = bill.seats
  BY DEF IsBill, Due

LEMMA BillRestStep ==
  ASSUME BillInv, FormInv, BillRest, [OrdersNext]_ordersVars
  PROVE  BillRest'
  <1> USE DEF billVars
  <1>0. IsBill(bill) /\ shop \in Shops
    BY DEF BillInv, FormInv
  <1>1. CASE UNCHANGED ordersVars
    BY <1>1 DEF ordersVars, BillRest
  <1>2. ASSUME NEW p \in Machines \X Apps, NEW choice \in Selection, ChangeCart(p, choice) PROVE BillRest'
    <2>1. /\ carts' = [carts EXCEPT ![shop][p] = choice] /\ bill' = Due(bill) /\ team' = team
      BY <1>2 DEF ChangeCart
    <2>2. carts' \in [Shops -> Carts]
      BY <1>0, <2>1 DEF BillRest, Carts
    <2>3. bill'.seats = bill.seats
      BY <1>0, <2>1, BillSeats
    <2>4. buys' \in 0 .. MaxBuys
      BY <1>2, Bought DEF ChangeCart, BillRest
    <2> QED
      BY <2>1, <2>2, <2>3, <2>4 DEF BillRest
  <1>3. ASSUME NEW s \in Shops, SwitchShop(s) PROVE BillRest'
    <2>1. bill' = Due(bill) /\ UNCHANGED <<carts, team>>
      BY <1>3 DEF SwitchShop
    <2>2. bill'.seats = bill.seats
      BY <1>0, <2>1, BillSeats
    <2>3. buys' \in 0 .. MaxBuys
      BY <1>3, Bought DEF SwitchShop, BillRest
    <2> QED
      BY <2>1, <2>2, <2>3 DEF BillRest
  <1>4. ASSUME NEW n \in Seats, CountUsers(n) PROVE BillRest'
    BY <1>4, Bought DEF CountUsers, BillRest
  <1>5. CASE UsersUpdated
    <2>1. bill' = (IF bill.open /\ bill.seats # team THEN Due([bill EXCEPT !.seats = team]) ELSE bill)
          /\ UNCHANGED <<carts, team, buys>>
      BY <1>5 DEF UsersUpdated
    <2>2. bill'.seats \in Seats
      BY <1>0, <2>1, BillSeats DEF BillRest
    <2> QED
      BY <2>1, <2>2 DEF BillRest
  <1>6. CASE OpenBilling \/ LeaveBilling
    <2>1. UNCHANGED <<carts, team>> /\ bill' \in {[NoBill EXCEPT !.open = TRUE, !.due = TRUE], NoBill}
      BY <1>6 DEF OpenBilling, LeaveBilling
    <2>3. bill'.seats = 1
      <3>1. [NoBill EXCEPT !.open = TRUE, !.due = TRUE].seats = 1 /\ NoBill.seats = 1
        BY DEF NoBill
      <3> HIDE DEF NoBill
      <3> QED
        BY <2>1, <3>1
    <2>2. buys' \in 0 .. MaxBuys
      BY <1>6, Bought DEF OpenBilling, LeaveBilling, BillRest
    <2> QED
      BY <2>1, <2>2, <2>3 DEF BillRest, Seats
  <1>7. CASE FetchQuotes
    <2>1. PICK d, l, r : bill' = [bill EXCEPT !.seats = team, !.due = d, !.loading = l, !.rows = r]
      <3>1. bill' = [bill EXCEPT !.seats = team, !.due = (bill.seats # team), !.loading = (Groups(cart) # {}),
                                 !.rows = IF Groups(cart) = {} THEN {} ELSE bill.rows]
        BY <1>0, <1>7 DEF FetchQuotes, IsBill
      <3> QED
        BY <3>1
    <2>2. bill'.seats = team
      BY <1>0, <2>1, BillSeats
    <2> QED
      BY <1>7, <2>2 DEF FetchQuotes, BillRest
  <1>8. ASSUME NEW q \in quotes, Quoted(q) PROVE BillRest'
    <2>1. PICK r : bill' = [bill EXCEPT !.loading = FALSE, !.rows = r]
      BY <1>8 DEF Quoted
    <2>2. bill'.seats = bill.seats
      BY <1>0, <2>1, BillSeats
    <2> QED
      BY <1>8, <2>2 DEF Quoted, BillRest
  <1>9. CASE \/ OpenOrderTab \/ LeaveOrderTab \/ Submit \/ CloseSearch
             \/ \E step \in {"overview", "form"} : Checkout(step)
             \/ \E complete \in BOOLEAN : UpdateField(complete)
             \/ \E target \in servers \cup {NoAlias} : OpenSearch(target)
             \/ \E offer \in Offers : PlaceServerOrder(offer)
    <2>1. UNCHANGED <<carts, team, bill>>
      BY <1>9 DEF OpenOrderTab, LeaveOrderTab, Submit, CloseSearch, Checkout, UpdateField, OpenSearch, PlaceServerOrder
    <2>2. buys' \in 0 .. MaxBuys
      BY <1>9, Bought DEF OpenOrderTab, LeaveOrderTab, Submit, CloseSearch, Checkout, UpdateField, OpenSearch,
         PlaceServerOrder, BillRest
    <2> QED
      BY <2>1, <2>2 DEF BillRest
  <1>10. CASE \/ OffersLoaded \/ \E c \in checkouts : PlaceOrder(c) \/ OrderAnswered(c)
              \/ \E h \in hires : ServerOrdered(h) \/ ServerReported(h)
    <2>1. UNCHANGED <<carts, team, bill, buys>>
      BY <1>10 DEF OffersLoaded, PlaceOrder, OrderAnswered, ServerOrdered, ServerReported
    <2> QED
      BY <2>1 DEF BillRest
  <1> QED
    BY <1>1, <1>2, <1>3, <1>4, <1>5, <1>6, <1>7, <1>8, <1>9, <1>10 DEF OrdersNext

\* The order.
LEMMA Tabs ==
  /\ EmptyForm \in OrderForm /\ NoTab \in OrderTab
  /\ \A f \in OrderForm : [NoTab EXCEPT !.open = TRUE, !.form = f] \in OrderTab
  /\ \A t \in OrderTab :
       /\ t.form \in OrderForm
       /\ \A s \in {"overview", "form"} : [t EXCEPT !.step = s] \in OrderTab
       /\ \A f \in OrderForm : [t EXCEPT !.form = f, !.confirmed = NoShop] \in OrderTab
       /\ [t EXCEPT !.submitting = TRUE] \in OrderTab
       /\ \A s \in Shops \cup {NoShop} : [t EXCEPT !.submitting = FALSE, !.confirmed = s] \in OrderTab
  BY DEF EmptyForm, OrderForm, NoTab, OrderTab

LEMMA FormRestStep ==
  ASSUME FormInv, FormRest, [OrdersNext]_ordersVars
  PROVE  FormRest'
  <1> USE DEF formVars
  <1>0. shop \in Shops /\ tab \in OrderTab /\ drafts \in [Shops -> OrderForm]
    BY DEF FormInv, FormRest
  <1>1. CASE UNCHANGED ordersVars
    BY <1>1 DEF ordersVars, FormRest
  <1>2. CASE OpenOrderTab
    <2>1. tab' = [NoTab EXCEPT !.open = TRUE, !.form = drafts[shop]] /\ UNCHANGED drafts
      BY <1>2 DEF OpenOrderTab
    <2> QED
      BY <1>0, <2>1, Tabs DEF FormRest
  <1>3. CASE LeaveOrderTab
    BY <1>0, <1>3, Tabs DEF LeaveOrderTab, FormRest
  <1>4. ASSUME NEW step \in {"overview", "form"}, Checkout(step) PROVE FormRest'
    <2>1. tab' = [tab EXCEPT !.step = step] /\ UNCHANGED drafts
      BY <1>4 DEF Checkout
    <2> QED
      BY <1>0, <2>1, Tabs DEF FormRest
  <1>5. ASSUME NEW complete \in BOOLEAN, UpdateField(complete) PROVE FormRest'
    <2> DEFINE filled == [typed |-> tab.form.typed \cup {shop}, complete |-> complete]
    <2>1. tab' = [tab EXCEPT !.form = filled, !.confirmed = NoShop] /\ drafts' = [drafts EXCEPT ![shop] = filled]
      BY <1>5 DEF UpdateField
    <2>2. tab.form \in OrderForm
      BY <1>0, Tabs
    <2>3. filled \in OrderForm
      BY <1>0, <2>2 DEF OrderForm
    <2> HIDE DEF filled
    <2>4. tab' \in OrderTab
      BY <1>0, <2>1, <2>3, Tabs
    <2>5. drafts' \in [Shops -> OrderForm]
      BY <1>0, <2>1, <2>3
    <2> QED
      BY <2>4, <2>5 DEF FormRest
  <1>6. CASE Submit
    <2>1. tab' = [tab EXCEPT !.submitting = TRUE] /\ UNCHANGED drafts
      BY <1>6 DEF Submit
    <2> QED
      BY <1>0, <2>1, Tabs DEF FormRest
  <1>7. ASSUME NEW c \in checkouts, OrderAnswered(c) PROVE FormRest'
    <2>1. PICK confirmed \in {c.state = "placed", FALSE} :
            /\ drafts' = IF confirmed THEN [drafts EXCEPT ![c.shop] = EmptyForm] ELSE drafts
            /\ tab' = IF c.shown
                      THEN [tab EXCEPT !.submitting = FALSE, !.confirmed = IF confirmed THEN c.shop ELSE @]
                      ELSE tab
      BY <1>7 DEF OrderAnswered
    <2>2. c.shop \in Shops
      BY DEF FormInv
    <2>3. drafts' \in [Shops -> OrderForm]
      BY <1>0, <2>1, <2>2, Tabs
    <2>4. tab.confirmed \in Shops \cup {NoShop}
      BY <1>0 DEF OrderTab
    <2>5. PICK s \in Shops \cup {NoShop} : tab' \in {[tab EXCEPT !.submitting = FALSE, !.confirmed = s], tab}
      <3> DEFINE s == IF confirmed THEN c.shop ELSE tab.confirmed
      <3>1. s \in Shops \cup {NoShop}
        BY <2>2, <2>4
      <3>2. tab' \in {[tab EXCEPT !.submitting = FALSE, !.confirmed = s], tab}
        BY <1>0, <2>1 DEF OrderTab
      <3> QED
        BY <3>1, <3>2
    <2>6. [tab EXCEPT !.submitting = FALSE, !.confirmed = s] \in OrderTab
      BY <1>0, Tabs
    <2>7. tab' \in OrderTab
      BY <1>0, <2>5, <2>6
    <2> QED
      BY <2>3, <2>7 DEF FormRest
  <1>8. ASSUME NEW s \in Shops, SwitchShop(s) PROVE FormRest'
    <2>1. tab' = (IF tab.open THEN [tab EXCEPT !.form = drafts[s], !.confirmed = NoShop] ELSE tab) /\ UNCHANGED drafts
      BY <1>8 DEF SwitchShop
    <2>2. drafts[s] \in OrderForm
      BY <1>0
    <2> QED
      BY <1>0, <2>1, <2>2, Tabs DEF FormRest
  <1>9. CASE UNCHANGED <<tab, drafts>>
    BY <1>9 DEF FormRest
  <1>10. CASE \/ \E p \in Machines \X Apps, choice \in Selection : ChangeCart(p, choice)
              \/ \E n \in Seats : CountUsers(n)
              \/ UsersUpdated \/ OpenBilling \/ LeaveBilling \/ FetchQuotes \/ \E q \in quotes : Quoted(q)
              \/ \E c \in checkouts : PlaceOrder(c)
              \/ \E target \in servers \cup {NoAlias} : OpenSearch(target)
              \/ OffersLoaded \/ CloseSearch \/ \E offer \in Offers : PlaceServerOrder(offer)
              \/ \E h \in hires : ServerOrdered(h) \/ ServerReported(h)
    <2>1. UNCHANGED <<tab, drafts>>
      BY <1>10 DEF ChangeCart, CountUsers, UsersUpdated, OpenBilling, LeaveBilling, FetchQuotes, Quoted, PlaceOrder,
         OpenSearch, OffersLoaded, CloseSearch, PlaceServerOrder, ServerOrdered, ServerReported
    <2> QED
      BY <2>1, <1>9
  <1> QED
    BY <1>1, <1>2, <1>3, <1>4, <1>5, <1>6, <1>7, <1>8, <1>10 DEF OrdersNext

\* The servers.
LEMMA Searches ==
  /\ NoSearch \in ServerSearch
  /\ \A t \in Aliases \cup {NoAlias} : [NoSearch EXCEPT !.open = TRUE, !.target = t, !.loading = TRUE] \in ServerSearch
  /\ \A f \in ServerSearch :
       /\ f.target \in Aliases \cup {NoAlias} /\ f.offers \subseteq Offers
       /\ \A o \in SUBSET Offers : [f EXCEPT !.loading = FALSE, !.offers = o] \in ServerSearch
       /\ \A o \in Offers \cup {NoAlias} : [f EXCEPT !.busy = o] \in ServerSearch
  BY DEF NoSearch, ServerSearch

LEMMA HireRestStep ==
  ASSUME HireInv, HireRest, [OrdersNext]_ordersVars
  PROVE  HireRest'
  <1> USE DEF hireVars
  <1>0. /\ shop \in Shops /\ search \in ServerSearch /\ servers \subseteq Aliases
        /\ fleet \in [Shops -> SUBSET Aliases]
        /\ \A h \in hires : h.alias \in Aliases /\ h.shop \in Shops
        /\ \A h \in hires : h = [shop |-> h.shop, state |-> h.state, shown |-> h.shown, alias |-> h.alias]
    BY DEF HireInv, HireRest
  <1>1. CASE UNCHANGED ordersVars
    BY <1>1 DEF ordersVars, HireRest
  <1>2. ASSUME NEW target \in servers \cup {NoAlias}, OpenSearch(target) PROVE HireRest'
    <2>1. target \in Aliases \cup {NoAlias}
      BY <1>0
    <2>2. search' = [NoSearch EXCEPT !.open = TRUE, !.target = target, !.loading = TRUE]
          /\ UNCHANGED <<servers, hires, fleet>>
      BY <1>2 DEF OpenSearch
    <2> QED
      BY <2>1, <2>2, Searches DEF HireRest
  <1>3. CASE OffersLoaded
    <2>1. PICK o \in SUBSET Offers : search' = [search EXCEPT !.loading = FALSE, !.offers = o]
      BY <1>3 DEF OffersLoaded
    <2>2. UNCHANGED <<servers, hires, fleet>>
      BY <1>3 DEF OffersLoaded
    <2> QED
      BY <1>0, <2>1, <2>2, Searches DEF HireRest
  <1>4. CASE CloseSearch
    <2>1. search' = NoSearch /\ hires' = {[h EXCEPT !.shown = FALSE] : h \in hires} /\ UNCHANGED <<servers, fleet>>
      BY <1>4 DEF CloseSearch
    <2>2. \A h \in hires : [h EXCEPT !.shown = FALSE].alias = h.alias
      BY <1>0
    <2>3. \A h \in hires' : h.alias \in Aliases
      BY <1>0, <2>1, <2>2
    <2> QED
      BY <2>1, <2>3, Searches DEF HireRest
  <1>5. ASSUME NEW offer \in Offers, PlaceServerOrder(offer) PROVE HireRest'
    <2> DEFINE name == IF search.target = NoAlias THEN <<shop, offer>> ELSE search.target
    <2>1. /\ search' = [search EXCEPT !.busy = offer] /\ UNCHANGED <<servers, fleet>>
          /\ hires' = hires \cup {[shop |-> shop, state |-> "sent", shown |-> TRUE, alias |-> name]}
      BY <1>5 DEF PlaceServerOrder
    <2>2. name \in Aliases
      BY <1>0, Searches DEF Aliases
    <2> HIDE DEF name
    <2>3. \A h \in hires' : h.alias \in Aliases
      BY <1>0, <2>1, <2>2
    <2>4. search' \in ServerSearch
      BY <1>0, <2>1, Searches
    <2> QED
      BY <1>0, <2>1, <2>3, <2>4 DEF HireRest
  <1>6. ASSUME NEW h \in hires, ServerOrdered(h) PROVE HireRest'
    <2>1. PICK state \in {"ordered", "refused"} :
            /\ hires' = (hires \ {h}) \cup {[h EXCEPT !.state = state]}
            /\ fleet' = IF state = "refused" THEN fleet ELSE [fleet EXCEPT ![h.shop] = @ \cup {h.alias}]
      BY <1>6 DEF ServerOrdered
    <2>2. UNCHANGED <<search, servers>>
      BY <1>6 DEF ServerOrdered
    <2>3. [h EXCEPT !.state = state].alias = h.alias
      BY <1>0
    <2>4. \A g \in hires' : g.alias \in Aliases
      BY <1>0, <2>1, <2>3
    <2>5. fleet' \in [Shops -> SUBSET Aliases]
      BY <1>0, <2>1
    <2> QED
      BY <2>2, <2>4, <2>5 DEF HireRest
  <1>7. ASSUME NEW h \in hires, ServerReported(h) PROVE HireRest'
    <2>1. servers' \subseteq servers \cup {h.alias} /\ hires' \subseteq hires /\ UNCHANGED fleet
      BY <1>7 DEF ServerReported
    <2>2. search' = (IF h.shown THEN [search EXCEPT !.busy = NoAlias] ELSE search)
      BY <1>7 DEF ServerReported
    <2>3. search' \in ServerSearch
      BY <1>0, <2>2, Searches
    <2>4. servers' \subseteq Aliases /\ \A g \in hires' : g.alias \in Aliases
      BY <1>0, <2>1
    <2> QED
      BY <2>1, <2>3, <2>4 DEF HireRest
  <1>8. ASSUME NEW s \in Shops, SwitchShop(s) PROVE HireRest'
    <2>1. servers' = fleet[s] /\ UNCHANGED <<search, hires, fleet>>
      BY <1>8 DEF SwitchShop
    <2> QED
      BY <1>0, <2>1 DEF HireRest
  <1>9. CASE \/ \E p \in Machines \X Apps, choice \in Selection : ChangeCart(p, choice)
             \/ \E n \in Seats : CountUsers(n)
             \/ UsersUpdated \/ OpenBilling \/ LeaveBilling \/ FetchQuotes \/ \E q \in quotes : Quoted(q)
             \/ OpenOrderTab \/ LeaveOrderTab \/ Submit
             \/ \E step \in {"overview", "form"} : Checkout(step)
             \/ \E complete \in BOOLEAN : UpdateField(complete)
             \/ \E c \in checkouts : PlaceOrder(c) \/ OrderAnswered(c)
    <2>1. UNCHANGED <<search, servers, hires, fleet>>
      BY <1>9 DEF ChangeCart, CountUsers, UsersUpdated, OpenBilling, LeaveBilling, FetchQuotes, Quoted, OpenOrderTab,
         LeaveOrderTab, Submit, Checkout, UpdateField, PlaceOrder, OrderAnswered
    <2> QED
      BY <2>1 DEF HireRest
  <1> QED
    BY <1>1, <1>2, <1>3, <1>4, <1>5, <1>6, <1>7, <1>8, <1>9 DEF OrdersNext

LEMMA OrdersStart ==
  ASSUME Shops # {}, OrdersInit
  PROVE  BillInv /\ FormInv /\ HireInv
  <1>1. shop \in Shops
    BY DEF OrdersInit
  <1>2. BillInv
    BY DEF OrdersInit, BillInv, IsBill, NoBill
  <1>3. FormInv
    BY <1>1 DEF OrdersInit, FormInv, NoTab, EmptyForm
  <1>4. HireInv
    BY <1>1 DEF OrdersInit, HireInv
  <1> QED
    BY <1>2, <1>3, <1>4

LEMMA OrdersTyped == Shops # {} => (OrdersSpec => []OrdersTypeOK)
  <1> SUFFICES ASSUME Shops # {} PROVE OrdersSpec => []OrdersTypeOK
    OBVIOUS
  <1> DEFINE Inv == BillInv /\ FormInv /\ HireInv
  <1>1. OrdersInit => Inv /\ OrdersRest
    BY OrdersStart, OrdersRestInitially
  <1>2. Inv /\ OrdersRest /\ [OrdersNext]_ordersVars => Inv' /\ OrdersRest'
    BY BillStep, FormStep, HireStep, BillRestStep, FormRestStep, HireRestStep DEF OrdersRest
  <1>3. Inv /\ OrdersRest => OrdersTypeOK
    <2> SUFFICES ASSUME Inv, OrdersRest PROVE OrdersTypeOK
      OBVIOUS
    <2>1. /\ teamNews \in BOOLEAN /\ bill.open \in BOOLEAN /\ bill.loading \in BOOLEAN /\ bill.due \in BOOLEAN
          /\ tab.open \in BOOLEAN /\ tab.submitting \in BOOLEAN
          /\ search.open \in BOOLEAN /\ search.loading \in BOOLEAN /\ strayed \in BOOLEAN
      BY DEF BillInv, IsBill, HireInv, OrdersRest, FormRest, OrderTab, HireRest, ServerSearch
    <2>2. {teamNews, bill.open, bill.loading, bill.due, tab.open, tab.submitting, search.open,
           search.loading, strayed} \subseteq BOOLEAN
      BY <2>1, Zenon
    <2>3. tab.step \in {"overview", "form"} /\ tab.confirmed \in Shops \cup {NoShop}
      BY DEF OrdersRest, FormRest, OrderTab
    <2>4. search.target \in Aliases \cup {NoAlias} /\ search.busy \in Offers \cup {NoAlias}
      BY DEF OrdersRest, HireRest, ServerSearch
    <2>5. shop \in Shops
      BY DEF FormInv
    <2>6. {team, bill.seats} \subseteq Seats
      BY DEF OrdersRest, BillRest
    <2> QED
      BY <2>2, <2>3, <2>4, <2>5, <2>6 DEF OrdersRest, BillRest, FormRest, HireRest, OrderForm, OrdersTypeOK
  <1> QED
    BY <1>1, <1>2, <1>3, PTL DEF OrdersSpec

\* The rest of the types of the members: the decisions, the lock, the panel and
\* the account hub.
MemberRows == [People -> [id : BOOLEAN, spaces : SUBSET Shared]]
MembersPanel == [space : Shared \cup {NoPerson}, isOwner : {"unknown", "yes", "no"}, list : Meta \cup {NoList},
                 busy : BOOLEAN]
HubReading == [left : SUBSET Shared, got : MemberRows]
HubTask == [todo : SUBSET Shared, adds : BOOLEAN, id : BOOLEAN]
AccountHub == [owned : SUBSET Shared, rows : MemberRows, reads : SUBSET HubReading, busy : People \cup {NoPerson},
               tasks : [People -> HubTask]]
LockRest == decided \in [Shared -> Meta] /\ writeLock \in [Shared -> Requests \cup {NoPerson}]
MembersRest == LockRest /\ panel \in MembersPanel /\ hub \in AccountHub

LEMMA AppliedIsMeta ==
  ASSUME NEW m \in Meta, NEW key \in Keys, NEW kind
  PROVE  Applied(kind, m, key) \in Meta
  BY DEF Applied, Invite, Claim, Remove, Named, Transfer, Meta, Keys

LEMMA LockRestStep ==
  ASSUME CopiesInv, LockRest, [MembersNext]_membersVars
  PROVE  LockRest'
  <1>1. CASE UNCHANGED <<decided, writeLock>>
    BY <1>1 DEF LockRest
  <1>2. ASSUME NEW r \in Requests, ReadLocked(r) PROVE LockRest'
    <2>1. UNCHANGED decided /\ (UNCHANGED writeLock \/ writeLock' = [writeLock EXCEPT ![reqs[r].space] = r])
      BY <1>2 DEF ReadLocked
    <2>2. writeLock' \in [Shared -> Requests \cup {NoPerson}]
      BY <2>1 DEF LockRest
    <2> QED
      BY <2>1, <2>2 DEF LockRest
  <1>3. ASSUME NEW r \in Requests, Write(r) PROVE LockRest'
    <2>1. /\ reqs[r] # Free
          /\ writeLock' = [writeLock EXCEPT ![reqs[r].space] = IF @ = r THEN NoPerson ELSE @]
          /\ decided' = [decided EXCEPT ![reqs[r].space] =
               Applied(Doing(reqs[r]), @, IF reqs[r].claiming THEN [by |-> "mail", who |-> reqs[r].by] ELSE reqs[r].key)]
      BY <1>3 DEF Write
    <2>2. reqs[r] \in Req
      BY <2>1 DEF CopiesInv
    <2>3. reqs[r].space \in Shared /\ reqs[r].by \in People /\ reqs[r].key \in Keys
      BY <2>2 DEF Req
    <2>4. (IF reqs[r].claiming THEN [by |-> "mail", who |-> reqs[r].by] ELSE reqs[r].key) \in Keys
      BY <2>3 DEF Keys
    <2>5. Applied(Doing(reqs[r]), decided[reqs[r].space],
                  IF reqs[r].claiming THEN [by |-> "mail", who |-> reqs[r].by] ELSE reqs[r].key) \in Meta
      BY <2>3, <2>4, AppliedIsMeta DEF LockRest
    <2>6. decided' \in [Shared -> Meta]
      BY <2>1, <2>3, <2>5 DEF LockRest
    <2>7. writeLock' \in [Shared -> Requests \cup {NoPerson}]
      BY <2>1 DEF LockRest
    <2> QED
      BY <2>6, <2>7 DEF LockRest
  <1>4. CASE UNCHANGED membersVars
    BY <1>1, <1>4 DEF membersVars, apiVars
  <1>5. ASSUME NEW r \in Requests,
               \/ Access(r) \/ Look(r) \/ CheckOwner(r) \/ OthersAsk(r) \/ OthersAnswered(r)
               \/ \E s \in Shared : OpenMembers(r, s) \/ Manage(r, s) \/ \E p \in People : HubSends(r, p, s)
               \/ OwnerAnswered(r) \/ LoadAnswered(r) \/ ManageAnswered(r) \/ HubAnswered(r)
        PROVE  LockRest'
    <2>1. UNCHANGED apiVars
      BY <1>5 DEF Access, Look, CheckOwner, OthersAsk, OthersAnswered, OpenMembers, Manage, HubSends, OwnerAnswered,
         LoadAnswered, ManageAnswered, HubAnswered
    <2> QED
      BY <1>1, <2>1 DEF apiVars
  <1>6. CASE \/ OpenHub \/ HubReads \/ HubShows
             \/ \E p \in People : HubRemoves(p) \/ \E s \in Shared : HubAdds(p, s)
    <2>1. UNCHANGED apiVars
      BY <1>6 DEF OpenHub, HubReads, HubShows, HubRemoves, HubAdds
    <2> QED
      BY <1>1, <2>1 DEF apiVars
  <1> QED
    BY <1>2, <1>3, <1>4, <1>5, <1>6 DEF MembersNext, Serve

\* The panel.
LEMMA MembersPanels ==
  /\ NoPanel \in MembersPanel
  /\ \A s \in Shared : [NoPanel EXCEPT !.space = s] \in MembersPanel
  /\ \A p \in MembersPanel :
       /\ \A o \in {"yes", "no"} : [p EXCEPT !.isOwner = o] \in MembersPanel
       /\ \A b \in BOOLEAN : [p EXCEPT !.busy = b] \in MembersPanel
       /\ \A m \in Meta \cup {NoList} : [p EXCEPT !.busy = FALSE, !.list = m] \in MembersPanel
       /\ p.list \in Meta \cup {NoList}
  BY DEF NoPanel, MembersPanel

LEMMA PanelRestStep ==
  ASSUME CopiesInv, panel \in MembersPanel, [MembersNext]_membersVars
  PROVE  panel' \in MembersPanel
  <1>1. CASE UNCHANGED panel
    BY <1>1
  <1>2. ASSUME NEW r \in Requests, NEW s \in Shared, OpenMembers(r, s) PROVE panel' \in MembersPanel
    BY <1>2, MembersPanels DEF OpenMembers
  <1>3. ASSUME NEW r \in Requests, OwnerAnswered(r) PROVE panel' \in MembersPanel
    <2>1. PICK o \in {"yes", "no"} : panel' = [panel EXCEPT !.isOwner = o]
      BY <1>3 DEF OwnerAnswered
    <2> QED
      BY <2>1, MembersPanels
  <1>4. ASSUME NEW r \in Requests, LoadAnswered(r) PROVE panel' \in MembersPanel
    <2>1. reqs[r] \in Req
      BY <1>4 DEF LoadAnswered, Done, CopiesInv
    <2>2. reqs[r].copy \in Meta \cup {NoList}
      BY <2>1 DEF Req, Good
    <2>3. panel' = [panel EXCEPT !.busy = FALSE, !.list = IF Ok(r) THEN reqs[r].copy ELSE panel.list]
      BY <1>4 DEF LoadAnswered, MembersPanel
    <2>4. panel.list \in Meta \cup {NoList}
      BY MembersPanels
    <2>5. PICK m \in Meta \cup {NoList} : panel' = [panel EXCEPT !.busy = FALSE, !.list = m]
      BY <2>2, <2>3, <2>4
    <2> QED
      BY <2>5, MembersPanels
  <1>5. ASSUME NEW r \in Requests, ManageAnswered(r) PROVE panel' \in MembersPanel
    BY <1>5, MembersPanels DEF ManageAnswered
  <1>6. ASSUME NEW r \in Requests, NEW s \in Shared, Manage(r, s) PROVE panel' \in MembersPanel
    <2>1. panel' = [panel EXCEPT !.busy = TRUE]
      BY <1>6 DEF Manage
    <2> QED
      BY <2>1, MembersPanels
  <1>7. ASSUME NEW r \in Requests,
               \/ Serve(r) \/ OthersAsk(r) \/ OthersAnswered(r) \/ HubAnswered(r)
               \/ \E s \in Shared, p \in People : HubSends(r, p, s)
        PROVE  panel' \in MembersPanel
    BY <1>7 DEF Serve, Access, Look, CheckOwner, ReadLocked, Write, OthersAsk, OthersAnswered, HubSends, HubAnswered
  <1>8. CASE \/ OpenHub \/ HubReads \/ HubShows
             \/ \E p \in People : HubRemoves(p) \/ \E s \in Shared : HubAdds(p, s)
    BY <1>8 DEF OpenHub, HubReads, HubShows, HubRemoves, HubAdds
  <1>9. CASE UNCHANGED membersVars
    BY <1>9 DEF membersVars
  <1> QED
    BY <1>2, <1>3, <1>4, <1>5, <1>6, <1>7, <1>8, <1>9 DEF MembersNext

\* The account hub.
LEMMA HubRows ==
  /\ NoRows \in MemberRows /\ NoTask \in HubTask /\ NoHub \in AccountHub
  /\ \A o \in SUBSET Shared : Aggregate(o) \in HubReading
  /\ \A mr \in MemberRows, s \in Shared : meta \in [Shared -> Meta] => Joined(mr, s) \in MemberRows
  <1>1. NoRows \in MemberRows /\ NoTask \in HubTask
    BY DEF NoRows, MemberRows, NoTask, HubTask
  <1>2. NoHub \in AccountHub
    BY <1>1 DEF NoHub, AccountHub
  <1>3. \A o \in SUBSET Shared : Aggregate(o) \in HubReading
    BY <1>1 DEF Aggregate, HubReading
  <1>4. ASSUME NEW shownRows \in MemberRows, NEW s \in Shared, meta \in [Shared -> Meta]
        PROVE  Joined(shownRows, s) \in MemberRows
    <2>1. \A p \in People : shownRows[p] \in [id : BOOLEAN, spaces : SUBSET Shared]
      BY DEF MemberRows
    <2>2. \A p \in People : [id |-> shownRows[p].id \/ p \in meta[s].members, spaces |-> shownRows[p].spaces \cup {s}]
                              \in [id : BOOLEAN, spaces : SUBSET Shared]
      BY <2>1
    <2> QED
      BY <2>1, <2>2 DEF Joined, MemberRows
  <1> QED
    BY <1>1, <1>2, <1>3, <1>4

LEMMA HubFields ==
  ASSUME NEW h \in AccountHub
  PROVE  /\ h.owned \subseteq Shared /\ h.rows \in MemberRows /\ h.reads \subseteq HubReading
         /\ h.busy \in People \cup {NoPerson} /\ h.tasks \in [People -> HubTask]
         /\ \A o \in SUBSET Shared, rd \in SUBSET HubReading : [h EXCEPT !.owned = o, !.reads = rd] \in AccountHub
         /\ \A rd \in SUBSET HubReading : [h EXCEPT !.reads = rd] \in AccountHub
         /\ \A rd \in SUBSET HubReading, rw \in MemberRows : [h EXCEPT !.reads = rd, !.rows = rw] \in AccountHub
         /\ \A b \in People \cup {NoPerson}, t \in [People -> HubTask] :
              [h EXCEPT !.busy = b, !.tasks = t] \in AccountHub
         /\ \A t \in [People -> HubTask] : [h EXCEPT !.tasks = t] \in AccountHub
         /\ \A b \in People \cup {NoPerson}, t \in [People -> HubTask], o \in SUBSET Shared, rd \in SUBSET HubReading :
              [h EXCEPT !.tasks = t, !.busy = b, !.owned = o, !.reads = rd] \in AccountHub
  BY DEF AccountHub

LEMMA HubRestStep ==
  ASSUME MembersAssumption, CopiesInv, hub \in AccountHub, [MembersNext]_membersVars
  PROVE  hub' \in AccountHub
  <1>0. /\ hub.owned \subseteq Shared /\ hub.rows \in MemberRows /\ hub.reads \subseteq HubReading
        /\ hub.tasks \in [People -> HubTask]
        /\ hub = [owned |-> hub.owned, rows |-> hub.rows, reads |-> hub.reads, busy |-> hub.busy, tasks |-> hub.tasks]
    BY DEF AccountHub
  <1>a. meta \in [Shared -> Meta] /\ Owned \subseteq Shared
    BY DEF CopiesInv, Owned
  <1>1. CASE UNCHANGED hub
    BY <1>1
  <1>2. CASE OpenHub
    <2>1. hub' = [hub EXCEPT !.owned = Owned, !.reads = {Aggregate(Owned)}]
      BY <1>2 DEF OpenHub
    <2>2. {Aggregate(Owned)} \subseteq HubReading
      BY <1>a, HubRows
    <2> QED
      BY <1>a, <2>1, <2>2, HubFields
  <1>3. CASE HubReads
    <2>a. PICK a \in hub.reads, s \in Shared : \E got \in {a.got, Joined(a.got, s)} :
            hub' = [hub EXCEPT !.reads = (hub.reads \ {a}) \cup {[left |-> a.left \ {s}, got |-> got]}]
      BY <1>0, <1>3 DEF HubReads
    <2>1. PICK got \in {a.got, Joined(a.got, s)} :
            hub' = [hub EXCEPT !.reads = (hub.reads \ {a}) \cup {[left |-> a.left \ {s}, got |-> got]}]
      BY <2>a
    <2>2. a \in HubReading
      BY <1>0
    <2>3. a.got \in MemberRows /\ a.left \subseteq Shared
      BY <2>2 DEF HubReading
    <2>4. got \in MemberRows
      BY <1>a, <2>1, <2>3, HubRows
    <2>5. [left |-> a.left \ {s}, got |-> got] \in HubReading
      BY <2>3, <2>4 DEF HubReading
    <2>6. (hub.reads \ {a}) \cup {[left |-> a.left \ {s}, got |-> got]} \in SUBSET HubReading
      BY <1>0, <2>5
    <2> QED
      BY <2>1, <2>6, HubFields
  <1>4. CASE HubShows
    <2>1. PICK a \in hub.reads : hub' = [hub EXCEPT !.reads = hub.reads \ {a}, !.rows = a.got]
      BY <1>0, <1>4 DEF HubShows
    <2>2. a.got \in MemberRows
      BY <1>0 DEF HubReading
    <2>3. hub.reads \ {a} \in SUBSET HubReading
      BY <1>0
    <2> QED
      BY <2>1, <2>2, <2>3, HubFields
  <1>5. ASSUME NEW p \in People, HubRemoves(p) \/ \E s \in Shared : HubAdds(p, s)
        PROVE  hub' \in AccountHub
    <2>1. hub.rows[p].id \in BOOLEAN /\ hub.rows[p].spaces \subseteq Shared
      BY <1>0 DEF MemberRows
    <2>2. PICK t \in HubTask : hub' = [hub EXCEPT !.busy = p, !.tasks = [hub.tasks EXCEPT ![p] = t]]
      <3>1. CASE HubRemoves(p)
        <4> DEFINE t == [todo |-> hub.rows[p].spaces, adds |-> FALSE, id |-> hub.rows[p].id]
        <4>1. t \in HubTask
          BY <2>1 DEF HubTask
        <4>2. hub' = [hub EXCEPT !.busy = p, !.tasks[p] = t]
          BY <3>1 DEF HubRemoves
        <4> HIDE DEF t
        <4>3. hub' = [hub EXCEPT !.busy = p, !.tasks = [hub.tasks EXCEPT ![p] = t]]
          BY <1>0, <4>2
        <4> QED
          BY <4>1, <4>3
      <3>2. ASSUME NEW s \in Shared, HubAdds(p, s)
            PROVE  \E t \in HubTask : hub' = [hub EXCEPT !.busy = p, !.tasks = [hub.tasks EXCEPT ![p] = t]]
        <4> DEFINE t == [todo |-> {s}, adds |-> TRUE, id |-> FALSE]
        <4>1. t \in HubTask
          BY DEF HubTask
        <4>2. hub' = [hub EXCEPT !.busy = p, !.tasks[p] = t]
          BY <3>2 DEF HubAdds
        <4> HIDE DEF t
        <4>3. hub' = [hub EXCEPT !.busy = p, !.tasks = [hub.tasks EXCEPT ![p] = t]]
          BY <1>0, <4>2
        <4> QED
          BY <4>1, <4>3
      <3> QED
        BY <1>5, <3>1, <3>2
    <2>3. [hub.tasks EXCEPT ![p] = t] \in [People -> HubTask]
      BY <1>0
    <2> QED
      BY <2>2, <2>3, HubFields
  <1>6. ASSUME NEW r \in Requests, HubAnswered(r) PROVE hub' \in AccountHub
    <2> DEFINE p == reqs[r].key.who
               todo == hub.tasks[p].todo \ {reqs[r].space}
    <2>1. reqs[r] \in Req
      BY <1>6 DEF HubAnswered, Done, CopiesInv
    <2>2. p \in People
      BY <2>1 DEF Req, Keys
    <2>3. hub.tasks[p] \in HubTask
      BY <1>0, <2>2
    <2>4. [hub.tasks[p] EXCEPT !.todo = todo] \in HubTask
      BY <2>3 DEF HubTask
    <2>5. \/ hub' = [hub EXCEPT !.tasks[p].todo = todo]
          \/ hub' = [hub EXCEPT !.tasks[p] = NoTask, !.busy = NoPerson]
          \/ hub' = [hub EXCEPT !.tasks[p] = NoTask, !.busy = NoPerson, !.owned = Owned,
                                !.reads = {Aggregate(hub.owned), Aggregate(Owned)}]
      BY <1>6 DEF HubAnswered
    <2> HIDE DEF todo, p
    <2>6. \/ hub' = [hub EXCEPT !.tasks = [hub.tasks EXCEPT ![p] = [hub.tasks[p] EXCEPT !.todo = todo]]]
          \/ hub' = [hub EXCEPT !.busy = NoPerson, !.tasks = [hub.tasks EXCEPT ![p] = NoTask]]
          \/ hub' = [hub EXCEPT !.tasks = [hub.tasks EXCEPT ![p] = NoTask], !.busy = NoPerson, !.owned = Owned,
                                !.reads = {Aggregate(hub.owned), Aggregate(Owned)}]
      BY <1>0, <2>5
    <2>7. /\ [hub.tasks EXCEPT ![p] = [hub.tasks[p] EXCEPT !.todo = todo]] \in [People -> HubTask]
          /\ [hub.tasks EXCEPT ![p] = NoTask] \in [People -> HubTask]
      BY <1>0, <2>4, HubRows
    <2>8. {Aggregate(hub.owned), Aggregate(Owned)} \in SUBSET HubReading
      BY <1>0, <1>a, HubRows
    <2> DEFINE fewer == [hub.tasks EXCEPT ![p] = [hub.tasks[p] EXCEPT !.todo = todo]]
               over == [hub.tasks EXCEPT ![p] = NoTask]
               both == {Aggregate(hub.owned), Aggregate(Owned)}
    <2>9. fewer \in [People -> HubTask] /\ over \in [People -> HubTask] /\ both \in SUBSET HubReading
      BY <2>7, <2>8
    <2>10. \/ hub' = [hub EXCEPT !.tasks = fewer]
           \/ hub' = [hub EXCEPT !.busy = NoPerson, !.tasks = over]
           \/ hub' = [hub EXCEPT !.tasks = over, !.busy = NoPerson, !.owned = Owned, !.reads = both]
      BY <2>6
    <2> HIDE DEF fewer, over, both
    <2>11. /\ [hub EXCEPT !.tasks = fewer] \in AccountHub
           /\ [hub EXCEPT !.busy = NoPerson, !.tasks = over] \in AccountHub
      BY <2>9, HubFields
    <2>12. [hub EXCEPT !.tasks = over, !.busy = NoPerson, !.owned = Owned, !.reads = both] \in AccountHub
      BY <1>a, <2>9, HubFields
    <2> QED
      BY <2>10, <2>11, <2>12
  <1>7. ASSUME NEW r \in Requests,
               \/ Serve(r) \/ OthersAsk(r) \/ OthersAnswered(r)
               \/ \E s \in Shared : OpenMembers(r, s) \/ Manage(r, s) \/ \E p \in People : HubSends(r, p, s)
               \/ OwnerAnswered(r) \/ LoadAnswered(r) \/ ManageAnswered(r)
        PROVE  hub' \in AccountHub
    <2>1. UNCHANGED hub
      BY <1>7 DEF Serve, Access, Look, CheckOwner, ReadLocked, Write, OthersAsk, OthersAnswered, OpenMembers, Manage,
         HubSends, OwnerAnswered, LoadAnswered, ManageAnswered
    <2> QED
      BY <2>1
  <1>8. CASE UNCHANGED membersVars
    BY <1>8 DEF membersVars
  <1> QED
    BY <1>2, <1>3, <1>4, <1>5, <1>6, <1>7, <1>8 DEF MembersNext

LEMMA MembersTyped == MembersSpec => []MembersTypeOK
  <1>1. MembersInit => CopiesInv /\ DecisionInv /\ MembersRest
    <2> SUFFICES ASSUME MembersInit PROVE MembersRest
      BY CopiesInitially, DecisionsInitially
    <2>1. meta \in [Shared -> Meta]
      BY DEF MembersInit
    <2>2. LockRest
      BY <2>1 DEF MembersInit, LockRest
    <2>3. panel \in MembersPanel /\ hub \in AccountHub
      BY MembersPanels, HubRows DEF MembersInit
    <2> QED
      BY <2>2, <2>3 DEF MembersRest
  <1>2. DecisionInv /\ MembersRest /\ [MembersNext]_membersVars => DecisionInv' /\ MembersRest'
    <2> SUFFICES ASSUME DecisionInv, MembersRest, [MembersNext]_membersVars PROVE DecisionInv' /\ MembersRest'
      OBVIOUS
    <2>1. CopiesInv /\ CopiesInv'
      BY CopiesStep, MembersAssumption DEF DecisionInv
    <2>2. DecisionInv'
      BY <2>1, DecisionsStep, MembersAssumption
    <2>3. LockRest' /\ panel' \in MembersPanel /\ hub' \in AccountHub
      BY <2>1, LockRestStep, PanelRestStep, HubRestStep, MembersAssumption DEF MembersRest
    <2> QED
      BY <2>2, <2>3 DEF MembersRest
  <1>3. DecisionInv /\ MembersRest => MembersTypeOK
    <2> SUFFICES ASSUME DecisionInv, MembersRest PROVE MembersTypeOK
      OBVIOUS
    <2>1. /\ meta \in [Shared -> Meta] /\ crossed \in [Shared -> BOOLEAN]
          /\ \A r \in Requests : reqs[r] # Free => reqs[r] \in Req
      BY DEF DecisionInv, CopiesInv
    <2>2. \A r \in Requests : reqs[r] # Free => reqs[r].copy \in Meta \cup {NoList}
      BY <2>1 DEF Req, Good
    <2>3. /\ panel.space \in Shared \cup {NoPerson} /\ panel.isOwner \in {"unknown", "yes", "no"}
          /\ panel.busy \in BOOLEAN /\ panel.list \in Meta \cup {NoList}
      BY DEF MembersRest, MembersPanel
    <2>4. /\ hub.busy \in People \cup {NoPerson} /\ hub.owned \subseteq Shared
          /\ hub.rows \in MemberRows /\ hub.tasks \in [People -> HubTask]
      BY HubFields DEF MembersRest
    <2>5. \A p \in People : hub.rows[p].spaces \subseteq Shared /\ hub.tasks[p].todo \subseteq Shared
      BY <2>4 DEF MemberRows, HubTask
    <2> QED
      BY <2>1, <2>2, <2>3, <2>4, <2>5 DEF MembersRest, LockRest, MembersTypeOK
  <1> QED
    BY <1>1, <1>2, <1>3, PTL DEF MembersSpec

-----------------------------------------------------------------------------
(***************************************************************************)
(* The rest of the types of the audit log: its queue and its batch are      *)
(* never longer than they may be, and no event comes after the last action. *)
(***************************************************************************)
AuditRest ==
  /\ Len(queue) <= QueueMax /\ Len(batch) <= BatchMax
  /\ saving \in BOOLEAN /\ audits <= MaxAudits /\ disturbed \subseteq AuditSpaces

LEMMA AuditBounds == AuditAssumption => QueueMax \in Nat /\ BatchMax \in Nat /\ MaxAudits \in Nat
  BY DEF AuditAssumption

LEMMA QueueStaysShort ==
  ASSUME AuditAssumption, LogTypes, EventInv, AuditRest, [AuditNext]_auditVars
  PROVE  Len(queue') <= QueueMax /\ Len(batch') <= BatchMax
  <1>0. /\ QueueMax \in Nat /\ BatchMax \in Nat /\ queue \in Seq(Nat) /\ batch \in Seq(Nat)
        /\ Len(queue) <= QueueMax /\ Len(batch) <= BatchMax
    BY AuditBounds DEF EventInv, AuditRest
  <1>e. Len(<<>>) = 0
    OBVIOUS
  <1>j. ASSUME NEW e \in Nat, NEW config, NEW request, Judge(e, config, request)
        PROVE  Len(queue') <= QueueMax /\ Len(batch') <= BatchMax
    <2>1. batch' = batch /\ (queue' = queue \/ (Len(queue) < QueueMax /\ queue' = Append(queue, e)))
      BY <1>j DEF Judge, Enqueue, eventVars
    <2>2. Len(Append(queue, e)) = Len(queue) + 1 /\ Len(queue) \in Nat
      BY <1>0
    <2> QED
      BY <1>0, <2>1, <2>2
  <1>1. ASSUME NEW w \in AuditSpaces, NEW request \in RequestKinds, AuditRequest(w, request)
        PROVE  Len(queue') <= QueueMax /\ Len(batch') <= BatchMax
    <2>1. audits \in Nat
      BY DEF LogTypes, SettingsTypes
    <2>2. UNCHANGED <<queue, batch>> \/ Judge(audits, known[w], request)
      BY <1>1 DEF AuditRequest, eventVars
    <2> QED
      BY <1>0, <1>j, <2>1, <2>2
  <1>2. ASSUME NEW r \in readers, EventRead(r) PROVE Len(queue') <= QueueMax /\ Len(batch') <= BatchMax
    <2>1. r.event \in Nat
      BY DEF LogTypes, SettingsTypes, Lookups
    <2> QED
      BY <1>2, <1>j, <2>1 DEF EventRead
  <1>3. CASE TakeBatch
    <2> DEFINE n == IF Len(queue) < BatchMax THEN Len(queue) ELSE BatchMax
    <2>1. batch' = SubSeq(queue, 1, n) /\ queue' = SubSeq(queue, n + 1, Len(queue))
      BY <1>3 DEF TakeBatch
    <2>2. n \in Nat /\ n <= Len(queue) /\ n <= BatchMax /\ Len(queue) \in Nat
      BY <1>0
    <2> HIDE DEF n
    <2>3. Len(SubSeq(queue, 1, n)) = n /\ Len(SubSeq(queue, n + 1, Len(queue))) = Len(queue) - n
      BY <1>0, <2>2
    <2> QED
      BY <1>0, <2>1, <2>2, <2>3
  <1>4. CASE (\E works \in BOOLEAN : InsertBatch(works)) \/ RestartApi
    <2>1. queue' \in {queue, <<>>} /\ batch' = <<>>
      BY <1>4 DEF InsertBatch, RestartApi
    <2> QED
      BY <1>0, <1>e, <2>1
  <1>5. CASE \/ \E works \in BOOLEAN : \E e \in spilled : InsertSpilled(e, works)
             \/ \E u \in updates : CommitUpdate(u) \/ StoreUpdate(u) \/ SaveAnswered(u) \/ SaveFailed(u)
             \/ \E l \in loads : ServeConfig(l) \/ StoreRead(l) \/ LogAnswered(l) \/ LogFailed(l)
             \/ \E w \in AuditSpaces, c \in AuditSettings : OtherUpdate(w, c)
    <2>1. UNCHANGED <<queue, batch>>
      BY <1>5 DEF InsertSpilled, CommitUpdate, StoreUpdate, SaveAnswered, SaveFailed, ServeConfig, StoreRead,
                  LogAnswered, ShowLog, LogFailed, OtherUpdate, eventVars
    <2> QED
      BY <1>0, <2>1
  <1>6. CASE \/ ResetFilters \/ CancelSettings \/ SaveSettings \/ Remount \/ UNCHANGED auditVars
             \/ \E s \in FilterValues : SetFilter(s)
             \/ \E p \in 1 .. MaxPage : GoToPage(p)
             \/ \E c \in AuditSettings : TypeSettings(c)
             \/ \E w \in AuditSpaces \cup {NoAudit} : SwitchAudit(w)
    <2>1. UNCHANGED <<queue, batch>>
      BY <1>6 DEF ResetFilters, CancelSettings, SaveSettings, Remount, SetFilter, GoToPage, TypeSettings, SwitchAudit,
                  auditVars, eventVars
    <2> QED
      BY <1>0, <2>1
  <1> QED
    BY <1>1, <1>2, <1>3, <1>4, <1>5, <1>6 DEF AuditNext

LEMMA AuditRestStep ==
  ASSUME AuditAssumption, LogTypes, EventInv, AuditRest, [AuditNext]_auditVars
  PROVE  AuditRest'
  <1>1. Len(queue') <= QueueMax /\ Len(batch') <= BatchMax
    BY QueueStaysShort
  <1>2. saving' \in {saving, TRUE, FALSE}
    BY DEF AuditNext, CommitUpdate, StoreUpdate, SaveAnswered, SaveFailed, ServeConfig, StoreRead, LogAnswered, ShowLog,
           LogFailed, OtherUpdate, AuditRequest, EventRead, InsertBatch, InsertSpilled, TakeBatch, RestartApi,
           ResetFilters, CancelSettings, SaveSettings, Remount, SetFilter, GoToPage, TypeSettings, SwitchAudit,
           panelVars, auditVars
  <1>3. audits' <= MaxAudits
    <2>1. \/ audits' = audits
          \/ audits < MaxAudits /\ audits' = audits + 1
      BY DEF AuditNext, CommitUpdate, StoreUpdate, SaveAnswered, SaveFailed, ServeConfig, StoreRead, LogAnswered,
             ShowLog, LogFailed, OtherUpdate, AuditRequest, EventRead, InsertBatch, InsertSpilled, TakeBatch, RestartApi,
             ResetFilters, CancelSettings, SaveSettings, Remount, SetFilter, GoToPage, TypeSettings, SwitchAudit,
             Once, auditVars
    <2>2. audits \in Nat /\ MaxAudits \in Nat /\ audits <= MaxAudits
      BY AuditBounds DEF LogTypes, SettingsTypes, AuditRest
    <2> QED
      BY <2>1, <2>2
  <1>4. disturbed' \subseteq AuditSpaces
    <2>1. ASSUME NEW u \in updates, CommitUpdate(u) PROVE disturbed' \subseteq AuditSpaces
      <3>1. u.space \in AuditSpaces
        BY DEF LogTypes, SettingsTypes, Updates
      <3> QED
        BY <2>1, <3>1 DEF CommitUpdate, AuditRest
    <2>2. CASE ~\E u \in updates : CommitUpdate(u)
      <3>1. disturbed' \in {disturbed, {}}
        BY <2>2 DEF AuditNext, StoreUpdate, SaveAnswered, SaveFailed, ServeConfig, StoreRead, LogAnswered, ShowLog,
             LogFailed, OtherUpdate, AuditRequest, EventRead, InsertBatch, InsertSpilled, TakeBatch, RestartApi,
             ResetFilters, CancelSettings, SaveSettings, Remount, SetFilter, GoToPage, TypeSettings, SwitchAudit,
             settingsVars, auditVars
      <3> QED
        BY <3>1 DEF AuditRest
    <2> QED
      BY <2>1, <2>2
  <1> QED
    BY <1>1, <1>2, <1>3, <1>4 DEF AuditRest

LEMMA AuditTyped == AuditSpaces # {} => (AuditSpec => []AuditTypeOK)
  <1> SUFFICES ASSUME AuditSpaces # {} PROVE AuditSpec => []AuditTypeOK
    OBVIOUS
  <1>1. AuditInit => AuditInv /\ AuditRest
    <2> SUFFICES ASSUME AuditInit PROVE AuditInv /\ AuditRest
      OBVIOUS
    <2>1. Len(queue) = 0 /\ Len(batch) = 0 /\ audits = 0 /\ saving = FALSE /\ disturbed = {}
      BY DEF AuditInit
    <2>b. QueueMax \in Nat /\ BatchMax \in Nat /\ MaxAudits \in Nat
      BY AuditBounds, AuditAssumption
    <2>2. AuditRest
      <3>1. 0 <= QueueMax /\ 0 <= BatchMax /\ 0 <= MaxAudits /\ {} \subseteq AuditSpaces
        BY <2>b
      <3> QED
        BY <2>1, <3>1 DEF AuditRest
    <2> QED
      BY <2>2, AuditStarts, AuditAssumption
  <1>2. AuditInv /\ AuditRest /\ [AuditNext]_auditVars => AuditInv' /\ AuditRest'
    <2> SUFFICES ASSUME AuditInv, AuditRest, [AuditNext]_auditVars PROVE AuditInv' /\ AuditRest'
      OBVIOUS
    <2>1. AuditInv'
      BY SettingsTypesStep, PanelTypesStep, PanelStep, CacheStep, EventStep, AuditAssumption DEF AuditInv, LogTypes
    <2>2. AuditRest'
      BY AuditRestStep, AuditAssumption DEF AuditInv
    <2> QED
      BY <2>1, <2>2
  <1>3. AuditInv /\ AuditRest => AuditTypeOK
    <2> SUFFICES ASSUME AuditInv, AuditRest PROVE AuditTypeOK
      OBVIOUS
    <2>0. SettingsTypes /\ PanelTypes /\ PanelInv /\ EventInv
      BY DEF AuditInv, LogTypes
    <2>1. /\ rows \in [AuditSpaces -> Config] /\ known \in [AuditSpaces -> Config]
          /\ \A u \in updates : u \in Updates
          /\ \A r \in readers : r \in Lookups
          /\ audits \in Nat
      BY <2>0 DEF SettingsTypes
    <2>2. /\ \A u \in updates : u.by \in {"panel", "other"} /\ u.at \in {"sent", "committed", "stored"}
          /\ \A r \in readers : r.request \in RequestKinds /\ r.got \in AuditSettings
      BY <2>1 DEF Updates, Lookups
    <2>3. /\ resolved \in AuditSpaces \cup {NoAudit} /\ filters \in FilterValues /\ page \in 1 .. MaxPage
          /\ form \in Form /\ {loading, failed} \subseteq BOOLEAN
          /\ \A l \in loads : l.at \in {"sent", "read", "answered"} /\ l.space \in AuditSpaces
      BY <2>0 DEF PanelTypes, Loads
    <2>4. Cardinality({l \in loads : l.live}) <= 1
      <3> DEFINE wanted == {l \in loads : l.live}
      <3>1. \A l, m \in wanted : l = m
        BY <2>0 DEF PanelInv
      <3>2. wanted = {} \/ \E l : wanted = {l}
        BY <3>1
      <3>3. Cardinality(wanted) \in {0, 1}
        BY <3>2, FS_EmptySet, FS_Singleton
      <3> QED
        BY <3>3
    <2>5. {loading, failed, saving} \subseteq BOOLEAN /\ audits \in 0 .. MaxAudits
      BY <2>1, <2>3, AuditBounds, AuditAssumption DEF AuditRest
    <2>6. stored \cup lost \cup spilled \subseteq logged
      BY <2>0 DEF EventInv
    <2>7. logged \subseteq 0 .. MaxAudits
      <3>1. \A e \in logged : e \in Nat /\ e < audits
        BY <2>0 DEF EventInv
      <3> QED
        BY <2>5, <3>1, AuditBounds, AuditAssumption
    <2> QED
      BY <2>1, <2>2, <2>3, <2>4, <2>5, <2>6, <2>7 DEF AuditRest, AuditTypeOK, Config, Form
  <1> QED
    BY <1>1, <1>2, <1>3, PTL DEF AuditSpec
=============================================================================
