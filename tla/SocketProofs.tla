---------------------------- MODULE SocketProofs ----------------------------
(***************************************************************************)
(* The socket from both ends.                                              *)
(*                                                                         *)
(* SocketClaim: instances that share one HTTP address never cut each other *)
(* off; the port is the lock main.rs:112-114 claims it is, for any number  *)
(* of instances, started, refused and killed at any point.                 *)
(*                                                                         *)
(* BridgeClient: the rows a client writes are its block's own, in order,   *)
(* for any blocks, any models and any history of the daemon: grouping      *)
(* loses no row, a reply of the wrong shape is refused, and a retry starts *)
(* from a stream without frames.                                           *)
(***************************************************************************)
EXTENDS SocketClaim, BridgeClient, DataProofs

-----------------------------------------------------------------------------
\* SocketClaim: who may take the path.

\* One instance at a time is past the HTTP bind, one that is past BindSocket
\* owns the path, and one about to bind still finds it empty.
LockInv ==
    /\ \A d, e \in Daemons : st[d] \in HoldsPort /\ st[e] \in HoldsPort => d = e
    /\ \A d \in Daemons : st[d] \in {"bound", "serving"} => path = d
    /\ ~env.removeErrs => \A d \in Daemons : st[d] = "binding" => path = Absent

\* An instance that has found the path free to take found nobody draining on
\* it, and nobody starts to drain while it holds the port.
DrainInv ==
    /\ \A d \in Daemons : st[d] = "draining" => path = d
    /\ \A d, e \in Daemons :
          st[d] \in {"unlinking", "binding", "bound", "serving"} => st[e] # "draining"

\* The environment decides which of the two the ports can guarantee.
ClaimInv ==
    /\ ClaimTypeOK
    /\ OnePort => LockInv
    /\ OnePort /\ ~env.probeErrs => DrainInv

LEMMA TypeStep == ClaimTypeOK /\ [ClaimNext]_claimVars => ClaimTypeOK'
<1> SUFFICES ASSUME ClaimTypeOK, [ClaimNext]_claimVars PROVE ClaimTypeOK'
  OBVIOUS
<1>0. env' = env
  BY DEF ClaimNext, claimVars
<1> USE SocketAssumption, <1>0
    DEF ClaimTypeOK, Running, HoldsPort, Starting, NotRunning, Listening, Becomes
<1>1. CASE UNCHANGED claimVars
  BY <1>1 DEF claimVars
<1>2. ASSUME NEW d \in Daemons, BindHttp(d) \/ DieAtPort(d) PROVE ClaimTypeOK'
  BY <1>2 DEF BindHttp, DieAtPort
<1>3. ASSUME NEW d \in Daemons, Startup(d) PROVE ClaimTypeOK'
  BY <1>3 DEF Startup, ProbeFindsDaemon, ProbeFindsNothing, ProbeFails, Unlink,
              BindSocket, BindCollides, Listen
<1>4. ASSUME NEW d \in Daemons, AcceptFails(d) \/ Shutdown(d) \/ ProcessEnds(d) PROVE ClaimTypeOK'
  BY <1>4 DEF AcceptFails, Shutdown, ProcessEnds, Abandon
<1> QED
  BY <1>1, <1>2, <1>3, <1>4 DEF ClaimNext

\* The HTTP port as a lock: a step of one instance leaves the path of every
\* other one that has bound it alone.
LEMMA LockStep ==
    ASSUME OnePort, ClaimTypeOK, LockInv, [ClaimNext]_claimVars
    PROVE  LockInv'
<1>0. env' = env
  BY DEF ClaimNext, claimVars
<1> USE SocketAssumption, <1>0 DEF ClaimTypeOK, LockInv, Running, HoldsPort, Starting, NotRunning, Becomes
<1>1. CASE UNCHANGED claimVars
  BY <1>1 DEF claimVars
<1>2. ASSUME NEW d \in Daemons, BindHttp(d) PROVE LockInv'
  BY <1>2 DEF BindHttp, PortTaken, OnePort
<1>3. ASSUME NEW d \in Daemons, DieAtPort(d) PROVE LockInv'
  BY <1>3 DEF DieAtPort
<1>4. ASSUME NEW d \in Daemons, Startup(d) PROVE LockInv'
  <2>1. CASE ProbeFindsDaemon(d) \/ ProbeFindsNothing(d) \/ ProbeFails(d)
    BY <2>1 DEF ProbeFindsDaemon, ProbeFindsNothing, ProbeFails
  <2>2. CASE Unlink(d)
    BY <2>2 DEF Unlink
  <2>3. CASE BindSocket(d)
    BY <2>3 DEF BindSocket
  <2>4. CASE BindCollides(d) \/ Listen(d)
    BY <2>4 DEF BindCollides, Listen
  <2> QED
    BY <1>4, <2>1, <2>2, <2>3, <2>4 DEF Startup
<1>5. ASSUME NEW d \in Daemons, AcceptFails(d) PROVE LockInv'
  BY <1>5 DEF AcceptFails, Abandon
<1>6. ASSUME NEW d \in Daemons, Shutdown(d) PROVE LockInv'
  BY <1>6 DEF Shutdown
<1>7. ASSUME NEW d \in Daemons, ProcessEnds(d) PROVE LockInv'
  BY <1>7 DEF ProcessEnds, Abandon
<1> QED
  BY <1>1, <1>2, <1>3, <1>4, <1>5, <1>6, <1>7 DEF ClaimNext

\* A sound probe never takes the socket of a draining daemon for stale.
LEMMA DrainStep ==
    ASSUME OnePort, ~env.probeErrs, ClaimTypeOK, LockInv, DrainInv, [ClaimNext]_claimVars
    PROVE  DrainInv'
<1>0. env' = env
  BY DEF ClaimNext, claimVars
<1> USE SocketAssumption, <1>0
    DEF ClaimTypeOK, LockInv, DrainInv, Running, HoldsPort, Starting, NotRunning, Becomes
<1>1. CASE UNCHANGED claimVars
  BY <1>1 DEF claimVars
<1>2. ASSUME NEW d \in Daemons, BindHttp(d) \/ DieAtPort(d) PROVE DrainInv'
  BY <1>2 DEF BindHttp, DieAtPort
<1>3. ASSUME NEW d \in Daemons, Startup(d) PROVE DrainInv'
  <2>1. CASE ProbeFindsDaemon(d)
    BY <2>1 DEF ProbeFindsDaemon
  <2>2. CASE ProbeFindsNothing(d)
    BY <2>2 DEF ProbeFindsNothing
  <2>3. CASE ProbeFails(d)
    BY <2>3 DEF ProbeFails, Accepts, Listening
  <2>4. CASE Unlink(d)
    BY <2>4 DEF Unlink
  <2>5. CASE BindSocket(d)
    BY <2>5 DEF BindSocket
  <2>6. CASE BindCollides(d) \/ Listen(d)
    BY <2>6 DEF BindCollides, Listen
  <2> QED
    BY <1>3, <2>1, <2>2, <2>3, <2>4, <2>5, <2>6 DEF Startup
<1>4. ASSUME NEW d \in Daemons, AcceptFails(d) PROVE DrainInv'
  BY <1>4 DEF AcceptFails, Abandon
<1>5. ASSUME NEW d \in Daemons, Shutdown(d) PROVE DrainInv'
  BY <1>5 DEF Shutdown
<1>6. ASSUME NEW d \in Daemons, ProcessEnds(d) PROVE DrainInv'
  BY <1>6 DEF ProcessEnds, Abandon
<1> QED
  BY <1>1, <1>2, <1>3, <1>4, <1>5, <1>6 DEF ClaimNext

-----------------------------------------------------------------------------
LEMMA ClaimInvStart == ClaimInit => ClaimInv
BY SocketAssumption DEF ClaimInit, ClaimInv, ClaimTypeOK, NotRunning, LockInv, DrainInv, HoldsPort, Starting

LEMMA ClaimInvStep == ClaimInv /\ [ClaimNext]_claimVars => ClaimInv'
<1> SUFFICES ASSUME ClaimInv, [ClaimNext]_claimVars PROVE ClaimInv'
  OBVIOUS
<1>1. env' = env
  BY DEF ClaimNext, claimVars
<1>2. ClaimTypeOK'
  BY TypeStep DEF ClaimInv
<1>3. OnePort' => LockInv'
  BY <1>1, LockStep DEF ClaimInv, OnePort
<1>4. OnePort' /\ ~env'.probeErrs => DrainInv'
  BY <1>1, DrainStep DEF ClaimInv, OnePort
<1> QED
  BY <1>1, <1>2, <1>3, <1>4 DEF ClaimInv

LEMMA ClaimInvariance == ClaimSafeSpec => []ClaimInv
BY ClaimInvStart, ClaimInvStep, PTL DEF ClaimSafeSpec

\* The states and the path keep their types, and the file at the path is a
\* process's socket only while that process accepts from it or is about to
\* (uds.rs:27-43): every way out leaves a stale file.
THEOREM ClaimTypeCorrect == ClaimSafeSpec => []ClaimTypeOK
<1>1. ClaimInv => ClaimTypeOK
  BY DEF ClaimInv
<1> QED
  BY <1>1, ClaimInvariance, PTL

\* While every instance shares its HTTP address, a daemon that serves is
\* reachable at the socket path, whatever fails on the way.
THEOREM ServingStaysReachable == ClaimSafeSpec => []ServingIsReachable
<1>1. ClaimInv => ServingIsReachable
  BY DEF ClaimInv, LockInv, ServingIsReachable
<1> QED
  BY <1>1, ClaimInvariance, PTL

\* While every instance shares its HTTP address and a live socket accepts a
\* connection, a daemon that shuts down stays reachable until its process ends.
THEOREM DrainingStaysReachable == ClaimSafeSpec => []DrainingIsReachable
<1>1. ClaimInv => DrainingIsReachable
  BY DEF ClaimInv, DrainInv, DrainingIsReachable
<1> QED
  BY <1>1, ClaimInvariance, PTL

\* While every instance shares its HTTP address, a startup fails only because
\* another instance runs: what a crash leaves at the path never turns the next
\* daemon away.
THEOREM RefusalsAreJustified == ClaimSafeSpec => RefusedOnlyForLiveDaemon
<1>1. ASSUME ClaimInv, OnePort, ~env.removeErrs, [ClaimNext]_claimVars, NEW d \in Daemons,
             st[d] # "refused", st'[d] = "refused"
      PROVE  \E e \in Daemons \ {d} : st[e] \in Running
  <2> USE SocketAssumption, <1>1 DEF ClaimInv, ClaimTypeOK, Becomes, Running
  <2>1. PICK e \in Daemons :
           BindHttp(e) \/ DieAtPort(e) \/ Startup(e) \/ AcceptFails(e) \/ Shutdown(e) \/ ProcessEnds(e)
    BY DEF ClaimNext, claimVars
  <2>2. CASE DieAtPort(e)
    BY <2>2 DEF DieAtPort, PortTaken
  <2>3. CASE ProbeFindsDaemon(e)
    BY <2>3 DEF ProbeFindsDaemon, Accepts, Listening, HoldsPort, Starting
  <2>4. CASE BindCollides(e)
    BY <2>4 DEF BindCollides, LockInv
  <2>5. CASE \/ BindHttp(e) \/ AcceptFails(e) \/ Shutdown(e) \/ ProcessEnds(e)
            \/ ProbeFindsNothing(e) \/ ProbeFails(e) \/ Unlink(e) \/ BindSocket(e) \/ Listen(e)
    BY <2>5 DEF BindHttp, AcceptFails, Shutdown, ProcessEnds, ProbeFindsNothing, ProbeFails,
                Unlink, BindSocket, Listen
  <2> QED
    BY <2>1, <2>2, <2>3, <2>4, <2>5 DEF Startup
<1>2. ClaimInv /\ [ClaimNext]_claimVars =>
        [OnePort /\ ~env.removeErrs =>
           \A d \in Daemons :
              st[d] # "refused" /\ st'[d] = "refused"
              => \E e \in Daemons \ {d} : st[e] \in Running]_claimVars
  BY <1>1
<1> QED
  BY <1>2, ClaimInvariance, PTL DEF ClaimSafeSpec, RefusedOnlyForLiveDaemon

-----------------------------------------------------------------------------
\* BridgeClient: rows out, answers back.

Busy(c) == pc[c] \in {"group", "recv", "sleep"}

\* The answer to row r of block b.
Own(b, r) == <<b[r].model, b[r].item>>

\* The first groups of b, each with the answers to its rows.
Right(b, got) ==
    /\ Len(got) <= Len(Groups(b))
    /\ \A g \in 1..Len(got) :
          got[g] = [k \in DOMAIN Groups(b)[g] |-> Own(b, Groups(b)[g][k])]

AnswersInv(c) == Busy(c) => Right(block[c], answers[c])

\* Only a client that waits has frames on its stream: its request, or a reply
\* to it.
LinkInv(c) ==
    /\ pc[c] = "sleep" => Pending(c)
    /\ pc[c] # "recv" => link[c].request = NoFrame /\ link[c].reply = NoFrame
    /\ pc[c] = "recv" =>
          /\ Pending(c)
          /\ link[c].request \in {NoFrame, Request(block[c], Group(c))}
          /\ link[c].reply \in {NoFrame, Refusal, Results(Request(block[c], Group(c)))}
          /\ NoFrame \in {link[c].request, link[c].reply}

OutputInv(c) ==
    /\ Busy(c) => outcome[c] = "none"
    /\ output[c] = IF outcome[c] = "written" THEN [r \in DOMAIN block[c] |-> Own(block[c], r)]
                                             ELSE <<>>

ClientInv(c) == AnswersInv(c) /\ LinkInv(c) /\ OutputInv(c)

Inv == TypeOK /\ \A c \in Clients : ClientInv(c)

-----------------------------------------------------------------------------
\* Grouping: every row of a block is in a group, and each group has one model.

LEMMA BlockTyped ==
    ASSUME NEW b \in Seq(Row)
    PROVE  /\ Len(b) \in Nat /\ DOMAIN b = 1..Len(b)
           /\ IsFiniteSet(DOMAIN b) /\ DOMAIN b \in SUBSET Nat
           /\ \A r \in DOMAIN b : b[r].model \in Models /\ b[r].item \in Items
<1>1. Len(b) \in Nat /\ DOMAIN b = 1..Len(b) /\ \A r \in 1..Len(b) : b[r] \in Row
  BY LenProperties, ElementOfSeq
<1>2. IsFiniteSet(1..Len(b))
  BY <1>1, FS_Interval
<1> QED
  BY <1>1, <1>2 DEF Row

LEMMA GroupsProperties ==
    ASSUME NEW b \in Seq(Row)
    PROVE  /\ Len(Groups(b)) \in Nat /\ DOMAIN Groups(b) = 1..Len(Groups(b))
           /\ \A g \in DOMAIN Groups(b) :
                 /\ Groups(b)[g] \in Seq(DOMAIN b)
                 /\ Len(Groups(b)[g]) \in Nat \ {0}
                 /\ DOMAIN Groups(b)[g] = 1..Len(Groups(b)[g])
                 /\ \A k \in DOMAIN Groups(b)[g] :
                       /\ Groups(b)[g][k] \in DOMAIN b
                       /\ b[Groups(b)[g][k]].model = ModelOf(b, Groups(b)[g])
           /\ \A r \in DOMAIN b : \E g \in DOMAIN Groups(b) :
                 \E k \in DOMAIN Groups(b)[g] : Groups(b)[g][k] = r
<1> DEFINE F == FirstRows(b)
           firsts == Ascending(F)
           Rows(m) == {r \in DOMAIN b : b[r].model = m}
           G(g) == Ascending(Rows(b[firsts[g]].model))
<1>1. IsFiniteSet(DOMAIN b) /\ DOMAIN b \in SUBSET Nat
  BY BlockTyped
<1>2. F \in SUBSET DOMAIN b /\ F \in SUBSET Nat /\ IsFiniteSet(F)
  BY <1>1, FS_Subset DEF FirstRows
<1>3. \A m : Rows(m) \in SUBSET DOMAIN b /\ Rows(m) \in SUBSET Nat /\ IsFiniteSet(Rows(m))
  BY <1>1, FS_Subset
<1> HIDE DEF F
<1>4. /\ Cardinality(F) \in Nat /\ DOMAIN firsts = 1..Cardinality(F)
      /\ \A g \in 1..Cardinality(F) : firsts[g] \in F
      /\ \A r \in F : \E g \in 1..Cardinality(F) : firsts[g] = r
  BY <1>2, AscendingProperties
<1>5. Groups(b) = [g \in 1..Cardinality(F) |-> G(g)]
  BY <1>4 DEF Groups, F
<1> HIDE DEF firsts
<1>6. Len(Groups(b)) = Cardinality(F) /\ DOMAIN Groups(b) = 1..Cardinality(F)
  <2> HIDE DEF G
  <2> QED
    BY <1>4, <1>5
<1>7. ASSUME NEW g \in 1..Cardinality(F)
      PROVE  LET m == b[firsts[g]].model IN
             /\ Groups(b)[g] = Ascending(Rows(m))
             /\ firsts[g] \in Rows(m)
             /\ Groups(b)[g] \in Seq(Rows(m))
             /\ Len(Groups(b)[g]) = Cardinality(Rows(m)) /\ Cardinality(Rows(m)) \in Nat \ {0}
             /\ DOMAIN Groups(b)[g] = 1..Cardinality(Rows(m))
             /\ \A k \in DOMAIN Groups(b)[g] : Groups(b)[g][k] \in Rows(m)
             /\ \A r \in Rows(m) : \E k \in DOMAIN Groups(b)[g] : Groups(b)[g][k] = r
  <2> DEFINE m == b[firsts[g]].model
             R == Rows(m)
  <2>1. Groups(b)[g] = Ascending(R)
    BY <1>5
  <2>2. firsts[g] \in R
    BY <1>2, <1>4
  <2>3. R \in SUBSET Nat /\ IsFiniteSet(R)
    BY <1>3
  <2> HIDE DEF R
  <2>4. /\ Ascending(R) \in Seq(R) /\ Len(Ascending(R)) = Cardinality(R)
        /\ Cardinality(R) \in Nat /\ DOMAIN Ascending(R) = 1..Cardinality(R)
        /\ \A k \in 1..Cardinality(R) : Ascending(R)[k] \in R
        /\ \A r \in R : \E k \in 1..Cardinality(R) : Ascending(R)[k] = r
    BY <2>3, AscendingProperties
  <2>5. Cardinality(R) # 0
    BY <2>2, <2>3, FS_EmptySet
  <2> QED
    BY <2>1, <2>2, <2>4, <2>5 DEF R
<1>8. ASSUME NEW g \in 1..Cardinality(F)
      PROVE  /\ Groups(b)[g] \in Seq(DOMAIN b)
             /\ Len(Groups(b)[g]) \in Nat \ {0}
             /\ DOMAIN Groups(b)[g] = 1..Len(Groups(b)[g])
             /\ \A k \in DOMAIN Groups(b)[g] :
                   /\ Groups(b)[g][k] \in DOMAIN b
                   /\ b[Groups(b)[g][k]].model = ModelOf(b, Groups(b)[g])
  <2> DEFINE m == b[firsts[g]].model
  <2>1. /\ Groups(b)[g] \in Seq(Rows(m))
        /\ Len(Groups(b)[g]) \in Nat \ {0}
        /\ DOMAIN Groups(b)[g] = 1..Len(Groups(b)[g])
        /\ \A k \in DOMAIN Groups(b)[g] : Groups(b)[g][k] \in Rows(m)
    BY <1>7
  <2>2. Groups(b)[g] \in Seq(DOMAIN b)
    BY <2>1, <1>3, SeqMonotonic
  <2>3. 1 \in DOMAIN Groups(b)[g]
    BY <2>1
  <2>4. ModelOf(b, Groups(b)[g]) = m
    BY <2>1, <2>3 DEF ModelOf
  <2> QED
    BY <2>1, <2>2, <2>4
<1>9. ASSUME NEW r \in DOMAIN b
      PROVE  \E g \in DOMAIN Groups(b) : \E k \in DOMAIN Groups(b)[g] : Groups(b)[g][k] = r
  <2>1. r \in Rows(b[r].model)
    OBVIOUS
  <2>2. PICK f \in Rows(b[r].model) : \A q \in Rows(b[r].model) : f <= q
    BY <1>3, <2>1, LeastNumber
  <2>3. f \in F
    <3>1. f \in DOMAIN b /\ b[f].model = b[r].model
      BY <2>2
    <3>2. ASSUME NEW q \in 1..(f - 1) PROVE b[q].model # b[f].model
      <4>1. f \in 1..Len(b) /\ Len(b) \in Nat /\ DOMAIN b = 1..Len(b)
        BY <3>1, BlockTyped
      <4>2. q \in DOMAIN b /\ q < f
        BY <4>1
      <4> QED
        BY <2>2, <3>1, <4>2
    <3> QED
      BY <3>1, <3>2 DEF F, FirstRows
  <2>4. PICK g \in 1..Cardinality(F) : firsts[g] = f
    BY <1>4, <2>3
  <2>5. r \in Rows(b[firsts[g]].model)
    BY <2>2, <2>4
  <2>6. \E k \in DOMAIN Groups(b)[g] : Groups(b)[g][k] = r
    BY <1>7, <2>5
  <2> QED
    BY <1>6, <2>6
<1> QED
  BY <1>4, <1>6, <1>8, <1>9

\* Placement: with every group answered, each row gets its own answer.
LEMMA PlaceOwn ==
    ASSUME NEW b \in Seq(Row), NEW got, Len(got) = Len(Groups(b)), Right(b, got)
    PROVE  Place(b, got) = [r \in DOMAIN b |-> Own(b, r)]
<1> DEFINE In(r, i) == \E k \in DOMAIN Groups(b)[i] : Groups(b)[i][k] = r
           gOf(r) == CHOOSE i \in DOMAIN Groups(b) : In(r, i)
           kOf(r) == CHOOSE j \in DOMAIN Groups(b)[gOf(r)] : Groups(b)[gOf(r)][j] = r
<1>1. Place(b, got) = [r \in DOMAIN b |-> got[gOf(r)][kOf(r)]]
  BY DEF Place
<1>2. ASSUME NEW r \in DOMAIN b PROVE got[gOf(r)][kOf(r)] = Own(b, r)
  <2> DEFINE g == gOf(r)
             k == kOf(r)
  <2>1. g \in DOMAIN Groups(b) /\ In(r, g)
    BY GroupsProperties
  <2>2. k = CHOOSE j \in DOMAIN Groups(b)[g] : Groups(b)[g][j] = r
    OBVIOUS
  <2> HIDE DEF g
  <2>3. k \in DOMAIN Groups(b)[g] /\ Groups(b)[g][k] = r
    BY <2>1, <2>2
  <2> HIDE DEF k
  <2>4. g \in 1..Len(got)
    BY <2>1, GroupsProperties
  <2>5. got[g][k] = Own(b, r)
    BY <2>3, <2>4 DEF Right
  <2> QED
    BY <2>5 DEF g, k
<1> HIDE DEF gOf, kOf
<1> QED
  BY <1>1, <1>2

-----------------------------------------------------------------------------
\* Requests and replies.

LEMMA GroupInHand ==
    ASSUME TypeOK, NEW c \in Clients, Pending(c)
    PROVE  LET g == Len(answers[c]) + 1 IN
           /\ block[c] \in Seq(Row)
           /\ g \in DOMAIN Groups(block[c]) /\ Group(c) = Groups(block[c])[g]
           /\ DOMAIN Group(c) = 1..Len(Group(c)) /\ Len(Group(c)) \in Nat \ {0}
           /\ ModelOf(block[c], Group(c)) \in Models
           /\ \A k \in DOMAIN Group(c) :
                 /\ Group(c)[k] \in DOMAIN block[c]
                 /\ block[c][Group(c)[k]].item \in Items
                 /\ block[c][Group(c)[k]].model = ModelOf(block[c], Group(c))
<1> DEFINE b == block[c]
           g == Len(answers[c]) + 1
<1>1. b \in Seq(Row) /\ answers[c] \in Seq(Seq(Answer))
  BY DEF TypeOK
<1>2. Len(answers[c]) \in Nat /\ Len(Groups(b)) \in Nat /\ DOMAIN Groups(b) = 1..Len(Groups(b))
  BY <1>1, LenProperties, GroupsProperties
<1>3. g \in DOMAIN Groups(b) /\ Group(c) = Groups(b)[g]
  BY <1>2 DEF Pending, Group
<1> HIDE DEF b, g
<1>4. /\ DOMAIN Group(c) = 1..Len(Group(c)) /\ Len(Group(c)) \in Nat \ {0}
      /\ \A k \in DOMAIN Group(c) :
            Group(c)[k] \in DOMAIN b /\ b[Group(c)[k]].model = ModelOf(b, Group(c))
  <2>1. \A i \in DOMAIN Groups(b) :
           /\ DOMAIN Groups(b)[i] = 1..Len(Groups(b)[i]) /\ Len(Groups(b)[i]) \in Nat \ {0}
           /\ \A k \in DOMAIN Groups(b)[i] :
                 /\ Groups(b)[i][k] \in DOMAIN b
                 /\ b[Groups(b)[i][k]].model = ModelOf(b, Groups(b)[i])
    BY <1>1, GroupsProperties
  <2> QED
    BY <1>3, <2>1
<1>5. \A r \in DOMAIN b : b[r].model \in Models /\ b[r].item \in Items
  BY <1>1, BlockTyped
<1>6. 1 \in DOMAIN Group(c)
  BY <1>4
<1>7. ModelOf(b, Group(c)) \in Models
  BY <1>4, <1>5, <1>6
<1> QED
  BY <1>1, <1>3, <1>4, <1>5, <1>7 DEF b, g

\* A request is a frame, and so is what the daemon makes of it.
LEMMA FramesTyped ==
    ASSUME TypeOK, NEW c \in Clients, Pending(c)
    PROVE  LET q == Request(block[c], Group(c)) IN
           /\ q \in Frames /\ Results(q) \in Replied /\ Refusal \in Replied
           /\ DOMAIN q.items = DOMAIN Group(c) /\ Len(q.items) = Len(Group(c))
           /\ q.model = ModelOf(block[c], Group(c))
           /\ \A k \in DOMAIN Group(c) : <<q.model, q.items[k]>> = Own(block[c], Group(c)[k])
<1> DEFINE b == block[c]
           G == Group(c)
           q == Request(b, G)
<1>1. /\ DOMAIN G = 1..Len(G) /\ Len(G) \in Nat \ {0} /\ ModelOf(b, G) \in Models
      /\ \A k \in DOMAIN G : b[G[k]].item \in Items /\ b[G[k]].model = ModelOf(b, G)
  BY GroupInHand
<1>2. q.model = ModelOf(b, G) /\ q.items = [k \in DOMAIN G |-> b[G[k]].item]
      /\ q = [model |-> q.model, items |-> q.items]
  BY DEF Request
<1> HIDE DEF b, G, q
<1>3. q.items \in Seq(Items) /\ Len(q.items) = Len(G) /\ DOMAIN q.items = DOMAIN G
  BY <1>1, <1>2
<1>4. q \in Frames
  BY <1>1, <1>2, <1>3 DEF Frames
<1>5. \A k \in DOMAIN G : <<q.model, q.items[k]>> = Own(b, G[k])
  BY <1>1, <1>2 DEF Own
<1>6. Results(q) \in Replied
  <2> DEFINE rows == [k \in DOMAIN q.items |->
                  IF Width[q.model] = Dim[q.model] THEN <<q.model, q.items[k]>> ELSE Garbled]
             n == Len(q.items) * Width[q.model]
  <2>1. n \in Nat
    <3>1. Len(q.items) \in Nat /\ Width[q.model] \in Nat
      BY <1>1, <1>2, <1>3, ClientAssumption
    <3> QED
      BY <3>1
  <2>2. \A k \in DOMAIN q.items : <<q.model, q.items[k]>> \in Answer
    BY <1>1, <1>2, <1>3 DEF Answer
  <2>3. rows \in Seq(Answer \union {Garbled})
    BY <1>1, <1>3, <2>2
  <2> HIDE DEF rows, n
  <2>4. [ok |-> TRUE, floats |-> n, rows |-> rows] \in Replied
    BY <2>1, <2>3 DEF Replied
  <2> QED
    BY <2>4 DEF Results, rows, n
<1>7. Refusal \in Replied
  <2>1. <<>> \in Seq(Answer \union {Garbled})
    OBVIOUS
  <2> QED
    BY <2>1 DEF Refusal, Replied
<1> QED
  BY <1>2, <1>3, <1>4, <1>5, <1>6, <1>7 DEF b, G, q

\* The number of floats tells the width: a reply that fits is the group's own.
LEMMA SameWidth ==
    ASSUME NEW n \in Nat \ {0}, NEW v \in Nat, NEW w \in Nat, n * v = n * w
    PROVE  v = w
<1>1. n * (v - w) = 0
  OBVIOUS
<1> QED
  BY <1>1

LEMMA UsableOwn ==
    ASSUME TypeOK, NEW c \in Clients, Pending(c), Usable(c),
           link[c].reply \in {Refusal, Results(Request(block[c], Group(c)))}
    PROVE  /\ link[c].reply.rows = [k \in DOMAIN Group(c) |-> Own(block[c], Group(c)[k])]
           /\ link[c].reply.rows \in Seq(Answer)
<1> DEFINE b == block[c]
           G == Group(c)
           q == Request(b, G)
           reply == link[c].reply
<1>1. /\ q \in Frames /\ DOMAIN q.items = DOMAIN G /\ Len(q.items) = Len(G)
      /\ q.model = ModelOf(b, G) /\ q.model \in Models
      /\ \A k \in DOMAIN G : <<q.model, q.items[k]>> = Own(b, G[k])
  BY FramesTyped, GroupInHand
<1>2. /\ DOMAIN G = 1..Len(G) /\ Len(G) \in Nat \ {0}
      /\ \A k \in DOMAIN G : G[k] \in DOMAIN b /\ b[G[k]].model \in Models /\ b[G[k]].item \in Items
  BY GroupInHand
<1>3. reply.ok /\ reply.floats = Len(G) * Dim[q.model]
  BY <1>1 DEF Usable, Fits
<1>4. reply \in {Refusal, Results(q)}
  OBVIOUS
<1> HIDE DEF b, G, q, reply
<1>5. reply = Results(q)
  BY <1>3, <1>4 DEF Refusal
<1>6. Len(G) * Width[q.model] = Len(G) * Dim[q.model]
  BY <1>1, <1>3, <1>5 DEF Results
<1>7. Width[q.model] = Dim[q.model]
  <2>1. Width[q.model] \in Nat /\ Dim[q.model] \in Nat
    BY <1>1, ClientAssumption
  <2> QED
    BY <1>2, <1>6, <2>1, SameWidth
<1>8. reply.rows = [k \in DOMAIN G |-> Own(b, G[k])]
  BY <1>1, <1>5, <1>7 DEF Results
<1>9. \A k \in DOMAIN G : Own(b, G[k]) \in Answer
  BY <1>2 DEF Own, Answer
<1>10. reply.rows \in Seq(Answer)
  BY <1>2, <1>8, <1>9
<1> QED
  BY <1>8, <1>10 DEF b, G, reply
-----------------------------------------------------------------------------
\* What one step does to a client.

Links == [state   : {"none", "backlog", "open", "closed"},
          request : Frames \union {NoFrame}, reply : Replied \union {NoFrame}]

LEMMA Untouched ==
    ASSUME NEW c \in Clients, ClientInv(c),
           pc'[c] = pc[c], block'[c] = block[c], answers'[c] = answers[c],
           link'[c] = link[c], outcome'[c] = outcome[c], output'[c] = output[c]
    PROVE  ClientInv(c)'
BY DEF ClientInv, AnswersInv, LinkInv, OutputInv, Busy, Pending, Group

\* A step of one client leaves the others alone.
LEMMA OthersUntouched ==
    ASSUME Inv, NEW c \in Clients, ClientInv(c)', TypeOK',
           \A d \in Clients \ {c} :
              /\ pc'[d] = pc[d] /\ block'[d] = block[d] /\ answers'[d] = answers[d]
              /\ link'[d] = link[d] /\ outcome'[d] = outcome[d] /\ output'[d] = output[d]
    PROVE  Inv'
<1>1. ASSUME NEW d \in Clients, d # c PROVE ClientInv(d)'
  BY <1>1, Untouched DEF Inv
<1> QED
  BY <1>1 DEF Inv

\* A process that exits leaves no frame and no half of a block.
LEMMA ExitStep ==
    ASSUME Inv, NEW c \in Clients, Exit(c), UNCHANGED <<daemon, block, answers, output>>,
           \/ outcome' = outcome
           \/ Busy(c) /\ \E how \in {"refused", "unreachable"} :
                            outcome' = [outcome EXCEPT ![c] = how]
    PROVE  Inv'
<1>1. /\ pc' = [pc EXCEPT ![c] = "exited"]
      /\ link' = [link EXCEPT ![c] = NoLink]
      /\ deadline' = [deadline EXCEPT ![c] = "unset"]
  BY DEF Exit
<1>2. /\ pc'[c] = "exited" /\ link'[c] = NoLink
      /\ \/ outcome'[c] = outcome[c]
         \/ Busy(c) /\ outcome'[c] \in {"refused", "unreachable"}
  <2>1. pc \in [Clients -> {"idle", "group", "recv", "sleep", "exited"}]
        /\ link \in [Clients -> Links]
        /\ outcome \in [Clients -> {"none", "written", "refused", "unreachable"}]
    BY DEF Inv, TypeOK, Links
  <2>2. pc'[c] = "exited" /\ link'[c] = NoLink
    BY <1>1, <2>1
  <2>3. CASE outcome' = outcome
    <3>1. outcome'[c] = outcome[c]
      BY <2>3
    <3> QED
      BY <2>2, <3>1
  <2>4. CASE Busy(c) /\ \E how \in {"refused", "unreachable"} : outcome' = [outcome EXCEPT ![c] = how]
    <3>1. outcome'[c] \in {"refused", "unreachable"}
      BY <2>1, <2>4
    <3> QED
      BY <2>2, <2>4, <3>1
  <2> QED
    BY <2>3, <2>4
<1>3. TypeOK'
  <2>1. NoLink \in Links
    BY DEF NoLink, Links
  <2>2. outcome' \in [Clients -> {"none", "written", "refused", "unreachable"}]
    <3>1. outcome \in [Clients -> {"none", "written", "refused", "unreachable"}]
      BY DEF Inv, TypeOK
    <3>2. CASE outcome' = outcome
      BY <3>1, <3>2
    <3>3. ASSUME NEW how \in {"refused", "unreachable"}, outcome' = [outcome EXCEPT ![c] = how]
          PROVE  outcome' \in [Clients -> {"none", "written", "refused", "unreachable"}]
      BY <3>1, <3>3
    <3> QED
      BY <3>2, <3>3
  <2> QED
    BY <1>1, <2>1, <2>2 DEF Inv, TypeOK, Links
<1>4. ClientInv(c)'
  <2>1. AnswersInv(c)' /\ LinkInv(c)'
    BY <1>2 DEF AnswersInv, LinkInv, Busy, NoLink
  <2>2. OutputInv(c)'
    BY <1>2 DEF Inv, ClientInv, OutputInv, Busy
  <2> QED
    BY <2>1, <2>2 DEF ClientInv
<1>5. \A d \in Clients \ {c} :
         /\ pc'[d] = pc[d] /\ block'[d] = block[d] /\ answers'[d] = answers[d]
         /\ link'[d] = link[d] /\ outcome'[d] = outcome[d] /\ output'[d] = output[d]
  BY <1>1 DEF Inv, TypeOK
<1> QED
  BY <1>3, <1>4, <1>5, OthersUntouched

\* A retry starts over with the same group and without a stream.
LEMMA RetryStep ==
    ASSUME Inv, NEW c \in Clients, Busy(c), Pending(c), Retry(c)
    PROVE  Inv'
<1>1. CASE deadline[c] = "passed"
  BY <1>1, ExitStep DEF Retry, Fail
<1>2. CASE deadline[c] # "passed"
  <2>1. /\ pc' = [pc EXCEPT ![c] = "sleep"]
        /\ link' = [link EXCEPT ![c] = NoLink]
        /\ deadline' = [deadline EXCEPT ![c] = "ahead"]
        /\ UNCHANGED <<daemon, block, answers, outcome, output>>
    BY <1>2 DEF Retry
  <2>2. pc'[c] = "sleep" /\ link'[c] = NoLink
    BY <2>1 DEF Inv, TypeOK
  <2>3. TypeOK'
    <3>1. NoLink \in Links
      BY DEF NoLink, Links
    <3> QED
      BY <2>1, <3>1 DEF Inv, TypeOK, Links
  <2>4. ClientInv(c)'
    BY <2>1, <2>2 DEF Inv, ClientInv, AnswersInv, LinkInv, OutputInv, Busy, Pending, NoLink
  <2>5. \A d \in Clients \ {c} : pc'[d] = pc[d] /\ link'[d] = link[d]
    BY <2>1 DEF Inv, TypeOK
  <2> QED
    BY <2>1, <2>3, <2>4, <2>5, OthersUntouched
<1> QED
  BY <1>1, <1>2

\* What the daemon does to a stream: it takes the request, and may reply to it.
LEMMA LinkStep ==
    ASSUME Inv, daemon' \in {"down", "up", "deaf"}, UNCHANGED clientVars,
           link' \in [Clients -> Links],
           \A c \in Clients :
              /\ link'[c].request \in {NoFrame, link[c].request}
              /\ \/ link'[c].reply = link[c].reply
                 \/ link'[c].reply = NoFrame
                 \/ /\ link[c].request # NoFrame /\ link'[c].request = NoFrame
                    /\ link'[c].reply \in {Refusal, Results(link[c].request)}
    PROVE  Inv'
<1>1. UNCHANGED <<pc, block, answers, deadline, outcome, output>>
  BY DEF clientVars
<1>2. TypeOK'
  BY <1>1 DEF Inv, TypeOK, Links
<1>3. ASSUME NEW c \in Clients PROVE ClientInv(c)'
  <2>1. ClientInv(c)
    BY DEF Inv
  <2>2. AnswersInv(c)' /\ OutputInv(c)'
    BY <1>1, <2>1 DEF ClientInv, AnswersInv, OutputInv, Busy
  <2>3. Pending(c)' = Pending(c) /\ Group(c)' = Group(c)
    BY <1>1 DEF Pending, Group
  <2>4. pc[c] # "recv" => link'[c].request = NoFrame /\ link'[c].reply = NoFrame
    BY <2>1 DEF ClientInv, LinkInv
  <2>5. pc[c] = "recv" =>
           /\ link'[c].request \in {NoFrame, Request(block[c], Group(c))}
           /\ link'[c].reply \in {NoFrame, Refusal, Results(Request(block[c], Group(c)))}
           /\ NoFrame \in {link'[c].request, link'[c].reply}
    BY <2>1 DEF ClientInv, LinkInv
  <2>6. LinkInv(c)'
    BY <1>1, <2>1, <2>3, <2>4, <2>5 DEF ClientInv, LinkInv
  <2> QED
    BY <2>2, <2>6 DEF ClientInv
<1> QED
  BY <1>2, <1>3 DEF Inv
-----------------------------------------------------------------------------
LEMMA InvStart == Init => Inv
<1> SUFFICES ASSUME Init PROVE Inv
  OBVIOUS
<1>1. TypeOK
  <2>1. NoLink \in Links
    BY DEF NoLink, Links
  <2>2. <<>> \in Seq(Row) /\ <<>> \in Seq(Seq(Answer)) /\ <<>> \in Seq(Answer)
    OBVIOUS
  <2> QED
    BY <2>1, <2>2 DEF Init, TypeOK, Links
<1>2. \A c \in Clients : ClientInv(c)
  BY DEF Init, ClientInv, AnswersInv, LinkInv, OutputInv, Busy, NoLink
<1> QED
  BY <1>1, <1>2 DEF Inv

LEMMA ReadStep ==
    ASSUME Inv, NEW c \in Clients, NEW b \in Blocks, ReadBlock(c, b)
    PROVE  Inv'
<1>1. b \in Seq(Row)
  BY ClientAssumption
<1>2. /\ pc[c] = "idle"
      /\ pc' = [pc EXCEPT ![c] = "group"]
      /\ block' = [block EXCEPT ![c] = b]
      /\ answers' = [answers EXCEPT ![c] = <<>>]
      /\ outcome' = [outcome EXCEPT ![c] = "none"]
      /\ output' = [output EXCEPT ![c] = <<>>]
      /\ UNCHANGED <<daemon, deadline, link>>
  BY DEF ReadBlock
<1>3. TypeOK'
  <2>1. <<>> \in Seq(Seq(Answer)) /\ <<>> \in Seq(Answer)
    OBVIOUS
  <2> QED
    BY <1>1, <1>2, <2>1 DEF Inv, TypeOK
<1>4. /\ pc'[c] = "group" /\ block'[c] = b /\ answers'[c] = <<>>
      /\ outcome'[c] = "none" /\ output'[c] = <<>> /\ link'[c] = link[c]
  BY <1>2 DEF Inv, TypeOK
<1>5. Right(b, <<>>)
  BY <1>1, GroupsProperties DEF Right
<1>6. ClientInv(c)'
  BY <1>2, <1>4, <1>5 DEF Inv, ClientInv, AnswersInv, LinkInv, OutputInv, Busy
<1>7. \A d \in Clients \ {c} :
         /\ pc'[d] = pc[d] /\ block'[d] = block[d] /\ answers'[d] = answers[d]
         /\ link'[d] = link[d] /\ outcome'[d] = outcome[d] /\ output'[d] = output[d]
  BY <1>2 DEF Inv, TypeOK
<1> QED
  BY <1>3, <1>6, <1>7, OthersUntouched

LEMMA SendStep ==
    ASSUME Inv, NEW c \in Clients, Send(c)
    PROVE  Inv'
<1> DEFINE q == Request(block[c], Group(c))
<1>1. /\ Attempting(c)
      /\ link' = [link EXCEPT ![c].state = IF @ = "none" THEN "backlog" ELSE @, ![c].request = q]
      /\ pc' = [pc EXCEPT ![c] = "recv"]
      /\ UNCHANGED <<daemon, block, answers, deadline, outcome, output>>
  BY DEF Send
<1>2. pc[c] \in {"group", "sleep"} /\ Pending(c) /\ link[c].reply = NoFrame
  BY <1>1 DEF Attempting, Inv, ClientInv, LinkInv
<1>3. q \in Frames
  BY <1>2, FramesTyped DEF Inv
<1> HIDE DEF q
<1>4. link \in [Clients -> Links]
  BY DEF Inv, TypeOK, Links
<1>5. /\ link' \in [Clients -> Links] /\ link'[c].request = q /\ link'[c].reply = link[c].reply
      /\ \A d \in Clients \ {c} : link'[d] = link[d]
  BY <1>1, <1>3, <1>4 DEF Links
<1>6. pc'[c] = "recv" /\ \A d \in Clients \ {c} : pc'[d] = pc[d]
  BY <1>1 DEF Inv, TypeOK
<1>7. TypeOK'
  BY <1>1, <1>5 DEF Inv, TypeOK, Links
<1>8. ClientInv(c)'
  <2>1. Group(c)' = Group(c) /\ Pending(c)' = Pending(c)
    BY <1>1 DEF Group, Pending
  <2>2. LinkInv(c)'
    BY <1>1, <1>2, <1>5, <1>6, <2>1 DEF LinkInv, q
  <2>3. AnswersInv(c)' /\ OutputInv(c)'
    BY <1>1, <1>2, <1>6 DEF Inv, ClientInv, AnswersInv, OutputInv, Busy
  <2> QED
    BY <2>2, <2>3 DEF ClientInv
<1> QED
  BY <1>1, <1>5, <1>6, <1>7, <1>8, OthersUntouched

LEMMA ReceiveStep ==
    ASSUME Inv, NEW c \in Clients, Receive(c)
    PROVE  Inv'
<1> DEFINE rows == link[c].reply.rows
           l == Len(answers[c])
<1>1. /\ pc[c] = "recv" /\ link[c].reply # NoFrame /\ Usable(c)
      /\ answers' = [answers EXCEPT ![c] = Append(@, rows)]
      /\ link' = [link EXCEPT ![c].reply = NoFrame]
      /\ deadline' = [deadline EXCEPT ![c] = "unset"]
      /\ pc' = [pc EXCEPT ![c] = "group"]
      /\ UNCHANGED <<daemon, block, outcome, output>>
  BY DEF Receive
<1>2. /\ Pending(c) /\ link[c].request \in {NoFrame, Request(block[c], Group(c))}
      /\ link[c].reply \in {Refusal, Results(Request(block[c], Group(c)))}
      /\ link[c].request = NoFrame
      /\ Right(block[c], answers[c])
  BY <1>1 DEF Inv, ClientInv, LinkInv, AnswersInv, Busy
<1>3. /\ rows = [k \in DOMAIN Group(c) |-> Own(block[c], Group(c)[k])]
      /\ rows \in Seq(Answer)
  BY <1>1, <1>2, UsableOwn DEF Inv
<1> HIDE DEF rows
<1>4. link \in [Clients -> Links] /\ answers \in [Clients -> Seq(Seq(Answer))] /\ l \in Nat
  BY LenProperties DEF Inv, TypeOK, Links
<1>5. /\ link' \in [Clients -> Links] /\ link'[c].request = NoFrame /\ link'[c].reply = NoFrame
      /\ \A d \in Clients \ {c} : link'[d] = link[d]
  <2> DEFINE new == [link[c] EXCEPT !.reply = NoFrame]
  <2>1. new \in Links /\ new.request = NoFrame /\ new.reply = NoFrame
    <3>1. link[c] \in Links /\ link[c].request = NoFrame
      BY <1>2, <1>4
    <3> QED
      BY ONLY <3>1 DEF Links
  <2>2. link' = [link EXCEPT ![c] = new]
    BY <1>1
  <2> HIDE DEF new
  <2> QED
    BY <1>4, <2>1, <2>2
<1>6. /\ answers'[c] = Append(answers[c], rows)
      /\ \A d \in Clients \ {c} : answers'[d] = answers[d]
  BY <1>1, <1>4
<1>7. Append(answers[c], rows) \in Seq(Seq(Answer))
  BY <1>3, <1>4
<1>8. pc'[c] = "group" /\ \A d \in Clients \ {c} : pc'[d] = pc[d]
  BY <1>1 DEF Inv, TypeOK
<1>9. TypeOK'
  <2>1. answers' \in [Clients -> Seq(Seq(Answer))]
    BY <1>1, <1>4, <1>7
  <2> QED
    BY <1>1, <1>5, <2>1 DEF Inv, TypeOK, Links
<1>10. Right(block[c], answers'[c])
  <2>1. /\ Len(answers'[c]) = l + 1 /\ answers'[c][l + 1] = rows
        /\ \A g \in 1..l : answers'[c][g] = answers[c][g]
    BY <1>3, <1>4, <1>6, AppendProperties
  <2>2. Len(Groups(block[c])) \in Nat /\ l < Len(Groups(block[c]))
    BY <1>2, GroupsProperties DEF Pending, Inv, TypeOK
  <2>3. Group(c) = Groups(block[c])[l + 1]
    BY DEF Group
  <2>4. ASSUME NEW g \in 1..(l + 1)
        PROVE  answers'[c][g] = [k \in DOMAIN Groups(block[c])[g] |-> Own(block[c], Groups(block[c])[g][k])]
    <3>1. CASE g \in 1..l
      BY <1>2, <2>1, <3>1 DEF Right
    <3>2. CASE g = l + 1
      BY <1>3, <2>1, <2>3, <3>2
    <3> QED
      BY <1>4, <3>1, <3>2
  <2> QED
    BY <1>4, <2>1, <2>2, <2>4 DEF Right
<1>11. ClientInv(c)'
  <2>1. AnswersInv(c)'
    BY <1>1, <1>10 DEF AnswersInv
  <2>2. LinkInv(c)'
    BY <1>5, <1>8 DEF LinkInv
  <2>3. OutputInv(c)'
    BY <1>1, <1>8 DEF Inv, ClientInv, OutputInv, Busy
  <2> QED
    BY <2>1, <2>2, <2>3 DEF ClientInv
<1> QED
  BY <1>1, <1>5, <1>6, <1>8, <1>9, <1>11, OthersUntouched

LEMMA WriteStep ==
    ASSUME Inv, NEW c \in Clients, WriteBlock(c)
    PROVE  Inv'
<1> DEFINE b == block[c]
           own == [r \in DOMAIN b |-> Own(b, r)]
<1>1. /\ pc[c] = "group" /\ ~Pending(c)
      /\ output' = [output EXCEPT ![c] = Place(b, answers[c])]
      /\ outcome' = [outcome EXCEPT ![c] = "written"]
      /\ pc' = [pc EXCEPT ![c] = "idle"]
      /\ UNCHANGED <<daemon, block, answers, deadline, link>>
  BY DEF WriteBlock
<1>2. b \in Seq(Row) /\ answers[c] \in Seq(Seq(Answer)) /\ Right(b, answers[c])
  BY <1>1 DEF Inv, TypeOK, ClientInv, AnswersInv, Busy
<1>3. Len(answers[c]) = Len(Groups(b))
  <2>1. Len(answers[c]) \in Nat /\ Len(Groups(b)) \in Nat
    BY <1>2, LenProperties, GroupsProperties
  <2> QED
    BY <1>1, <1>2, <2>1 DEF Pending, Right
<1>4. Place(b, answers[c]) = own
  BY <1>2, <1>3, PlaceOwn
<1>5. own \in Seq(Answer)
  <2>1. /\ DOMAIN b = 1..Len(b) /\ Len(b) \in Nat
        /\ \A r \in DOMAIN b : b[r].model \in Models /\ b[r].item \in Items
    BY <1>2, BlockTyped
  <2>2. \A r \in 1..Len(b) : Own(b, r) \in Answer
    BY <2>1 DEF Own, Answer
  <2> QED
    BY <2>1, <2>2
<1>6. TypeOK'
  BY <1>1, <1>4, <1>5 DEF Inv, TypeOK
<1>7. /\ pc'[c] = "idle" /\ outcome'[c] = "written" /\ output'[c] = own
      /\ \A d \in Clients \ {c} :
            pc'[d] = pc[d] /\ outcome'[d] = outcome[d] /\ output'[d] = output[d]
  BY <1>1, <1>4 DEF Inv, TypeOK
<1>8. ClientInv(c)'
  BY <1>1, <1>7 DEF Inv, ClientInv, AnswersInv, LinkInv, OutputInv, Busy
<1> QED
  BY <1>1, <1>6, <1>7, <1>8, OthersUntouched

LEMMA DaemonSteps ==
    ASSUME Inv,
           \/ \E c \in Clients : Accept(c) \/ Handle(c)
           \/ AcceptLoopEnds \/ DaemonStops \/ DaemonStarts
    PROVE  Inv'
<1>0. link \in [Clients -> Links] /\ daemon \in {"down", "up", "deaf"}
  BY DEF Inv, TypeOK, Links
<1>1. ASSUME NEW c \in Clients, Accept(c) PROVE Inv'
  <2>1. link' = [link EXCEPT ![c].state = "open"] /\ UNCHANGED <<daemon, clientVars>>
    BY <1>1 DEF Accept
  <2>2. link' \in [Clients -> Links] /\ \A d \in Clients : link'[d].request = link[d].request
        /\ link'[d].reply = link[d].reply
    BY <1>0, <2>1 DEF Links
  <2> QED
    BY <1>0, <2>1, <2>2, LinkStep
<1>2. ASSUME NEW c \in Clients, Handle(c) PROVE Inv'
  <2> DEFINE q == link[c].request
  <2>1. q # NoFrame /\ UNCHANGED <<daemon, clientVars>>
    BY <1>2 DEF Handle
  <2>2. Results(q) \in Replied /\ Refusal \in Replied
    <3>1. Pending(c) /\ q = Request(block[c], Group(c))
      BY <2>1 DEF Inv, ClientInv, LinkInv
    <3> QED
      BY <3>1, FramesTyped DEF Inv
  <2>3. PICK reply \in {link[c].reply, Refusal, Results(q)}, state \in {link[c].state, "closed"} :
           link' = [link EXCEPT ![c].state = state, ![c].request = NoFrame, ![c].reply = reply]
    <3>1. CASE RequestSize(q) > MaxFrame
      <4>1. link' = [link EXCEPT ![c].state = "closed", ![c].request = NoFrame]
        BY <1>2, <3>1 DEF Handle
      <4>2. link' = [link EXCEPT ![c].state = "closed", ![c].request = NoFrame, ![c].reply = link[c].reply]
        BY <1>0, <4>1 DEF Links
      <4> QED
        BY <4>2
    <3>2. CASE ~(RequestSize(q) > MaxFrame)
      <4>1. PICK reply \in Replies(q) : link' = [link EXCEPT ![c].request = NoFrame, ![c].reply = reply]
        BY <1>2, <3>2 DEF Handle
      <4>2. link' = [link EXCEPT ![c].state = link[c].state, ![c].request = NoFrame, ![c].reply = reply]
        BY <1>0, <4>1 DEF Links
      <4>3. reply \in {Refusal, Results(q)}
        BY DEF Replies
      <4> QED
        BY <4>2, <4>3
    <3> QED
      BY <3>1, <3>2
  <2> HIDE DEF q
  <2>4. reply \in Replied \union {NoFrame} /\ state \in {"none", "backlog", "open", "closed"}
    BY <1>0, <2>2, <2>3 DEF Links
  <2>5. /\ link' \in [Clients -> Links]
        /\ link'[c].request = NoFrame /\ link'[c].reply = reply
        /\ \A d \in Clients \ {c} : link'[d] = link[d]
    <3> DEFINE new == [link[c] EXCEPT !.state = state, !.request = NoFrame, !.reply = reply]
    <3>1. new \in Links /\ new.request = NoFrame /\ new.reply = reply
      BY <1>0, <2>4 DEF Links
    <3>2. link' = [link EXCEPT ![c] = new]
      BY <1>0, <2>3 DEF Links
    <3> HIDE DEF new
    <3> QED
      BY <1>0, <3>1, <3>2
  <2>6. \A d \in Clients :
           /\ link'[d].request \in {NoFrame, link[d].request}
           /\ \/ link'[d].reply = link[d].reply
              \/ link'[d].reply = NoFrame
              \/ /\ link[d].request # NoFrame /\ link'[d].request = NoFrame
                 /\ link'[d].reply \in {Refusal, Results(link[d].request)}
    BY <2>1, <2>3, <2>5 DEF q
  <2> QED
    BY <1>0, <2>1, <2>5, <2>6, LinkStep
<1>3. CASE AcceptLoopEnds \/ DaemonStops
  <2>1. /\ daemon' \in {"down", "deaf"} /\ UNCHANGED clientVars
        /\ link' = [c \in Clients |-> link'[c]]
        /\ \A c \in Clients : link'[c] \in {link[c], NoLink, Cut(c)}
    BY <1>3 DEF AcceptLoopEnds, DaemonStops
  <2>2. \A c \in Clients : /\ link[c] \in Links /\ NoLink \in Links /\ Cut(c) \in Links
                           /\ NoLink.request = NoFrame /\ NoLink.reply = NoFrame
                           /\ Cut(c).request = NoFrame /\ Cut(c).reply = link[c].reply
    BY <1>0 DEF Links, Cut, NoLink
  <2> QED
    BY <2>1, <2>2, LinkStep
<1>4. CASE DaemonStarts
  <2>1. daemon' = "up" /\ UNCHANGED <<link, clientVars>>
    BY <1>4 DEF DaemonStarts
  <2> QED
    BY <1>0, <2>1, LinkStep
<1> QED
  BY <1>1, <1>2, <1>3, <1>4

LEMMA InvStep == Inv /\ [Next]_vars => Inv'
<1> SUFFICES ASSUME Inv, [Next]_vars PROVE Inv'
  OBVIOUS
<1>1. ASSUME NEW c \in Clients, NEW b \in Blocks, ReadBlock(c, b) PROVE Inv'
  BY <1>1, ReadStep
<1>2. ASSUME NEW c \in Clients, InputEnds(c) PROVE Inv'
  BY <1>2, ExitStep DEF InputEnds
<1>3. ASSUME NEW c \in Clients, Respawn(c) PROVE Inv'
  <2>1. /\ pc[c] = "exited" /\ pc' = [pc EXCEPT ![c] = "idle"]
        /\ UNCHANGED <<daemon, block, answers, deadline, link, outcome, output>>
    BY <1>3 DEF Respawn
  <2>2. pc'[c] = "idle" /\ TypeOK' /\ \A d \in Clients \ {c} : pc'[d] = pc[d]
    BY <2>1 DEF Inv, TypeOK
  <2>3. ClientInv(c)'
    BY <2>1, <2>2 DEF Inv, ClientInv, AnswersInv, LinkInv, OutputInv, Busy
  <2> QED
    BY <2>1, <2>2, <2>3, OthersUntouched
<1>4. ASSUME NEW c \in Clients, RefuseRagged(c) \/ ReceiveRefusal(c) PROVE Inv'
  BY <1>4, ExitStep DEF RefuseRagged, ReceiveRefusal, Fail, Busy
<1>5. ASSUME NEW c \in Clients, SendFails(c) \/ ReplyLost(c) PROVE Inv'
  <2>1. Busy(c) /\ Pending(c) /\ Retry(c)
    BY <1>5 DEF SendFails, ReplyLost, Attempting, Busy, Inv, ClientInv, LinkInv
  <2> QED
    BY <2>1, RetryStep
<1>6. ASSUME NEW c \in Clients, Send(c) \/ Receive(c) \/ WriteBlock(c) PROVE Inv'
  BY <1>6, SendStep, ReceiveStep, WriteStep
<1>7. ASSUME NEW c \in Clients, WindowEnds(c) PROVE Inv'
  <2>1. /\ deadline' = [deadline EXCEPT ![c] = "passed"]
        /\ UNCHANGED <<daemon, pc, block, answers, link, outcome, output>>
    BY <1>7 DEF WindowEnds
  <2>2. TypeOK'
    BY <2>1 DEF Inv, TypeOK
  <2>3. \A d \in Clients : ClientInv(d)'
    BY <2>1, Untouched DEF Inv
  <2> QED
    BY <2>2, <2>3 DEF Inv
<1>8. CASE \/ \E c \in Clients : Accept(c) \/ Handle(c)
           \/ AcceptLoopEnds \/ DaemonStops \/ DaemonStarts
  BY <1>8, DaemonSteps
<1>9. CASE UNCHANGED vars
  <2>1. UNCHANGED <<daemon, pc, block, answers, deadline, link, outcome, output>>
    BY <1>9 DEF vars
  <2>2. TypeOK'
    BY <2>1 DEF Inv, TypeOK
  <2>3. \A d \in Clients : ClientInv(d)'
    BY <2>1, Untouched DEF Inv
  <2> QED
    BY <2>2, <2>3 DEF Inv
<1> QED
  BY <1>1, <1>2, <1>3, <1>4, <1>5, <1>6, <1>7, <1>8, <1>9 DEF Next, ClientStep

LEMMA Invariance == SafeSpec => []Inv
BY InvStart, InvStep, PTL DEF SafeSpec

\* No answer a client has taken is garbled: a reply whose floats do not make
\* one row of the declared width per row sent is refused.
THEOREM TypeCorrect == SafeSpec => []TypeOK
<1>1. Inv => TypeOK
  BY DEF Inv
<1> QED
  BY <1>1, Invariance, PTL

\* What is written for a block is, row by row, the answer of that row's model
\* to that row's item; a block that does not end well leaves nothing behind.
THEOREM RowsAreOwn == SafeSpec => []OwnRows
<1>1. Inv => OwnRows
  BY DEF Inv, ClientInv, OutputInv, OwnRows, Own
<1> QED
  BY <1>1, Invariance, PTL
=============================================================================
