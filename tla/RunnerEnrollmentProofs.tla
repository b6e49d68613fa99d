------------------------ MODULE RunnerEnrollmentProofs ------------------------
(***************************************************************************)
(* Enrollment for every number of services, codes, tokens, requests and    *)
(* crashes.  EnrollmentSafety is not inductive: it says nothing of the     *)
(* redemption that runs (HeadFormed), of the code each token was made for  *)
(* (TokensFit), nor of whom a reply on its way belongs to (ForItsClient).  *)
(***************************************************************************)
EXTENDS RunnerEnrollment, SequenceTheorems, TLAPS

\* The redemption that runs: it has passed the checks before it, its token
\* is new, and the file is one step ahead of the memory after the rename.
HeadFormed ==
    /\ stage # "check" => queue # <<>>
    /\ queue # <<>> => gwUp
    /\ stage \in {"offers", "persist", "renamed"} => Head1.code \notin current.consumed
    /\ stage \in {"persist", "renamed"} => token \in Tokens /\ minted[token] = Head1.code
    /\ stage = "renamed" => disk = NextState /\ bound = current.bindings

\* A token in the file was made for a code the file counts as consumed, and
\* no other token in it was made for that code.
TokensFit ==
    /\ \A t \in disk.bindings : minted[t] \in disk.consumed
    /\ \A t, u \in disk.bindings : minted[t] = minted[u] => t = u

\* What is on its way to a client, or kept by it, was made for its own code.
ForItsClient ==
    /\ \A i \in DOMAIN queue : queue[i].code = CodeOf[queue[i].client]
    /\ \A r \in replies : r.token # NoToken => minted[r.token] = CodeOf[r.client]
    /\ \A c \in Clients : /\ got[c] # NoToken => minted[got[c]] = CodeOf[c]
                          /\ config[c] # NoToken => minted[config[c]] = CodeOf[c]

\* A process that is down remembers nothing.
DownIsEmpty == ~gwUp => current = NoState /\ bound = {}

IInv ==
    /\ TypeOK /\ InstalledIsBound /\ MemoryIsDisk
    /\ HeadFormed /\ TokensFit /\ ForItsClient /\ DownIsEmpty

USE EnrollmentAssumption

LEMMA InitIInv == Init => IInv
BY DEF Init, IInv, TypeOK, State, NoState, InstalledIsBound, MemoryIsDisk,
       HeadFormed, TokensFit, ForItsClient, DownIsEmpty

\* The head of the queue and what is left without it.
LEMMA QueueLemma ==
    ASSUME TypeOK, ForItsClient, queue # <<>>
    PROVE  /\ Head1 \in Request /\ Head1.code = CodeOf[Head1.client]
           /\ Tail(queue) \in Seq(Request)
           /\ \A i \in DOMAIN Tail(queue) : Tail(queue)[i].code = CodeOf[Tail(queue)[i].client]
<1>1. queue \in Seq(Request) /\ Len(queue) >= 1
  BY EmptySeq DEF TypeOK
<1>2. 1 \in DOMAIN queue
  BY <1>1
<1>3. Head1 \in Request /\ Head1.code = CodeOf[Head1.client]
  BY <1>1, <1>2 DEF Head1, ForItsClient
<1>4. Tail(queue) \in Seq(Request)
  BY <1>1
<1>5. ASSUME NEW i \in DOMAIN Tail(queue)
      PROVE  Tail(queue)[i].code = CodeOf[Tail(queue)[i].client]
  BY <1>1, <1>5 DEF ForItsClient
<1> QED  BY <1>3, <1>4, <1>5

\* The head settles with t, which is NoToken or a token that counts by then.
LEMMA SettleLemma ==
    ASSUME IInv, queue # <<>>, NEW t \in Tokens \cup {NoToken}, Settle(t),
           UNCHANGED <<gwUp, minted, disk, offered, client, crashes>>,
           current' = disk, bound' = disk.bindings,
           t # NoToken => t \in disk.bindings /\ minted[t] = Head1.code
    PROVE  IInv'
<1> USE DEF IInv
<1>1. gwUp
  BY DEF HeadFormed
<1>2. Head1 \in Request /\ Head1.code = CodeOf[Head1.client] /\ Tail(queue) \in Seq(Request)
  BY QueueLemma
<1>3. TypeOK'
  BY <1>2 DEF TypeOK, Settle, Reply, client, Request, State
<1>4. InstalledIsBound'
  BY <1>1 DEF InstalledIsBound, Settle, Reply, client, TypeOK, State
<1>5. ForItsClient'
  BY <1>2, QueueLemma DEF ForItsClient, Settle, Reply, client
<1>6. HeadFormed' /\ DownIsEmpty' /\ MemoryIsDisk'
  BY <1>1 DEF HeadFormed, DownIsEmpty, MemoryIsDisk, Settle
<1>7. TokensFit'
  BY DEF TokensFit
<1> QED  BY <1>3, <1>4, <1>5, <1>6, <1>7

LEMMA CheckConsumedStep == IInv /\ CheckConsumed => IInv'
<1> SUFFICES ASSUME IInv, CheckConsumed PROVE IInv'
  OBVIOUS
<1>1. gwUp /\ current = disk /\ bound = disk.bindings
  BY DEF CheckConsumed, IInv, HeadFormed, MemoryIsDisk
<1>2. CASE Head1.code \in current.consumed
  BY <1>1, <1>2, SettleLemma DEF CheckConsumed
<1>3. CASE Head1.code \notin current.consumed
  BY <1>3
  DEF CheckConsumed, client, IInv, TypeOK, InstalledIsBound, MemoryIsDisk,
      HeadFormed, TokensFit, ForItsClient, DownIsEmpty, Head1
<1> QED  BY <1>2, <1>3

LEMMA MakeBindingStep == IInv /\ MakeBinding => IInv'
<1> SUFFICES ASSUME IInv, MakeBinding PROVE IInv'
  OBVIOUS
<1> USE DEF IInv
<1>1. gwUp /\ queue # <<>> /\ current = disk /\ bound = disk.bindings
  BY DEF MakeBinding, HeadFormed, MemoryIsDisk
<1>2. CASE Head1.code \notin offered
  BY <1>1, <1>2, SettleLemma DEF MakeBinding
<1>3. CASE Head1.code \in offered
  <2>1. PICK t \in Tokens : /\ minted[t] = NoCode /\ token' = t
                            /\ minted' = [minted EXCEPT ![t] = Head1.code]
    BY <1>3 DEF MakeBinding
  <2>2. /\ stage' = "persist"
        /\ UNCHANGED <<gwUp, disk, current, bound, queue, offered, replies, client, crashes>>
    BY <1>3 DEF MakeBinding
  <2>3. Head1 \in Request
    BY <1>1, QueueLemma
  <2>4. TypeOK'
    BY <2>1, <2>2, <2>3 DEF TypeOK, client, Request
  <2>5. \A u \in Tokens : minted[u] \in Codes => u # t /\ minted'[u] = minted[u]
    BY <2>1 DEF TypeOK
  <2>6. \A u \in disk.bindings : minted[u] \in Codes
    BY DEF TypeOK, State, TokensFit
  <2>7. TokensFit'
    BY <2>2, <2>5, <2>6 DEF TokensFit, TypeOK, State
  <2>8. ForItsClient'
    BY <2>1, <2>2, <2>5 DEF ForItsClient, TypeOK, client, Request
  <2>9. HeadFormed'
    BY <1>1, <2>1, <2>2, <2>3 DEF HeadFormed, Head1, TypeOK, MakeBinding
  <2>10. InstalledIsBound' /\ MemoryIsDisk' /\ DownIsEmpty'
    BY <1>1, <2>2 DEF InstalledIsBound, MemoryIsDisk, DownIsEmpty, client
  <2> QED  BY <2>4, <2>7, <2>8, <2>9, <2>10
<1> QED  BY <1>2, <1>3

LEMMA RenameStep == IInv /\ Rename => IInv'
<1> SUFFICES ASSUME IInv, Rename PROVE IInv'
  OBVIOUS
<1> USE DEF IInv
<1>1. /\ gwUp /\ queue # <<>> /\ current = disk /\ bound = disk.bindings
      /\ Head1.code \notin disk.consumed
      /\ token \in Tokens /\ minted[token] = Head1.code
  BY DEF Rename, HeadFormed, MemoryIsDisk
<1>2. /\ disk' = [consumed |-> disk.consumed \cup {Head1.code},
                  bindings |-> disk.bindings \cup {token}]
      /\ stage' = "renamed"
      /\ UNCHANGED <<gwUp, current, bound, queue, token, minted, offered, replies, client, crashes>>
  BY <1>1 DEF Rename, NextState
<1>3. Head1 \in Request
  BY <1>1, QueueLemma
<1>4. TypeOK'
  BY <1>1, <1>2, <1>3 DEF TypeOK, State, Request, client
<1>5. TokensFit'
  BY <1>1, <1>2 DEF TokensFit, TypeOK, State
<1>6. HeadFormed' /\ ForItsClient'
  BY <1>1, <1>2 DEF HeadFormed, ForItsClient, Head1, NextState, client
<1>7. InstalledIsBound' /\ MemoryIsDisk' /\ DownIsEmpty'
  BY <1>1, <1>2 DEF InstalledIsBound, MemoryIsDisk, DownIsEmpty, client
<1> QED  BY <1>4, <1>5, <1>6, <1>7

LEMMA PersistFailsStep == IInv /\ PersistFails => IInv'
<1> SUFFICES ASSUME IInv, PersistFails PROVE IInv'
  OBVIOUS
<1>1. queue # <<>> /\ current = disk /\ bound = disk.bindings
  BY DEF PersistFails, IInv, HeadFormed, MemoryIsDisk
<1> QED  BY <1>1, SettleLemma DEF PersistFails

LEMMA CommitStep == IInv /\ Commit => IInv'
<1> SUFFICES ASSUME IInv, Commit PROVE IInv'
  OBVIOUS
<1>1. /\ queue # <<>> /\ disk = NextState /\ bound = current.bindings
      /\ token \in Tokens /\ minted[token] = Head1.code
  BY DEF Commit, IInv, HeadFormed
<1>2. current' = disk /\ bound' = disk.bindings /\ token \in disk.bindings
  BY <1>1 DEF Commit, NextState
<1> QED  BY <1>1, <1>2, SettleLemma DEF Commit

LEMMA GatewayLives ==
    IInv /\ (GatewayCrash \/ GatewayStart \/ \E k \in Codes : Expire(k)) => IInv'
<1> USE DEF IInv
<1>1. ASSUME IInv, GatewayCrash PROVE IInv'
  <2>1. /\ gwUp' = FALSE /\ current' = NoState /\ bound' = {}
        /\ queue' = <<>> /\ stage' = "check" /\ token' = NoToken
        /\ crashes < MaxCrashes /\ crashes' = crashes + 1
        /\ UNCHANGED <<disk, minted, offered, replies, pc, attempt, got, config, bootstrap>>
    BY <1>1 DEF GatewayCrash, client
  <2>2. NoState \in State /\ queue' \in Seq(Request) /\ DOMAIN queue' = {}
    BY <2>1 DEF State, NoState
  <2>3. crashes' \in 0 .. MaxCrashes
    BY <1>1, <2>1, EnrollmentAssumption DEF TypeOK
  <2>4. TypeOK'
    BY <1>1, <2>1, <2>2, <2>3 DEF TypeOK
  <2>5. InstalledIsBound' /\ MemoryIsDisk' /\ HeadFormed' /\ DownIsEmpty'
    BY <1>1, <2>1 DEF InstalledIsBound, MemoryIsDisk, HeadFormed, DownIsEmpty
  <2>6. TokensFit' /\ ForItsClient'
    BY <1>1, <2>1, <2>2 DEF TokensFit, ForItsClient
  <2> QED  BY <2>4, <2>5, <2>6
<1>2. ASSUME IInv, GatewayStart PROVE IInv'
  BY <1>2
  DEF GatewayStart, client, TypeOK, State, InstalledIsBound,
      MemoryIsDisk, HeadFormed, TokensFit, ForItsClient, DownIsEmpty
<1>3. ASSUME IInv, NEW k \in Codes, Expire(k) PROVE IInv'
  BY <1>3
  DEF Expire, gateway, client, TypeOK, InstalledIsBound, NextState, Head1,
      MemoryIsDisk, HeadFormed, TokensFit, ForItsClient, DownIsEmpty
<1> QED  BY <1>1, <1>2, <1>3

\* A request is appended: the head of a queue that had one stays.
LEMMA StartEnrollingStep ==
    ASSUME IInv, NEW c \in Clients, StartEnrolling(c)
    PROVE  IInv'
<1> USE DEF IInv
<1> DEFINE r == [client |-> c, attempt |-> attempt[c] + 1, code |-> CodeOf[c]]
<1>1. r \in Request
  BY DEF StartEnrolling, TypeOK, Request
<1>2. queue \in Seq(Request)
  BY DEF TypeOK
<1>3. queue' = queue \/ (gwUp /\ queue' = Append(queue, r))
  BY DEF StartEnrolling
<1>4. /\ queue' \in Seq(Request)
      /\ \A i \in DOMAIN queue' : queue'[i].code = CodeOf[queue'[i].client]
      /\ queue # <<>> => queue' # <<>> /\ queue'[1] = queue[1]
      /\ queue' # <<>> => gwUp
  <2> HIDE DEF r
  <2>1. CASE queue' = queue
    BY <1>2, <2>1 DEF ForItsClient, HeadFormed
  <2>2. CASE gwUp /\ queue' = Append(queue, r)
    <3>1. r.code = CodeOf[r.client]
      BY DEF r
    <3>2. /\ Len(queue') = Len(queue) + 1
          /\ queue'[Len(queue) + 1] = r
          /\ \A i \in 1 .. Len(queue) : queue'[i] = queue[i]
      BY <1>1, <1>2, <2>2
    <3>3. queue' \in Seq(Request)
      BY <1>1, <1>2, <2>2
    <3>4. \A i \in DOMAIN queue' : queue'[i].code = CodeOf[queue'[i].client]
      BY <1>2, <3>1, <3>2, <3>3 DEF ForItsClient
    <3>5. queue # <<>> => queue' # <<>> /\ queue'[1] = queue[1]
      BY <1>2, <3>2, EmptySeq
    <3> QED  BY <2>2, <3>3, <3>4, <3>5
  <2> QED  BY <1>3, <2>1, <2>2
<1> HIDE DEF r
<1>5. /\ attempt' = [attempt EXCEPT ![c] = @ + 1] /\ attempt[c] < MaxAttempts
      /\ pc' = [pc EXCEPT ![c] = "waiting"]
      /\ UNCHANGED <<gwUp, disk, current, bound, stage, token, minted,
                     offered, replies, got, config, bootstrap, crashes>>
  BY DEF StartEnrolling
<1>6. TypeOK'
  BY <1>4, <1>5 DEF TypeOK
<1>7. HeadFormed'
  BY <1>4, <1>5 DEF HeadFormed, Head1, NextState
<1>8. ForItsClient'
  BY <1>4, <1>5 DEF ForItsClient
<1>9. InstalledIsBound' /\ MemoryIsDisk' /\ TokensFit' /\ DownIsEmpty'
  BY <1>5 DEF InstalledIsBound, MemoryIsDisk, TokensFit, DownIsEmpty
<1> QED  BY <1>6, <1>7, <1>8, <1>9

LEMMA ClientSteps ==
    ASSUME IInv, NEW c \in Clients,
           \/ StartInstalled(c) \/ ReadReply(c) \/ SaveConfig(c)
           \/ OverwriteBootstrap(c) \/ UnlinkBootstrap(c) \/ ClientFails(c)
    PROVE  IInv'
<1> USE DEF IInv, gateway
<1>1. UNCHANGED <<gateway, offered, attempt, crashes>>
  BY DEF StartInstalled, ReadReply, SaveConfig, OverwriteBootstrap, UnlinkBootstrap, ClientFails
<1>2. MemoryIsDisk' /\ HeadFormed' /\ TokensFit' /\ DownIsEmpty'
  BY <1>1 DEF MemoryIsDisk, HeadFormed, Head1, NextState, TokensFit, DownIsEmpty
<1>3. CASE ReadReply(c)
  <2>1. PICK r \in replies : /\ r.client = c
                             /\ got' = [got EXCEPT ![c] = r.token]
                             /\ replies' = replies \ {r}
                             /\ pc' = [pc EXCEPT ![c] = IF r.token = NoToken THEN "off" ELSE "save"]
                             /\ UNCHANGED <<config, bootstrap>>
    BY <1>3 DEF ReadReply
  <2>2. TypeOK'
    BY <1>1, <2>1 DEF TypeOK
  <2>3. InstalledIsBound'
    BY <1>1, <2>1 DEF InstalledIsBound, TypeOK
  <2>4. ForItsClient'
    BY <1>1, <2>1 DEF ForItsClient, TypeOK
  <2> QED  BY <1>2, <2>2, <2>3, <2>4
<1>4. CASE \/ StartInstalled(c) \/ SaveConfig(c) \/ OverwriteBootstrap(c)
           \/ UnlinkBootstrap(c) \/ ClientFails(c)
  <2>1. TypeOK'
    BY <1>1, <1>4
    DEF TypeOK, StartInstalled, SaveConfig, OverwriteBootstrap, UnlinkBootstrap, ClientFails
  <2>2. InstalledIsBound'
    BY <1>1, <1>4
    DEF InstalledIsBound, TypeOK, StartInstalled, SaveConfig, OverwriteBootstrap,
        UnlinkBootstrap, ClientFails
  <2>3. ForItsClient'
    BY <1>1, <1>4
    DEF ForItsClient, TypeOK, StartInstalled, SaveConfig, OverwriteBootstrap,
        UnlinkBootstrap, ClientFails
  <2> QED  BY <1>2, <2>1, <2>2, <2>3
<1> QED  BY <1>3, <1>4

LEMMA NextIInv == IInv /\ [Next]_vars => IInv'
<1>1. CASE Next
  BY <1>1, CheckConsumedStep, MakeBindingStep, RenameStep, PersistFailsStep,
     CommitStep, GatewayLives, StartEnrollingStep, ClientSteps
  DEF Next, GatewayStep
<1>2. CASE UNCHANGED vars
  BY <1>2
  DEF vars, gateway, client, IInv, TypeOK, InstalledIsBound, MemoryIsDisk,
      HeadFormed, Head1, NextState, TokensFit, ForItsClient, DownIsEmpty
<1> QED  BY <1>1, <1>2

LEMMA SpecIInv == Spec => []IInv
BY InitIInv, NextIInv, PTL DEF Spec

\* What an enrollment leaves behind, wherever the gateway or a client stops:
\* a code gives one device at most, and what a client installed or is about
\* to install is in the file and known to the gateway that runs.
THEOREM EnrollmentIsSafe == Spec => []EnrollmentSafety
<1>1. IInv => EnrollmentSafety
  <2> SUFFICES ASSUME IInv PROVE EnrollmentSafety
    OBVIOUS
  <2>1. bound \subseteq disk.bindings
    BY DEF IInv, MemoryIsDisk, HeadFormed, DownIsEmpty, NextState
  <2>2. \A c \in Clients : config[c] # NoToken => config[c] \in disk.bindings
    BY DEF IInv, InstalledIsBound
  <2>3. OneDevicePerCode
    BY <2>1, <2>2 DEF OneDevicePerCode, Valid, IInv, TokensFit
  <2>4. LeftCodeIsSpent
    BY <2>2 DEF LeftCodeIsSpent, IInv, TokensFit, ForItsClient
  <2> QED  BY <2>3, <2>4 DEF EnrollmentSafety, IInv
<1> QED  BY <1>1, SpecIInv, PTL
===============================================================================
