------------------------ MODULE ConfigurePoolProofs -------------------------
(***************************************************************************)
(* Proofs about ConfigurePool for any number of interfaces, workers and    *)
(* retries, with and without cancellation.                                 *)
(***************************************************************************)
EXTENDS ConfigurePool, FiniteSetTheorems, TLAPS

(* Appending to the channel keeps its elements and adds one at the end.    *)
LEMMA AppendFacts ==
  ASSUME NEW S, NEW q \in Seq(S), NEW e \in S
  PROVE  /\ Append(q, e) \in Seq(S)
         /\ DOMAIN Append(q, e) = 1 .. Len(q) + 1
         /\ DOMAIN q = 1 .. Len(q)
         /\ Len(q) \in Nat
         /\ \A k \in 1 .. Len(q) : Append(q, e)[k] = q[k]
         /\ Append(q, e)[Len(q) + 1] = e
  OBVIOUS

(* Receiving takes the first element and shifts the others.                *)
LEMMA TailFacts ==
  ASSUME NEW S, NEW q \in Seq(S), q # << >>
  PROVE  /\ Tail(q) \in Seq(S)
         /\ Head(q) = q[1]
         /\ Head(q) \in S
         /\ 1 \in DOMAIN q
         /\ Len(q) \in Nat
         /\ DOMAIN q = 1 .. Len(q)
         /\ DOMAIN Tail(q) = 1 .. Len(q) - 1
         /\ \A k \in 1 .. Len(q) - 1 : Tail(q)[k] = q[k + 1]
  OBVIOUS

(* What is in the channel is an envelope for an interface of the batch.    *)
LEMMA ChannelElements ==
  ASSUME queue \in Seq(Envelope)
  PROVE  \A k \in DOMAIN queue : queue[k].job \in Ifaces
<1>1. ASSUME NEW k \in DOMAIN queue PROVE queue[k] \in Envelope
  OBVIOUS
<1> QED BY <1>1 DEF Envelope

(* An early error changes nothing but the caller.                           *)
LEMMA ExecuteErrorStep ==
  ASSUME PoolInv, ExecuteError
  PROVE  PoolInv'
<1> USE PoolAssumption DEF PoolInv, ExecuteError, Holding, NoEnvelope, Envelope, mainVars, reportVars
<1>1. TypeOK'
  BY DEF TypeOK, OneHolder, WorkerInv
<1>2. OneHolder'
  BY DEF TypeOK, OneHolder, Queued, MainInv
<1>3. Outstanding' = Outstanding
  BY DEF TypeOK, OneHolder, WorkerInv, MainInv, SettledInv, Outstanding, Settled, Held
<1>4. MainInv'
  BY <1>3 DEF TypeOK, MainInv
<1>5. WorkerInv'
  BY DEF TypeOK, OneHolder, WorkerInv, SettledInv, Settled
<1>6. SettledInv'
  BY DEF TypeOK, OneHolder, WorkerInv, SettledInv, Settled, Queued, MainInv
<1>7. CountedOK' = CountedOK /\ CountedFailed' = CountedFailed
  BY DEF TypeOK, OneHolder, WorkerInv, SettledInv, Settled, CountedOK, CountedFailed, InHook
<1>8. CountInv'
  BY <1>3, <1>7 DEF CountInv
<1> QED BY <1>1, <1>2, <1>4, <1>5, <1>6, <1>8 DEF PoolInv

(* Starting the pool changes nothing but the caller.                        *)
LEMMA StartPoolStep ==
  ASSUME PoolInv, StartPool
  PROVE  PoolInv'
<1> USE PoolAssumption DEF PoolInv, StartPool, Holding, NoEnvelope, Envelope, mainVars, reportVars
<1>1. TypeOK'
  BY DEF TypeOK, OneHolder, WorkerInv
<1>2. OneHolder'
  BY DEF TypeOK, OneHolder, Queued, MainInv
<1>3. Outstanding' = Outstanding
  BY DEF TypeOK, OneHolder, WorkerInv, MainInv, SettledInv, Outstanding, Settled, Held
<1>4. MainInv'
  BY <1>3 DEF TypeOK, MainInv
<1>5. WorkerInv'
  BY DEF TypeOK, OneHolder, WorkerInv, SettledInv, Settled
<1>6. SettledInv'
  BY DEF TypeOK, OneHolder, WorkerInv, SettledInv, Settled, Queued, MainInv
<1>7. CountedOK' = CountedOK /\ CountedFailed' = CountedFailed
  BY DEF TypeOK, OneHolder, WorkerInv, SettledInv, Settled, CountedOK, CountedFailed, InHook
<1>8. CountInv'
  BY <1>3, <1>7 DEF CountInv
<1> QED BY <1>1, <1>2, <1>4, <1>5, <1>6, <1>8 DEF PoolInv

(* wg.Add(1) makes exactly one more interface outstanding.                  *)
LEMMA AddToGroupStep ==
  ASSUME PoolInv, NEW i \in Ifaces, AddToGroup(i)
  PROVE  PoolInv'
<1> USE PoolAssumption DEF PoolInv, AddToGroup, Holding, NoEnvelope, Envelope, mainVars, reportVars
<1>1. TypeOK'
  BY DEF TypeOK, OneHolder, WorkerInv
<1>2. OneHolder'
  BY DEF TypeOK, OneHolder, Queued, MainInv
<1>3. Outstanding' = Outstanding \cup {i} /\ i \notin Outstanding
  <2>1. ~Settled(i)
    BY DEF SettledInv, TypeOK
  <2> QED BY <2>1 DEF Outstanding, Settled, Held, TypeOK
<1>4. MainInv'
  BY DEF TypeOK, MainInv
<1>5. WorkerInv'
  BY DEF TypeOK, OneHolder, WorkerInv, SettledInv, Settled
<1>6. SettledInv'
  BY DEF TypeOK, OneHolder, WorkerInv, SettledInv, Settled, Queued, MainInv
<1>7. CountedOK' = CountedOK /\ CountedFailed' = CountedFailed
  BY DEF TypeOK, OneHolder, WorkerInv, SettledInv, Settled, CountedOK, CountedFailed, InHook
<1>8. CountInv'
  <2>1. IsFiniteSet(Outstanding)
    BY FS_Subset DEF Outstanding
  <2>2. Cardinality(Outstanding') = Cardinality(Outstanding) + 1
    BY <1>3, <2>1, FS_AddElement
  <2> QED BY <1>7, <2>2 DEF CountInv
<1> QED BY <1>1, <1>2, <1>4, <1>5, <1>6, <1>8 DEF PoolInv

(* Submit moves the interface in hand into the channel.                     *)
LEMMA SubmitStep ==
  ASSUME PoolInv, Submit
  PROVE  PoolInv'
<1> USE PoolAssumption DEF PoolInv, Submit, Holding, NoEnvelope, Envelope, mainVars, reportVars
<1>a. [job |-> sending, attempt |-> 0] \in Envelope
  BY DEF TypeOK, MainInv
<1>b. /\ queue' \in Seq(Envelope)
      /\ DOMAIN queue' = 1 .. Len(queue) + 1
      /\ DOMAIN queue = 1 .. Len(queue)
      /\ Len(queue) \in Nat
      /\ \A k \in 1 .. Len(queue) : queue'[k] = queue[k]
      /\ queue'[Len(queue) + 1] = [job |-> sending, attempt |-> 0]
  BY <1>a, AppendFacts DEF TypeOK
<1>c. \A j : Queued(j)' <=> Queued(j) \/ j = sending
  BY <1>b DEF Queued
<1>1. TypeOK'
  BY <1>b DEF TypeOK
<1>2. OneHolder'
  <2>1. ASSUME NEW w \in Workers, wpc'[w] \in Holding
        PROVE  /\ env[w].job \in Ifaces \ (unsent \cup {NoIface})
               /\ (~Queued(env[w].job))'
               /\ \A v \in Workers : wpc[v] \in Holding /\ env[v].job = env[w].job
                                       => v = w
    BY <1>c, <2>1 DEF OneHolder
  <2>2. ASSUME NEW k \in DOMAIN queue'
        PROVE  /\ queue'[k].job \notin unsent \cup {NoIface}
               /\ \A l \in DOMAIN queue' : queue'[l].job = queue'[k].job => l = k
    <3>1. \A m \in 1 .. Len(queue) : queue[m].job \in Ifaces \ (unsent \cup {sending})
      BY <1>b, ChannelElements DEF OneHolder, TypeOK
    <3>2. sending \notin unsent \cup {NoIface}
      BY DEF MainInv
    <3>3. k \in 1 .. Len(queue) \/ k = Len(queue) + 1
      BY <1>b, <2>2
    <3> QED BY <1>b, <3>1, <3>2, <3>3 DEF OneHolder
  <2> QED BY <2>1, <2>2 DEF OneHolder
<1>3. Outstanding' = Outstanding
  BY DEF TypeOK, OneHolder, WorkerInv, MainInv, SettledInv, Outstanding, Settled, Held
<1>4. MainInv'
  BY <1>3 DEF TypeOK, MainInv
<1>5. WorkerInv'
  BY DEF TypeOK, OneHolder, WorkerInv, SettledInv, Settled
<1>6. SettledInv'
  BY <1>c DEF SettledInv, Settled, MainInv, TypeOK
<1>7. CountedOK' = CountedOK /\ CountedFailed' = CountedFailed
  BY DEF TypeOK, OneHolder, WorkerInv, SettledInv, Settled, CountedOK, CountedFailed, InHook
<1>8. CountInv'
  BY <1>3, <1>7 DEF CountInv
<1> QED BY <1>1, <1>2, <1>4, <1>5, <1>6, <1>8 DEF PoolInv

(* wg.Wait returns only when nothing is outstanding.                        *)
LEMMA WaitAndStopStep ==
  ASSUME PoolInv, WaitAndStop
  PROVE  PoolInv'
<1> USE PoolAssumption DEF PoolInv, WaitAndStop, Holding, NoEnvelope, Envelope, mainVars, reportVars
<1>1. TypeOK'
  BY DEF TypeOK, OneHolder, WorkerInv
<1>2. OneHolder'
  BY DEF TypeOK, OneHolder, Queued, MainInv
<1>3. Outstanding' = Outstanding
  BY DEF TypeOK, OneHolder, WorkerInv, MainInv, SettledInv, Outstanding, Settled, Held
<1>4. MainInv'
  <2>1. IsFiniteSet(Outstanding)
    BY FS_Subset DEF Outstanding
  <2>2. Outstanding = {}
    BY <2>1, FS_EmptySet DEF CountInv
  <2> QED BY <1>3, <2>2 DEF MainInv, TypeOK
<1>5. WorkerInv'
  BY DEF TypeOK, OneHolder, WorkerInv, SettledInv, Settled
<1>6. SettledInv'
  BY DEF TypeOK, OneHolder, WorkerInv, SettledInv, Settled, Queued, MainInv
<1>7. CountedOK' = CountedOK /\ CountedFailed' = CountedFailed
  BY DEF TypeOK, OneHolder, WorkerInv, SettledInv, Settled, CountedOK, CountedFailed, InHook
<1>8. CountInv'
  BY <1>3, <1>7 DEF CountInv
<1> QED BY <1>1, <1>2, <1>4, <1>5, <1>6, <1>8 DEF PoolInv

(* A received interface moves from the channel to one worker.               *)
LEMMA ReceiveStep ==
  ASSUME PoolInv, NEW w \in Workers, Receive(w)
  PROVE  PoolInv'
<1> USE PoolAssumption DEF PoolInv, Receive, Holding, NoEnvelope, Envelope, mainVars, reportVars, Goto
<1>a. /\ queue' \in Seq(Envelope)
      /\ Head(queue) = queue[1]
      /\ Head(queue) \in Envelope
      /\ 1 \in DOMAIN queue
      /\ Len(queue) \in Nat
      /\ DOMAIN queue = 1 .. Len(queue)
      /\ DOMAIN queue' = 1 .. Len(queue) - 1
      /\ \A k \in 1 .. Len(queue) - 1 : queue'[k] = queue[k + 1]
  BY TailFacts DEF TypeOK
<1>b. env' = [env EXCEPT ![w] = queue[1]] /\ wpc' = [wpc EXCEPT ![w] = "preflight"]
  BY <1>a
<1>c. \A j : Queued(j)' <=> Queued(j) /\ j # queue[1].job
  <2>1. ASSUME NEW k \in DOMAIN queue' PROVE k + 1 \in DOMAIN queue /\ k + 1 # 1
    BY <1>a
  <2>2. ASSUME NEW k \in DOMAIN queue, k # 1
        PROVE  k - 1 \in DOMAIN queue' /\ queue'[k - 1] = queue[k]
    <3>1. k - 1 \in 1 .. Len(queue) - 1 /\ (k - 1) + 1 = k
      BY <1>a, <2>2
    <3> QED BY <1>a, <3>1
  <2>3. ASSUME NEW j, Queued(j)' PROVE Queued(j) /\ j # queue[1].job
    <3>1. PICK k \in DOMAIN queue' : queue'[k].job = j
      BY <2>3 DEF Queued
    <3>2. k + 1 \in DOMAIN queue /\ k + 1 # 1 /\ queue[k + 1].job = j
      BY <1>a, <3>1
    <3> QED BY <1>a, <3>2 DEF Queued, OneHolder
  <2>4. ASSUME NEW j, Queued(j), j # queue[1].job PROVE Queued(j)'
    BY <2>2, <2>4 DEF Queued
  <2> QED BY <2>3, <2>4
<1>d. Queued(queue[1].job)
  BY <1>a DEF Queued
<1>1. TypeOK'
  <2>1. env' \in [Workers -> Envelope \cup {NoEnvelope}]
    BY <1>a, <1>b DEF TypeOK
  <2>2. wpc' \in [Workers -> Holding \cup {"recv", "exit"}]
    BY <1>b DEF TypeOK
  <2> QED BY <1>a, <2>1, <2>2 DEF TypeOK
<1>2. OneHolder'
  <2>1. ASSUME NEW v \in Workers, wpc'[v] \in Holding
        PROVE  /\ env'[v].job \in Ifaces \ (unsent \cup {sending})
               /\ (~Queued(env[v].job))'
               /\ \A u \in Workers : wpc'[u] \in Holding /\ env'[u].job = env'[v].job
                                       => u = v
    <3>1. \A u \in Workers : u # w => /\ wpc'[u] = wpc[u] /\ env'[u] = env[u]
                                      /\ wpc[u] \in Holding => env[u].job # queue[1].job
      BY <1>b, <1>d DEF OneHolder, TypeOK
    <3>2. env'[w].job = queue[1].job /\ wpc[w] = "recv"
      BY <1>b DEF TypeOK
    <3>3. queue[1].job \in Ifaces \ (unsent \cup {sending})
      BY <1>a DEF OneHolder
    <3>4. CASE v = w
      <4>1. env'[v].job \in Ifaces \ (unsent \cup {sending})
        BY <3>2, <3>3, <3>4
      <4>2. (~Queued(env[v].job))'
        BY <1>c, <3>2, <3>4
      <4> QED BY <3>1, <3>2, <3>4, <4>1, <4>2
    <3>5. CASE v # w
      <4>1. env'[v] = env[v] /\ wpc[v] \in Holding /\ env[v].job # queue[1].job
        BY <2>1, <3>1, <3>5
      <4>2. env[v].job \in Ifaces \ (unsent \cup {sending}) /\ ~Queued(env[v].job)
        BY <4>1 DEF OneHolder
      <4>3. (~Queued(env[v].job))'
        BY <1>c, <4>1, <4>2
      <4>4. ASSUME NEW u \in Workers, wpc'[u] \in Holding, env'[u].job = env'[v].job
            PROVE  u = v
        BY <3>1, <3>2, <4>1, <4>4 DEF OneHolder
      <4> QED BY <4>1, <4>2, <4>3, <4>4
    <3> QED BY <3>4, <3>5
  <2>2. ASSUME NEW k \in DOMAIN queue'
        PROVE  /\ queue'[k].job \notin unsent \cup {sending}
               /\ \A l \in DOMAIN queue' : queue'[l].job = queue'[k].job => l = k
    <3>1. k + 1 \in DOMAIN queue /\ queue'[k] = queue[k + 1] /\ k \in Int
      BY <1>a
    <3>2. ASSUME NEW l \in DOMAIN queue', queue'[l].job = queue'[k].job PROVE l = k
      <4>1. l + 1 \in DOMAIN queue /\ queue'[l] = queue[l + 1] /\ l \in Int
        BY <1>a
      <4>2. l + 1 = k + 1
        BY <3>1, <3>2, <4>1 DEF OneHolder
      <4> QED BY <3>1, <4>1, <4>2
    <3> QED BY <3>1, <3>2 DEF OneHolder
  <2> QED BY <2>1, <2>2 DEF OneHolder
<1>e. ~Settled(queue[1].job) /\ queue[1].job \in Ifaces
  BY <1>a, <1>d DEF SettledInv
<1>3. Outstanding' = Outstanding
  BY <1>a, <1>b, <1>e DEF Outstanding, Settled, Held, TypeOK
<1>4. MainInv'
  BY <1>3, <1>b DEF TypeOK, MainInv
<1>5. WorkerInv'
  BY <1>b DEF TypeOK, WorkerInv, Settled
<1>6. SettledInv'
  BY <1>b, <1>c, <1>e DEF TypeOK, SettledInv, Settled
<1>7. CountedOK' = CountedOK /\ CountedFailed' = CountedFailed
  BY <1>b DEF TypeOK, CountedOK, CountedFailed, InHook
<1>8. CountInv'
  BY <1>3, <1>7 DEF CountInv
<1> QED BY <1>1, <1>2, <1>4, <1>5, <1>6, <1>8 DEF PoolInv

(* A worker that returns holds nothing.                                     *)
LEMMA WorkerReturnStep ==
  ASSUME PoolInv, NEW w \in Workers, WorkerReturn(w)
  PROVE  PoolInv'
<1> USE PoolAssumption DEF PoolInv, WorkerReturn, Holding, NoEnvelope, Envelope, mainVars, reportVars, Goto
<1>1. TypeOK'
  BY DEF TypeOK, OneHolder, WorkerInv
<1>2. OneHolder'
  BY DEF TypeOK, OneHolder, Queued, MainInv
<1>3. Outstanding' = Outstanding
  BY DEF TypeOK, OneHolder, WorkerInv, MainInv, SettledInv, Outstanding, Settled, Held
<1>4. MainInv'
  BY <1>3 DEF TypeOK, MainInv
<1>5. WorkerInv'
  BY DEF TypeOK, OneHolder, WorkerInv, SettledInv, Settled
<1>6. SettledInv'
  BY DEF TypeOK, OneHolder, WorkerInv, SettledInv, Settled, Queued, MainInv
<1>7. CountedOK' = CountedOK /\ CountedFailed' = CountedFailed
  BY DEF TypeOK, OneHolder, WorkerInv, SettledInv, Settled, CountedOK, CountedFailed, InHook
<1>8. CountInv'
  BY <1>3, <1>7 DEF CountInv
<1> QED BY <1>1, <1>2, <1>4, <1>5, <1>6, <1>8 DEF PoolInv

(* A refused interface stays with its worker.                               *)
LEMMA RefuseStep ==
  ASSUME PoolInv, NEW w \in Workers, Refuse(w)
  PROVE  PoolInv'
<1> USE PoolAssumption DEF PoolInv, Refuse, Holding, NoEnvelope, Envelope, mainVars, reportVars, HandlerError, retryPolicy
<1>1. TypeOK'
  BY DEF TypeOK, OneHolder, WorkerInv
<1>2. OneHolder'
  BY DEF TypeOK, OneHolder, Queued, MainInv
<1>3. Outstanding' = Outstanding
  BY DEF TypeOK, OneHolder, WorkerInv, MainInv, SettledInv, Outstanding, Settled, Held
<1>4. MainInv'
  BY <1>3 DEF TypeOK, MainInv
<1>5. WorkerInv'
  BY DEF TypeOK, OneHolder, WorkerInv, SettledInv, Settled
<1>6. SettledInv'
  BY DEF TypeOK, OneHolder, WorkerInv, SettledInv, Settled, Queued, MainInv
<1>7. CountedOK' = CountedOK /\ CountedFailed' = CountedFailed
  <2>1. env[w].job \in Ifaces /\ ~Settled(env[w].job)
    BY DEF TypeOK, OneHolder, SettledInv
  <2>2. results[env[w].job] = 0
    BY <2>1 DEF Settled, TypeOK
  <2>3. ASSUME NEW i \in Ifaces, results[i] = 1 PROVE InHook(i)' <=> InHook(i)
    BY <2>1, <2>2, <2>3 DEF InHook, TypeOK
  <2> QED BY <2>3 DEF CountedOK, CountedFailed
<1>8. CountInv'
  BY <1>3, <1>7 DEF CountInv
<1> QED BY <1>1, <1>2, <1>4, <1>5, <1>6, <1>8 DEF PoolInv

(* Entering Process only moves the worker.                                  *)
LEMMA BeginProcessStep ==
  ASSUME PoolInv, NEW w \in Workers, BeginProcess(w)
  PROVE  PoolInv'
<1> USE PoolAssumption DEF PoolInv, BeginProcess, Holding, NoEnvelope, Envelope, mainVars, reportVars, Goto
<1>1. TypeOK'
  BY DEF TypeOK, OneHolder, WorkerInv
<1>2. OneHolder'
  BY DEF TypeOK, OneHolder, Queued, MainInv
<1>3. Outstanding' = Outstanding
  BY DEF TypeOK, OneHolder, WorkerInv, MainInv, SettledInv, Outstanding, Settled, Held
<1>4. MainInv'
  BY <1>3 DEF TypeOK, MainInv
<1>5. WorkerInv'
  BY DEF TypeOK, OneHolder, WorkerInv, SettledInv, Settled
<1>6. SettledInv'
  BY DEF TypeOK, OneHolder, WorkerInv, SettledInv, Settled, Queued, MainInv
<1>7. CountedOK' = CountedOK /\ CountedFailed' = CountedFailed
  BY DEF TypeOK, OneHolder, WorkerInv, SettledInv, Settled, CountedOK, CountedFailed, InHook
<1>8. CountInv'
  BY <1>3, <1>7 DEF CountInv
<1> QED BY <1>1, <1>2, <1>4, <1>5, <1>6, <1>8 DEF PoolInv

(* A failed attempt stays with its worker, and has retries left if it backs off. *)
LEMMA ProcessErrorStep ==
  ASSUME PoolInv, NEW w \in Workers, ProcessError(w)
  PROVE  PoolInv'
<1> USE PoolAssumption DEF PoolInv, ProcessError, Holding, NoEnvelope, Envelope, mainVars, reportVars, HandlerError, retryPolicy
<1>1. TypeOK'
  BY DEF TypeOK, OneHolder, WorkerInv
<1>2. OneHolder'
  BY DEF TypeOK, OneHolder, Queued, MainInv
<1>3. Outstanding' = Outstanding
  BY DEF TypeOK, OneHolder, WorkerInv, MainInv, SettledInv, Outstanding, Settled, Held
<1>4. MainInv'
  BY <1>3 DEF TypeOK, MainInv
<1>5. WorkerInv'
  BY DEF TypeOK, OneHolder, WorkerInv, SettledInv, Settled
<1>6. SettledInv'
  BY DEF TypeOK, OneHolder, WorkerInv, SettledInv, Settled, Queued, MainInv
<1>7. CountedOK' = CountedOK /\ CountedFailed' = CountedFailed
  <2>1. env[w].job \in Ifaces /\ ~Settled(env[w].job)
    BY DEF TypeOK, OneHolder, SettledInv
  <2>2. results[env[w].job] = 0
    BY <2>1 DEF Settled, TypeOK
  <2>3. ASSUME NEW i \in Ifaces, results[i] = 1 PROVE InHook(i)' <=> InHook(i)
    BY <2>1, <2>2, <2>3 DEF InHook, TypeOK
  <2> QED BY <2>3 DEF CountedOK, CountedFailed
<1>8. CountInv'
  BY <1>3, <1>7 DEF CountInv
<1> QED BY <1>1, <1>2, <1>4, <1>5, <1>6, <1>8 DEF PoolInv

(* A success settles an interface that had no outcome.                      *)
LEMMA HandlerSuccessStep ==
  ASSUME PoolInv, NEW w \in Workers, HandlerSuccess(w)
  PROVE  PoolInv'
<1> USE PoolAssumption DEF PoolInv, HandlerSuccess, Holding, NoEnvelope, Envelope, mainVars, reportVars
<1>a. env[w].job \in Ifaces /\ ~Settled(env[w].job)
  BY DEF TypeOK, OneHolder, SettledInv
<1>b. results[env[w].job] = 0 /\ failures[env[w].job] = 0
  BY <1>a DEF Settled, TypeOK
<1>1. TypeOK'
  BY DEF TypeOK, OneHolder, WorkerInv
<1>2. OneHolder'
  BY DEF TypeOK, OneHolder, Queued, MainInv
<1>3. Outstanding' = Outstanding
  BY DEF TypeOK, OneHolder, WorkerInv, MainInv, SettledInv, Outstanding, Settled, Held
<1>4. MainInv'
  BY <1>3 DEF TypeOK, MainInv
<1>5. WorkerInv'
  BY DEF TypeOK, OneHolder, WorkerInv, SettledInv, Settled
<1>6. SettledInv'
  <2> SUFFICES ASSUME NEW i \in Ifaces
               PROVE  /\ results'[i] + failures'[i] <= 1
                      /\ Settled(i)' =>
                           /\ i \notin unsent' /\ i # sending' /\ ~Queued(i)'
                           /\ \A v \in Workers : wpc'[v] \in Holding /\ env'[v].job = i
                                                 => wpc'[v] \in {"hook", "done"}
    BY DEF SettledInv
  <2>1. Queued(i)' <=> Queued(i)
    BY DEF Queued
  <2>2. CASE i = env[w].job
    BY <2>1, <2>2, <1>a, <1>b DEF OneHolder, TypeOK
  <2>3. CASE i # env[w].job
    BY <2>1, <2>3 DEF SettledInv, Settled, TypeOK
  <2> QED BY <2>2, <2>3
<1>7. CountedOK' = CountedOK /\ CountedFailed' = CountedFailed
  BY <1>a, <1>b DEF TypeOK, OneHolder, CountedOK, CountedFailed, InHook
<1>8. CountInv'
  BY <1>3, <1>7 DEF CountInv
<1> QED BY <1>1, <1>2, <1>4, <1>5, <1>6, <1>8 DEF PoolInv

(* A panic leaves the interface with its worker, for the hook.              *)
LEMMA HandlerPanicStep ==
  ASSUME PoolInv, NEW w \in Workers, HandlerPanic(w)
  PROVE  PoolInv'
<1> USE PoolAssumption DEF PoolInv, HandlerPanic, Holding, NoEnvelope, Envelope, mainVars, reportVars
<1>1. TypeOK'
  BY DEF TypeOK, OneHolder, WorkerInv
<1>2. OneHolder'
  BY DEF TypeOK, OneHolder, Queued, MainInv
<1>3. Outstanding' = Outstanding
  BY DEF TypeOK, OneHolder, WorkerInv, MainInv, SettledInv, Outstanding, Settled, Held
<1>4. MainInv'
  BY <1>3 DEF TypeOK, MainInv
<1>5. WorkerInv'
  BY DEF TypeOK, OneHolder, WorkerInv, SettledInv, Settled
<1>6. SettledInv'
  BY DEF TypeOK, OneHolder, WorkerInv, SettledInv, Settled, Queued, MainInv
<1>7. CountedOK' = CountedOK /\ CountedFailed' = CountedFailed
  <2>1. env[w].job \in Ifaces /\ ~Settled(env[w].job)
    BY DEF TypeOK, OneHolder, SettledInv
  <2>2. results[env[w].job] = 0
    BY <2>1 DEF Settled, TypeOK
  <2>3. ASSUME NEW i \in Ifaces, results[i] = 1 PROVE InHook(i)' <=> InHook(i)
    BY <2>1, <2>2, <2>3 DEF InHook, TypeOK
  <2> QED BY <2>3 DEF CountedOK, CountedFailed
<1>8. CountInv'
  BY <1>3, <1>7 DEF CountInv
<1> QED BY <1>1, <1>2, <1>4, <1>5, <1>6, <1>8 DEF PoolInv

(* After the backoff the interface is put back, or dropped but outstanding. *)
LEMMA EndBackoffStep ==
  ASSUME PoolInv, NEW w \in Workers, EndBackoff(w)
  PROVE  PoolInv'
<1> USE PoolAssumption DEF PoolInv, EndBackoff, Holding, NoEnvelope, Envelope, mainVars, reportVars
<1>a. env[w] \in Envelope /\ env[w].job \in Ifaces /\ env[w].attempt \in 0 .. MaxRetries - 1
  BY DEF TypeOK, OneHolder, WorkerInv
<1>b. \A v \in Workers : v # w => wpc'[v] = wpc[v] /\ env'[v] = env[v]
  BY DEF TypeOK
<1>c. \/ wpc'[w] = "recv" /\ env'[w] = NoEnvelope
      \/ /\ wpc'[w] = "requeue"
         /\ env'[w] \in Envelope /\ env'[w].job = env[w].job
  <2>1. CASE ctx = "cancelled"
    BY <2>1 DEF TypeOK
  <2>2. CASE ctx # "cancelled"
    BY <1>a, <2>2 DEF TypeOK
  <2> QED BY <2>1, <2>2
<1>d. ~Settled(env[w].job)
  BY <1>a DEF SettledInv
<1>1. TypeOK'
  <2>1. DOMAIN env' = Workers /\ env' = [v \in Workers |-> env'[v]]
    BY DEF TypeOK
  <2>2. wpc' = [v \in Workers |-> wpc'[v]]
    BY DEF TypeOK
  <2>3. env' \in [Workers -> Envelope \cup {NoEnvelope}]
    BY <1>b, <1>c, <2>1 DEF TypeOK
  <2>4. wpc' \in [Workers -> Holding \cup {"recv", "exit"}]
    BY <1>b, <1>c, <2>2 DEF TypeOK
  <2> QED BY <2>3, <2>4 DEF TypeOK
<1>2. OneHolder'
  <2>1. \A j : Queued(j)' <=> Queued(j)
    BY DEF Queued
  <2>2. ASSUME NEW v \in Workers, wpc'[v] \in Holding
        PROVE  /\ env'[v].job \in Ifaces \ (unsent \cup {sending})
               /\ (~Queued(env[v].job))'
               /\ \A u \in Workers : wpc'[u] \in Holding /\ env'[u].job = env'[v].job
                                       => u = v
    <3>1. \A u \in Workers : wpc'[u] \in Holding =>
             wpc[u] \in Holding /\ env'[u].job = env[u].job
      BY <1>b, <1>c
    <3> QED BY <2>1, <2>2, <3>1 DEF OneHolder
  <2> QED BY <2>2 DEF OneHolder
<1>3. Outstanding' = Outstanding
  <2>1. ASSUME NEW i \in Ifaces, i # env[w].job PROVE Held(i)' <=> Held(i)
    BY <1>b, <1>c, <2>1, PoolAssumption DEF Held
  <2> QED BY <1>d, <2>1 DEF Outstanding, Settled
<1>4. MainInv'
  BY <1>3, <1>b, <1>c DEF MainInv, TypeOK
<1>5. WorkerInv'
  BY <1>b, <1>c DEF WorkerInv, Settled
<1>6. SettledInv'
  BY <1>b, <1>c, <1>d DEF SettledInv, Settled, Queued
<1>7. CountedOK' = CountedOK /\ CountedFailed' = CountedFailed
  BY <1>b, <1>c DEF CountedOK, CountedFailed, InHook
<1>8. CountInv'
  BY <1>3, <1>7 DEF CountInv
<1> QED BY <1>1, <1>2, <1>4, <1>5, <1>6, <1>8 DEF PoolInv

(* A retried interface moves from its worker back into the channel.         *)
LEMMA RequeueStep ==
  ASSUME PoolInv, NEW w \in Workers, Requeue(w)
  PROVE  PoolInv'
<1> USE PoolAssumption DEF PoolInv, Requeue, Holding, NoEnvelope, Envelope, mainVars, reportVars, Goto
<1>a. env[w] \in Envelope
  BY DEF TypeOK, OneHolder
<1>b. /\ queue' \in Seq(Envelope)
      /\ DOMAIN queue' = 1 .. Len(queue) + 1
      /\ DOMAIN queue = 1 .. Len(queue)
      /\ Len(queue) \in Nat
      /\ \A k \in 1 .. Len(queue) : queue'[k] = queue[k]
      /\ queue'[Len(queue) + 1] = env[w]
  BY <1>a, AppendFacts DEF TypeOK
<1>c. \A j : Queued(j)' <=> Queued(j) \/ j = env[w].job
  BY <1>b DEF Queued
<1>1. TypeOK'
  BY <1>b DEF TypeOK
<1>2. OneHolder'
  <2>1. ASSUME NEW v \in Workers, wpc'[v] \in Holding
        PROVE  /\ env'[v].job \in Ifaces \ (unsent \cup {sending})
               /\ (~Queued(env[v].job))'
               /\ \A u \in Workers : wpc'[u] \in Holding /\ env'[u].job = env'[v].job
                                       => u = v
    BY <1>c, <2>1 DEF OneHolder, TypeOK
  <2>2. ASSUME NEW k \in DOMAIN queue'
        PROVE  /\ queue'[k].job \notin unsent \cup {sending}
               /\ \A l \in DOMAIN queue' : queue'[l].job = queue'[k].job => l = k
    <3>1. ~Queued(env[w].job) /\ env[w].job \notin unsent \cup {sending}
      BY DEF OneHolder
    <3> QED BY <1>b, <2>2, <3>1 DEF OneHolder, Queued
  <2> QED BY <2>1, <2>2 DEF OneHolder
<1>3. Outstanding' = Outstanding
  BY DEF TypeOK, OneHolder, WorkerInv, MainInv, SettledInv, Outstanding, Settled, Held
<1>4. MainInv'
  BY <1>3 DEF TypeOK, MainInv
<1>5. WorkerInv'
  BY DEF TypeOK, OneHolder, WorkerInv, SettledInv, Settled
<1>6. SettledInv'
  <2>1. ~Settled(env[w].job) /\ env[w].job \in Ifaces
    BY <1>a DEF SettledInv
  <2> QED BY <1>c, <2>1 DEF SettledInv, Settled, TypeOK
<1>7. CountedOK' = CountedOK /\ CountedFailed' = CountedFailed
  BY DEF TypeOK, OneHolder, WorkerInv, SettledInv, Settled, CountedOK, CountedFailed, InHook
<1>8. CountInv'
  BY <1>3, <1>7 DEF CountInv
<1> QED BY <1>1, <1>2, <1>4, <1>5, <1>6, <1>8 DEF PoolInv

(* The hook counts the outcome, and settles a failure.                      *)
LEMMA AfterHookStep ==
  ASSUME PoolInv, NEW w \in Workers, AfterHook(w)
  PROVE  PoolInv'
<1> USE PoolAssumption DEF PoolInv, AfterHook, Holding, NoEnvelope, Envelope, mainVars, reportVars, Goto
<1>a. env[w].job \in Ifaces /\ results[env[w].job] \in Nat /\ failures[env[w].job] \in Nat
  BY DEF TypeOK, OneHolder
<1>b. \A i \in Ifaces : InHook(i)' <=> InHook(i) /\ i # env[w].job
  BY DEF InHook, OneHolder, TypeOK
<1>c. \A i : Held(i)' <=> Held(i)
  BY DEF Held, TypeOK
<1>d. IsFiniteSet(CountedOK) /\ IsFiniteSet(CountedFailed)
  BY FS_Subset DEF CountedOK, CountedFailed
<1>e. InHook(env[w].job) /\ Held(env[w].job)
  BY DEF InHook, Held
<1>2. OneHolder'
  BY DEF TypeOK, OneHolder, Queued
<1>3. CASE status[w] = "success"
  <2>1. TypeOK'
    BY <1>3 DEF TypeOK
  <2>2. results[env[w].job] = 1
    BY <1>3 DEF WorkerInv
  <2>3. Outstanding' = Outstanding
    BY <1>c, <1>3 DEF Outstanding, Settled
  <2>4. MainInv'
    BY <2>3 DEF MainInv, TypeOK
  <2>5. WorkerInv'
    BY <1>3, <1>a, <2>2 DEF WorkerInv, Settled, TypeOK
  <2>6. SettledInv'
    BY <1>3 DEF SettledInv, Settled, Queued, TypeOK
  <2>7. CountedOK' = CountedOK \cup {env[w].job} /\ env[w].job \notin CountedOK
    BY <1>a, <1>b, <1>e, <1>3, <2>2 DEF CountedOK
  <2>8. CountedFailed' = CountedFailed
    BY <1>3 DEF CountedFailed
  <2>9. Cardinality(CountedOK') = Cardinality(CountedOK) + 1
    BY <1>d, <2>7, FS_AddElement
  <2>10. CountInv'
    BY <1>3, <2>3, <2>8, <2>9 DEF CountInv
  <2> QED BY <1>2, <2>1, <2>4, <2>5, <2>6, <2>10
<1>4. CASE status[w] # "success"
  <2>1. TypeOK'
    BY <1>4, <1>a DEF TypeOK
  <2>2. results[env[w].job] = 0 /\ failures[env[w].job] = 0
    BY <1>4, <1>a DEF WorkerInv, Settled
  <2>3. failures'[env[w].job] = 1 /\ \A i \in Ifaces : i # env[w].job => failures'[i] = failures[i]
    BY <1>4, <1>a, <2>2 DEF TypeOK
  <2>4. \A i \in Ifaces : Settled(i)' <=> Settled(i) \/ i = env[w].job
    BY <1>4, <1>a, <2>2, <2>3 DEF Settled
  <2>5. Outstanding' = Outstanding
    BY <1>c, <1>e, <2>4 DEF Outstanding
  <2>6. MainInv'
    BY <2>5 DEF MainInv, TypeOK
  <2>7. WorkerInv'
    <3> SUFFICES ASSUME NEW v \in Workers
                 PROVE  /\ wpc'[v] = "backoff" => env'[v].attempt < MaxRetries
                        /\ wpc'[v] = "hook" => IF status'[v] = "success"
                                               THEN results'[env'[v].job] = 1
                                               ELSE (~Settled(env[v].job))'
                        /\ wpc'[v] = "done" => Settled(env[v].job)'
      BY DEF WorkerInv
    <3>1. CASE v = w
      BY <3>1, <1>a, <2>4 DEF TypeOK
    <3>2. CASE v # w
      <4>1. wpc'[v] = wpc[v]
        BY <3>2 DEF TypeOK
      <4>2. wpc[v] \in Holding => env[v].job \in Ifaces /\ env[v].job # env[w].job
        BY <3>2 DEF OneHolder
      <4> QED BY <4>1, <4>2, <1>4, <2>4 DEF WorkerInv
    <3> QED BY <3>1, <3>2
  <2>8. SettledInv'
    <3> SUFFICES ASSUME NEW i \in Ifaces
                 PROVE  /\ results'[i] + failures'[i] <= 1
                        /\ Settled(i)' =>
                             /\ i \notin unsent' /\ i # sending' /\ ~Queued(i)'
                             /\ \A v \in Workers : wpc'[v] \in Holding /\ env'[v].job = i
                                                   => wpc'[v] \in {"hook", "done"}
      BY DEF SettledInv
    <3>1. Queued(i)' <=> Queued(i)
      BY DEF Queued
    <3>2. CASE i = env[w].job
      BY <3>1, <3>2, <1>4, <1>a, <2>2, <2>3 DEF OneHolder, TypeOK
    <3>3. CASE i # env[w].job
      BY <3>1, <3>3, <1>4, <2>3, <2>4 DEF SettledInv, TypeOK
    <3> QED BY <3>2, <3>3
  <2>9. CountedFailed' = CountedFailed \cup {env[w].job} /\ env[w].job \notin CountedFailed
    BY <1>a, <2>2, <2>3 DEF CountedFailed
  <2>10. CountedOK' = CountedOK
    BY <1>b, <1>4, <2>2 DEF CountedOK
  <2>11. Cardinality(CountedFailed') = Cardinality(CountedFailed) + 1
    BY <1>d, <2>9, FS_AddElement
  <2>12. CountInv'
    BY <1>4, <2>5, <2>10, <2>11 DEF CountInv
  <2> QED BY <1>2, <2>1, <2>6, <2>7, <2>8, <2>12
<1> QED BY <1>3, <1>4

(* wg.Done() makes exactly one interface less outstanding.                  *)
LEMMA GroupDoneStep ==
  ASSUME PoolInv, NEW w \in Workers, GroupDone(w)
  PROVE  PoolInv'
<1> USE PoolAssumption DEF PoolInv, GroupDone, Holding, NoEnvelope, Envelope, mainVars, reportVars, Goto
<1>a. env[w].job \in Ifaces /\ Settled(env[w].job) /\ Held(env[w].job)
  BY DEF TypeOK, OneHolder, WorkerInv, Held
<1>b. \A i \in Ifaces : Held(i)' <=> Held(i) /\ i # env[w].job
  BY DEF TypeOK, OneHolder, Held
<1>3. Outstanding' = Outstanding \ {env[w].job} /\ env[w].job \in Outstanding
  BY <1>a, <1>b DEF Outstanding, Settled, SettledInv
<1>c. IsFiniteSet(Outstanding)
  BY FS_Subset DEF Outstanding
<1>d. Cardinality(Outstanding') = Cardinality(Outstanding) - 1
  BY <1>3, <1>c, FS_RemoveElement
<1>e. Cardinality(Outstanding) \in Nat /\ Cardinality(Outstanding) # 0
  BY <1>3, <1>c, FS_CardinalityType, FS_EmptySet
<1>1. TypeOK'
  BY <1>e DEF TypeOK, CountInv
<1>2. OneHolder'
  BY DEF TypeOK, OneHolder, Queued, MainInv
<1>4. MainInv'
  BY <1>3 DEF TypeOK, MainInv
<1>5. WorkerInv'
  BY DEF TypeOK, OneHolder, WorkerInv, SettledInv, Settled
<1>6. SettledInv'
  BY DEF TypeOK, OneHolder, WorkerInv, SettledInv, Settled, Queued, MainInv
<1>7. CountedOK' = CountedOK /\ CountedFailed' = CountedFailed
  BY DEF TypeOK, OneHolder, WorkerInv, SettledInv, Settled, CountedOK, CountedFailed, InHook
<1>8. CountInv'
  BY <1>d, <1>7 DEF CountInv
<1> QED BY <1>1, <1>2, <1>4, <1>5, <1>6, <1>8 DEF PoolInv

(* Cancelling changes nothing but the context.                              *)
LEMMA CancelStep ==
  ASSUME PoolInv, Cancel
  PROVE  PoolInv'
<1> USE PoolAssumption DEF PoolInv, Cancel, Holding, NoEnvelope, Envelope, mainVars, reportVars
<1>1. TypeOK'
  BY DEF TypeOK, OneHolder, WorkerInv
<1>2. OneHolder'
  BY DEF TypeOK, OneHolder, Queued, MainInv
<1>3. Outstanding' = Outstanding
  BY DEF TypeOK, OneHolder, WorkerInv, MainInv, SettledInv, Outstanding, Settled, Held
<1>4. MainInv'
  BY <1>3 DEF TypeOK, MainInv
<1>5. WorkerInv'
  BY DEF TypeOK, OneHolder, WorkerInv, SettledInv, Settled
<1>6. SettledInv'
  BY DEF TypeOK, OneHolder, WorkerInv, SettledInv, Settled, Queued, MainInv
<1>7. CountedOK' = CountedOK /\ CountedFailed' = CountedFailed
  BY DEF TypeOK, OneHolder, WorkerInv, SettledInv, Settled, CountedOK, CountedFailed, InHook
<1>8. CountInv'
  BY <1>3, <1>7 DEF CountInv
<1> QED BY <1>1, <1>2, <1>4, <1>5, <1>6, <1>8 DEF PoolInv

(* The initial states satisfy the invariant: nothing has been submitted.   *)
LEMMA InitInv == Init => PoolInv
<1> SUFFICES ASSUME Init PROVE PoolInv
  OBVIOUS
<1> USE PoolAssumption DEF Init
<1>1. TypeOK
  BY DEF TypeOK, Holding
<1>2. OneHolder
  BY DEF OneHolder, Holding
<1>3. MainInv
  BY DEF MainInv
<1>4. WorkerInv
  BY DEF WorkerInv
<1>5. SettledInv
  BY DEF SettledInv, Settled
<1>6. CountInv
  <2>1. Outstanding = {} /\ CountedOK = {} /\ CountedFailed = {}
    BY DEF Outstanding, CountedOK, CountedFailed
  <2> QED BY <2>1, FS_EmptySet DEF CountInv
<1> QED BY <1>1, <1>2, <1>3, <1>4, <1>5, <1>6 DEF PoolInv

(* The invariant holds throughout every call of Execute, for any number of *)
(* interfaces, workers and retries, cancelled or not.                      *)
THEOREM PoolInvariant == SafetySpec => []PoolInv
<1>1. ASSUME PoolInv, [Next]_vars PROVE PoolInv'
  <2> USE <1>1
  <2>1. CASE Main
    BY <2>1, ExecuteErrorStep, StartPoolStep, AddToGroupStep, SubmitStep,
       WaitAndStopStep DEF Main
  <2>2. CASE Cancel
    BY <2>2, CancelStep
  <2>3. ASSUME NEW w \in Workers, Worker(w) PROVE PoolInv'
    BY <2>3, ReceiveStep, WorkerReturnStep, RefuseStep, BeginProcessStep,
       ProcessErrorStep, HandlerSuccessStep, HandlerPanicStep, EndBackoffStep,
       RequeueStep, AfterHookStep, GroupDoneStep DEF Worker
  <2>4. CASE UNCHANGED vars
    <3>1. /\ TypeOK' <=> TypeOK
          /\ OneHolder' <=> OneHolder
          /\ MainInv' <=> MainInv
      BY <2>4 DEF vars, TypeOK, OneHolder, MainInv, Queued, Outstanding,
                  Settled, Held
    <3>2. /\ WorkerInv' <=> WorkerInv
          /\ SettledInv' <=> SettledInv
          /\ CountInv' <=> CountInv
      BY <2>4 DEF vars, WorkerInv, SettledInv, CountInv, Queued, Outstanding,
                  Settled, Held, CountedOK, CountedFailed, InHook
    <3> QED BY <3>1, <3>2 DEF PoolInv
  <2> QED BY <2>1, <2>2, <2>3, <2>4 DEF Next
<1> QED BY InitInv, <1>1, PTL DEF SafetySpec

(* Every variable keeps its type; in particular no attempt exceeds the     *)
(* retries allowed and the group counter never becomes negative.           *)
THEOREM TypeCorrect == SafetySpec => []TypeOK
<1>1. PoolInv => TypeOK
  BY DEF PoolInv
<1> QED BY PoolInvariant, <1>1, PTL

(* Two workers never hold the same interface, and a queued interface is    *)
(* held by none.                                                           *)
THEOREM SingleHolder == SafetySpec => []OneHolder
<1>1. PoolInv => OneHolder
  BY DEF PoolInv
<1> QED BY PoolInvariant, <1>1, PTL

(* A channel that lacks one interface of the batch has a free slot.        *)
LEMMA RoomForOneMore ==
  ASSUME PoolInv, NEW i \in Ifaces, ~Queued(i)
  PROVE  Len(queue) < QueueSize
<1> DEFINE rest == Ifaces \ {i}
<1> DEFINE slot == [k \in 1 .. Len(queue) |-> queue[k].job]
<1>1. Len(queue) \in Nat /\ DOMAIN queue = 1 .. Len(queue)
  BY DEF PoolInv, TypeOK
<1>2. IsFiniteSet(rest) /\ Cardinality(rest) = Cardinality(Ifaces) - 1
  BY PoolAssumption, FS_RemoveElement
<1>3. IsFiniteSet(1 .. Len(queue)) /\ Cardinality(1 .. Len(queue)) = Len(queue)
  <2>1. 1 \in Int /\ Len(queue) \in Int
    BY <1>1
  <2>2. /\ IsFiniteSet(1 .. Len(queue))
        /\ Cardinality(1 .. Len(queue)) =
             IF 1 > Len(queue) THEN 0 ELSE Len(queue) - 1 + 1
    BY <2>1, FS_Interval
  <2> QED BY <1>1, <2>2
<1>4. slot \in [1 .. Len(queue) -> rest]
  <2>1. \A k \in 1 .. Len(queue) : queue[k].job \in Ifaces
    BY <1>1, ChannelElements DEF PoolInv, TypeOK
  <2>2. \A k \in 1 .. Len(queue) : queue[k].job # i
    BY <1>1 DEF Queued
  <2> QED BY <2>1, <2>2
<1>5. \A k, l \in 1 .. Len(queue) : slot[k] = slot[l] => k = l
  BY <1>1 DEF PoolInv, OneHolder
<1>6. ~(Cardinality(rest) < Cardinality(1 .. Len(queue)))
  <2> HIDE DEF slot, rest
  <2> QED BY <1>2, <1>3, <1>4, <1>5, FS_PigeonHole
<1>7. Cardinality(Ifaces) \in Nat
  BY PoolAssumption, FS_CardinalityType
<1> QED BY <1>1, <1>2, <1>3, <1>6, <1>7 DEF QueueSize

(* No send into the channel ever blocks, whatever the number of workers    *)
(* that retry at the same time: the channel has a slot per interface and   *)
(* the interface being sent occupies none.                                 *)
THEOREM NoBlockedSend == SafetySpec => []SendersNeverBlock
<1>1. PoolInv => SendersNeverBlock
  <2> SUFFICES ASSUME PoolInv,
                      mpc = "submit" \/ \E w \in Workers : wpc[w] = "requeue"
               PROVE  Len(queue) < QueueSize
    BY DEF SendersNeverBlock
  <2>1. CASE mpc = "submit"
    <3>1. sending \in Ifaces /\ ~Queued(sending)
      BY <2>1 DEF PoolInv, TypeOK, MainInv, OneHolder, Queued
    <3> QED BY <3>1, RoomForOneMore
  <2>2. ASSUME NEW w \in Workers, wpc[w] = "requeue"
        PROVE  Len(queue) < QueueSize
    <3>1. env[w].job \in Ifaces /\ ~Queued(env[w].job)
      BY <2>2 DEF PoolInv, OneHolder, Holding
    <3> QED BY <3>1, RoomForOneMore
  <2> QED BY <2>1, <2>2
<1> QED BY PoolInvariant, <1>1, PTL

(* When Execute has closed the channel it is empty and no worker will ever *)
(* send to it again.                                                       *)
THEOREM NoSendAfterClose == SafetySpec => []ClosedIsQuiet
<1>1. PoolInv => ClosedIsQuiet
  <2> SUFFICES ASSUME PoolInv, mpc = "returned"
               PROVE  queue = << >> /\ \A w \in Workers : wpc[w] \in {"recv", "exit"}
    BY DEF ClosedIsQuiet, closed
  <2>1. Outstanding = {} /\ unsent = {}
    BY DEF PoolInv, MainInv
  <2>2. \A i \in Ifaces : Settled(i) /\ ~Held(i)
    BY <2>1 DEF Outstanding
  <2>3. \A w \in Workers : wpc[w] \in {"recv", "exit"}
    BY <2>2 DEF PoolInv, TypeOK, OneHolder, Held
  <2>4. \A i \in Ifaces : ~Queued(i)
    BY <2>2 DEF PoolInv, SettledInv
  <2>5. \A k \in DOMAIN queue : queue[k].job \in Ifaces
    BY ChannelElements DEF PoolInv, TypeOK
  <2>6. DOMAIN queue = {}
    BY <2>4, <2>5 DEF Queued
  <2>7. queue = << >>
    BY <2>6 DEF PoolInv, TypeOK
  <2> QED BY <2>3, <2>7
<1> QED BY PoolInvariant, <1>1, PTL

(* The report of Execute accounts for every interface exactly once and its *)
(* counters agree with its lists.                                          *)
THEOREM CompleteReport == SafetySpec => []ReportComplete
<1>1. PoolInv => ReportComplete
  <2> SUFFICES ASSUME PoolInv, mpc = "returned"
               PROVE  /\ \A i \in Ifaces : results[i] + failures[i] = 1
                      /\ processed = Cardinality({i \in Ifaces : results[i] = 1})
                      /\ failed = Cardinality({i \in Ifaces : failures[i] = 1})
    BY DEF ReportComplete
  <2>1. \A i \in Ifaces : Settled(i) /\ ~Held(i)
    BY DEF PoolInv, MainInv, Outstanding
  <2>2. \A i \in Ifaces : results[i] + failures[i] = 1
    BY <2>1 DEF PoolInv, SettledInv, Settled, TypeOK
  <2>3. \A i \in Ifaces : ~InHook(i)
    BY <2>1 DEF InHook, Held, Holding
  <2>4. CountedOK = {i \in Ifaces : results[i] = 1}
    BY <2>3 DEF CountedOK
  <2> QED BY <2>2, <2>4 DEF PoolInv, CountInv, CountedFailed
<1> QED BY PoolInvariant, <1>1, PTL

(* Execute implements InterfaceBatch: an interface is settled by the       *)
(* success of its handler or by the hook of its last failure, in one step; *)
(* WaitAndStop is the report and ExecuteError the abort; every other step  *)
(* leaves the outcome of every interface alone.                            *)
THEOREM BatchRefinement == SafetySpec => ImplementsBatchSafety
<1> DEFINE outc == [i \in Ifaces |-> outcomeOf(i)]
           ret == mpc \in {"returned", "error"}
<1>1. Init => Batch!BatchInit
  BY DEF Init, Batch!BatchInit, outcomeOf
<1>2. ASSUME PoolInv, [Next]_vars PROVE [Batch!BatchNext]_(Batch!batchVars)
  <2> USE <1>2
  <2>1. CASE UNCHANGED <<results, failures>> /\ UNCHANGED ret
    BY <2>1 DEF Batch!batchVars, outcomeOf
  <2>2. CASE ExecuteError
    <3>1. \A i \in Ifaces : outcomeOf(i) = "pending"
      BY <2>2 DEF ExecuteError, PoolInv, MainInv, SettledInv, Settled, TypeOK, outcomeOf
    <3>2. outc' = outc /\ ~ret /\ ret'
      BY <2>2 DEF ExecuteError, reportVars, outcomeOf
    <3>3. Batch!Abort
      BY <3>1, <3>2 DEF Batch!Abort
    <3> QED BY <3>3 DEF Batch!BatchNext
  <2>3. CASE WaitAndStop
    <3>1. PoolInv' /\ mpc' = "returned"
      BY <2>3, WaitAndStopStep DEF WaitAndStop
    <3>2. \A i \in Ifaces : Settled(i)'
      BY <3>1 DEF PoolInv, MainInv, Outstanding
    <3>3. \A i \in Ifaces : outcomeOf(i) # "pending"
      BY <2>3, <3>2 DEF WaitAndStop, reportVars, Settled, PoolInv, TypeOK, outcomeOf
    <3>4. outc' = outc /\ ~ret /\ ret'
      BY <2>3 DEF WaitAndStop, reportVars, outcomeOf
    <3>5. Batch!Report
      BY <3>3, <3>4 DEF Batch!Report
    <3> QED BY <3>5 DEF Batch!BatchNext
  <2>4. ASSUME NEW w \in Workers, HandlerSuccess(w)
        PROVE  [Batch!BatchNext]_(Batch!batchVars)
    <3>1. env[w].job \in Ifaces /\ ~Settled(env[w].job) /\ env[w].job \notin unsent
      BY <2>4 DEF HandlerSuccess, PoolInv, OneHolder, SettledInv, Holding
    <3>2. results[env[w].job] = 0 /\ failures[env[w].job] = 0
      BY <3>1 DEF Settled, PoolInv, TypeOK
    <3>3. ~ret
      BY <2>4, <3>1 DEF PoolInv, MainInv, Outstanding, HandlerSuccess
    <3>4. outcomeOf(env[w].job) = "pending"
      BY <3>2 DEF outcomeOf
    <3>5. outc' = [outc EXCEPT ![env[w].job] = "configured"]
      <4>1. ASSUME NEW i \in Ifaces
            PROVE  outcomeOf(i)' = IF i = env[w].job THEN "configured" ELSE outcomeOf(i)
        BY <2>4, <3>1, <3>2 DEF HandlerSuccess, outcomeOf, PoolInv, TypeOK
      <4> QED BY <4>1
    <3>6. ret' <=> ret
      BY <2>4 DEF HandlerSuccess, mainVars
    <3>7. Batch!Settle(env[w].job)
      BY <3>1, <3>3, <3>4, <3>5, <3>6 DEF Batch!Settle
    <3> QED BY <3>1, <3>7 DEF Batch!BatchNext
  <2>5. ASSUME NEW w \in Workers, AfterHook(w), status[w] # "success"
        PROVE  [Batch!BatchNext]_(Batch!batchVars)
    <3>1. env[w].job \in Ifaces /\ ~Settled(env[w].job) /\ env[w].job \notin unsent
      BY <2>5 DEF AfterHook, Goto, PoolInv, OneHolder, WorkerInv, Holding
    <3>2. results[env[w].job] = 0 /\ failures[env[w].job] = 0
      BY <3>1 DEF Settled, PoolInv, TypeOK
    <3>3. ~ret
      BY <2>5, <3>1 DEF PoolInv, MainInv, Outstanding, AfterHook, Goto
    <3>4. outcomeOf(env[w].job) = "pending"
      BY <3>2 DEF outcomeOf
    <3>5. outc' = [outc EXCEPT ![env[w].job] = "failed"]
      <4>1. ASSUME NEW i \in Ifaces
            PROVE  outcomeOf(i)' = IF i = env[w].job THEN "failed" ELSE outcomeOf(i)
        BY <2>5, <3>1, <3>2 DEF AfterHook, outcomeOf, PoolInv, TypeOK
      <4> QED BY <4>1
    <3>6. ret' <=> ret
      BY <2>5 DEF AfterHook, mainVars
    <3>7. Batch!Settle(env[w].job)
      BY <3>1, <3>3, <3>4, <3>5, <3>6 DEF Batch!Settle
    <3> QED BY <3>1, <3>7 DEF Batch!BatchNext
  <2>6. CASE Main
    <3>1. CASE StartPool \/ Submit \/ \E i \in Ifaces : AddToGroup(i)
      BY <2>1, <3>1 DEF StartPool, Submit, AddToGroup, reportVars
    <3> QED BY <2>2, <2>3, <2>6, <3>1 DEF Main
  <2>7. ASSUME NEW w \in Workers, Worker(w)
        PROVE  [Batch!BatchNext]_(Batch!batchVars)
    <3>1. CASE \/ Receive(w) \/ WorkerReturn(w) \/ Refuse(w) \/ BeginProcess(w)
               \/ ProcessError(w) \/ HandlerPanic(w) \/ EndBackoff(w)
               \/ Requeue(w) \/ GroupDone(w)
      <4>1. UNCHANGED <<results, failures, mpc>>
        BY <3>1 DEF Receive, WorkerReturn, Refuse, BeginProcess, ProcessError,
           HandlerPanic, EndBackoff, Requeue, GroupDone, mainVars, reportVars
      <4> QED BY <2>1, <4>1
    <3>2. CASE AfterHook(w) /\ status[w] = "success"
      <4>1. UNCHANGED <<results, failures, mpc>>
        BY <3>2 DEF AfterHook, mainVars
      <4> QED BY <2>1, <4>1
    <3> QED BY <2>4, <2>5, <2>7, <3>1, <3>2 DEF Worker
  <2>8. CASE Cancel \/ UNCHANGED vars
    <3>1. UNCHANGED <<results, failures, mpc>>
      BY <2>8 DEF Cancel, vars, mainVars, reportVars
    <3> QED BY <2>1, <3>1
  <2> QED BY <2>6, <2>7, <2>8 DEF Next
<1> QED BY <1>1, <1>2, PoolInvariant, PTL DEF SafetySpec, ImplementsBatchSafety, Batch!BatchSafety
=============================================================================
