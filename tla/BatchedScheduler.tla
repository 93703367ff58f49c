-------------------------- MODULE BatchedScheduler --------------------------
(***************************************************************************)
(* internal/cppbackend/batched_scheduler.go: one goroutine decodes the     *)
(* next token of every session in one batch; with its readers              *)
(* (Backend.batchedInferStream) and the unload that stops it               *)
(* (Backend.unloadModel), both in internal/cppbackend/backend.go.          *)
(*                                                                         *)
(* One step is one region under a mutex or one channel operation.  The     *)
(* i-th token of a session is the number i, and a session is known by its  *)
(* SeqID, which is never used again.                                       *)
(***************************************************************************)
EXTENDS Integers, Sequences, FiniteSets

CONSTANTS Clients,    \* callers of batchedInferStream
          Hasty,      \* clients whose callback may return FALSE
          Slow,       \* clients that may stop reading
          NParallel,  \* nParallel
          PromptLen,  \* tokens of a prompt
          MaxTokens,  \* MaxTokens of a session
          Buf,        \* capacity of TokenCh
          MaxSeq,     \* bound on nextSeq
          NoSeq

ASSUME BatchedSchedulerAssumption ==
  /\ Hasty \subseteq Clients /\ Slow \subseteq Clients
  /\ {NParallel, PromptLen, MaxTokens, Buf, MaxSeq} \subseteq Nat \ {0}
  /\ MaxTokens <= Buf  \* batchedMaxTokensCap is the capacity of TokenCh
  /\ NoSeq \notin Nat

Seqs == 1 .. MaxSeq

VARIABLES nextSeq,   \* the next SeqID
          sessions,  \* the keys of BatchedScheduler.sessions
          state,     \* state[s]: BatchedSessionState
          kv,        \* kv[s]: tokens of s in the KV cache of the context
          run,       \* where Run is
          batch,     \* active: the sessions of the running tick
          cur,       \* the session whose token is being sent
          client,    \* where the client is
          sid,       \* the session of the client
          got,       \* got[s]: the tokens the client has read
          hungUp,    \* sessions whose client returned before EOS
          ctxDone,   \* the context of Run is cancelled
          unload,    \* where unloadModel is
          crashed    \* a goroutine has panicked

served == <<nextSeq, sessions, state, kv>>
runner == <<run, batch, cur>>
clients == <<client, sid, got, hungUp>>
unloader == <<ctxDone, unload>>
schedulerVars == <<served, runner, clients, unloader, crashed>>

NewSession == [generated |-> 0, nextPos |-> 0, prefillDone |-> FALSE,
               finished |-> FALSE, err |-> FALSE,
               tokenCh |-> <<>>, closed |-> FALSE, done |-> FALSE]

SchedulerInit ==
  /\ nextSeq = 1 /\ sessions = {}
  /\ state = [s \in Seqs |-> NewSession]
  /\ kv = [s \in Seqs |-> 0]
  /\ run = "select" /\ batch = {} /\ cur = NoSeq
  /\ client = [c \in Clients |-> "idle"]
  /\ sid = [c \in Clients |-> NoSeq]
  /\ got = [s \in Seqs |-> <<>>]
  /\ hungUp = {}
  /\ ctxDone = FALSE /\ unload = "no"
  /\ crashed = FALSE

-----------------------------------------------------------------------------
(* The clients.                                                            *)

\* RegisterSession.  A client that found the model before it was unloaded may
\* still come here until unloadModel forgets the scheduler.
RegisterSession(c) ==
  /\ client[c] = "idle" /\ unload \in {"no", "wait"}
  /\ nextSeq <= MaxSeq /\ Cardinality(sessions) < NParallel
  /\ nextSeq' = nextSeq + 1
  /\ sessions' = sessions \union {nextSeq}
  /\ sid' = [sid EXCEPT ![c] = nextSeq]
  /\ client' = [client EXCEPT ![c] = "reading"]
  /\ UNCHANGED <<state, kv, runner, got, hungUp, unloader, crashed>>

\* tok := <-state.TokenCh, then the callback.
Read(c) ==
  LET s == sid[c]
  IN /\ client[c] = "reading" /\ state[s].tokenCh # <<>>
     /\ state' = [state EXCEPT ![s].tokenCh = Tail(@)]
     /\ got' = [got EXCEPT ![s] = Append(@, Head(state[s].tokenCh))]
     /\ \/ UNCHANGED <<client, hungUp>>
        \/ /\ c \in Hasty
           /\ client' = [client EXCEPT ![c] = "leaving"]
           /\ hungUp' = hungUp \union {s}
     /\ UNCHANGED <<nextSeq, sessions, kv, runner, sid, unloader, crashed>>

\* A mutant that leaves when the session is finished.
ReadFinished(c) ==
  /\ client[c] = "reading" /\ state[sid[c]].tokenCh = <<>> /\ state[sid[c]].finished
  /\ client' = [client EXCEPT ![c] = "leaving"]
  /\ UNCHANGED <<served, runner, sid, got, hungUp, unloader, crashed>>

\* TokenCh is closed and empty: EOS.
ReadClosed(c) ==
  /\ client[c] = "reading" /\ state[sid[c]].tokenCh = <<>> /\ state[sid[c]].closed
  /\ client' = [client EXCEPT ![c] = "leaving"]
  /\ UNCHANGED <<served, runner, sid, got, hungUp, unloader, crashed>>

\* The deferred UnregisterSession.  It looks whether TokenCh is closed by
\* receiving from it, which takes a token that is still there.
UnregisterSession(c) ==
  LET s == sid[c]
      st == IF state[s].finished THEN state[s]
            ELSE [state[s] EXCEPT !.err = TRUE, !.finished = TRUE, !.done = TRUE]
  IN /\ client[c] = "leaving"
     /\ state' = [state EXCEPT ![s] =
          IF st.tokenCh # <<>> THEN [st EXCEPT !.tokenCh = Tail(@)]
                               ELSE [st EXCEPT !.closed = TRUE]]
     /\ sessions' = sessions \ {s}
     /\ client' = [client EXCEPT ![c] = "idle"]
     /\ sid' = [sid EXCEPT ![c] = NoSeq]
     /\ got' = [got EXCEPT ![s] = <<>>]
     /\ UNCHANGED <<nextSeq, kv, runner, hungUp, unloader, crashed>>

-----------------------------------------------------------------------------
(* Run.                                                                    *)

\* markAllSessionsFinished: DoneCh is closed, TokenCh is not.
MarkAllSessionsFinished ==
  state' = [s \in Seqs |->
    IF s \in sessions /\ ~state[s].finished
      THEN [state[s] EXCEPT !.err = TRUE, !.finished = TRUE, !.done = TRUE]
      ELSE state[s]]

\* select: ctx.Done().
StopRun ==
  /\ run = "select" /\ ctxDone
  /\ MarkAllSessionsFinished
  /\ run' = "ended"
  /\ UNCHANGED <<nextSeq, sessions, kv, batch, cur, clients, unloader, crashed>>

\* FreeModel has run, for a detached scheduler or one detached by force.
Gone == {"freed", "torn"}

Unfinished == {s \in sessions : ~state[s].finished}

\* select: the ticker; also when ctx.Done() is ready.
Tick ==
  /\ run = "select" /\ Unfinished # {}
  /\ batch' = Unfinished
  /\ run' = "lock"
  /\ UNCHANGED <<served, cur, clients, unloader, crashed>>

\* inst.mu is locked while run = "decode".
LockModel ==
  /\ run = "lock"
  /\ run' = "decode"
  /\ UNCHANGED <<served, batch, cur, clients, unloader, crashed>>

\* Tokens a session gives to a batch.
Fed(s) == IF state[s].prefillDone THEN 1 ELSE PromptLen - state[s].nextPos

\* llama_decode refuses a batch in which a sequence does not go on where its
\* cache ends (a tick that was abandoned may have decoded it before).
Accepted == \A s \in batch : kv[s] = state[s].nextPos

DecodeOk ==
  /\ run = "decode" /\ unload \notin Gone /\ Accepted
  /\ kv' = [s \in Seqs |-> IF s \in batch THEN kv[s] + Fed(s) ELSE kv[s]]
  /\ run' = "dispatch"
  /\ UNCHANGED <<nextSeq, sessions, state, batch, cur, clients, unloader, crashed>>

\* A mutant that goes on with the next tick.
DecodeFailsRetried ==
  /\ run = "decode"
  /\ run' = "select" /\ batch' = {}
  /\ UNCHANGED <<served, cur, clients, unloader, crashed>>

\* llama_decode fails, or the model is no longer there.
DecodeFails ==
  /\ run = "decode"
  /\ MarkAllSessionsFinished
  /\ run' = "select" /\ batch' = {}
  /\ UNCHANGED <<nextSeq, sessions, kv, cur, clients, unloader, crashed>>

EndDispatch ==
  /\ run = "dispatch" /\ batch = {}
  /\ run' = "select"
  /\ UNCHANGED <<served, batch, cur, clients, unloader, crashed>>

\* The next session of the batch has been finished by others.
SkipFinished(s) ==
  /\ run = "dispatch" /\ s \in batch /\ state[s].finished
  /\ batch' = batch \ {s}
  /\ UNCHANGED <<served, run, cur, clients, unloader, crashed>>

\* A mutant: NextPos one too low after the prompt.
SampleNextPosLow(s) ==
  LET st == state[s]
  IN /\ run = "dispatch" /\ s \in batch /\ ~st.finished
     /\ \E eog \in BOOLEAN :
          state' = [state EXCEPT ![s] =
            [st EXCEPT !.prefillDone = TRUE,
                       !.nextPos = IF st.prefillDone THEN @ + 1 ELSE PromptLen - 1,
                       !.generated = @ + 1,
                       !.finished = eog \/ st.generated + 1 >= MaxTokens]]
     /\ batch' = batch \ {s} /\ cur' = s /\ run' = "send"
     /\ UNCHANGED <<nextSeq, sessions, kv, clients, unloader, crashed>>

\* Sampling and the update under the mutex of the session.
Sample(s) ==
  LET st == state[s]
  IN /\ run = "dispatch" /\ s \in batch /\ ~st.finished
     /\ \E eog \in BOOLEAN :
          state' = [state EXCEPT ![s] =
            [st EXCEPT !.prefillDone = TRUE,
                       !.nextPos = IF st.prefillDone THEN @ + 1 ELSE PromptLen,
                       !.generated = @ + 1,
                       !.finished = eog \/ st.generated + 1 >= MaxTokens]]
     /\ batch' = batch \ {s} /\ cur' = s /\ run' = "send"
     /\ UNCHANGED <<nextSeq, sessions, kv, clients, unloader, crashed>>

\* What follows the dispatch of a token: the channels of a finished session
\* are closed, otherwise it is the next one's turn.
Dispatched ==
  IF state[cur].finished THEN run' = "close" /\ UNCHANGED cur
                         ELSE run' = "dispatch" /\ cur' = NoSeq

\* The only token of a session is not sent.
Unsent == state[cur].finished /\ state[cur].generated = 1

HasRoom(s) == Len(state[s].tokenCh) < Buf

\* Mutants: TokenCh holds one token less and drops the next, or blocks.
SendOrDrop ==
  /\ run = "send"
  /\ IF Unsent \/ Len(state[cur].tokenCh) >= Buf - 1 THEN UNCHANGED <<state, crashed>>
     ELSE IF state[cur].closed THEN crashed' = TRUE /\ UNCHANGED state
     ELSE /\ state' = [state EXCEPT ![cur].tokenCh = Append(@, state[cur].generated)]
          /\ UNCHANGED crashed
  /\ Dispatched
  /\ UNCHANGED <<nextSeq, sessions, kv, batch, clients, unloader>>

SendBlocking ==
  /\ run = "send"
  /\ Len(state[cur].tokenCh) < Buf - 1
  /\ IF Unsent THEN UNCHANGED <<state, crashed>>
     ELSE IF state[cur].closed THEN crashed' = TRUE /\ UNCHANGED state
     ELSE /\ state' = [state EXCEPT ![cur].tokenCh = Append(@, state[cur].generated)]
          /\ UNCHANGED crashed
  /\ Dispatched
  /\ UNCHANGED <<nextSeq, sessions, kv, batch, clients, unloader>>

\* TokenCh has room for every token of a session, so the select neither
\* blocks on the first one nor drops a later one.
Send ==
  /\ run = "send" /\ HasRoom(cur)
  /\ IF Unsent THEN UNCHANGED <<state, crashed>>
     ELSE IF state[cur].closed THEN crashed' = TRUE /\ UNCHANGED state
     ELSE /\ state' = [state EXCEPT ![cur].tokenCh = Append(@, state[cur].generated)]
          /\ UNCHANGED crashed
  /\ Dispatched
  /\ UNCHANGED <<nextSeq, sessions, kv, batch, clients, unloader>>

\* ctx.Done() in either select ends the tick, whatever is left of it.
AbandonTick ==
  /\ run = "send" /\ ctxDone /\ ~Unsent
  /\ run' = "select" /\ batch' = {} /\ cur' = NoSeq
  /\ UNCHANGED <<served, clients, unloader, crashed>>

\* A mutant that closes DoneCh only.
CloseDoneCh ==
  /\ run = "close"
  /\ state' = [state EXCEPT ![cur].done = TRUE]
  /\ run' = "dispatch" /\ cur' = NoSeq
  /\ UNCHANGED <<nextSeq, sessions, kv, batch, clients, unloader, crashed>>

CloseChannels ==
  /\ run = "close"
  /\ IF state[cur].closed THEN crashed' = TRUE /\ UNCHANGED state
     ELSE /\ state' = [state EXCEPT ![cur].closed = TRUE, ![cur].done = TRUE]
          /\ UNCHANGED crashed
  /\ run' = "dispatch" /\ cur' = NoSeq
  /\ UNCHANGED <<nextSeq, sessions, kv, batch, clients, unloader>>

-----------------------------------------------------------------------------
(* unloadModel.                                                            *)

Unload ==
  /\ unload = "no"
  /\ unload' = "wait" /\ ctxDone' = TRUE
  /\ UNCHANGED <<served, runner, clients, crashed>>

\* A mutant that does not wait.
RunEndedOrNot ==
  /\ unload = "wait"
  /\ unload' = "detached"
  /\ UNCHANGED <<served, runner, clients, ctxDone, crashed>>

\* Run has returned.
RunEnded ==
  /\ unload = "wait" /\ run = "ended"
  /\ unload' = "detached"
  /\ UNCHANGED <<served, runner, clients, ctxDone, crashed>>

\* Run has not returned for 10 s: the scheduler is detached by force.
ForceDetach ==
  /\ unload = "wait" /\ run # "ended"
  /\ unload' = "forced"
  /\ UNCHANGED <<served, runner, clients, ctxDone, crashed>>

FreeContext ==
  /\ unload \in {"detached", "forced"} /\ run # "decode"
  /\ unload' = IF unload = "forced" THEN "torn" ELSE "freed"
  /\ UNCHANGED <<served, runner, clients, ctxDone, crashed>>

-----------------------------------------------------------------------------
RunStep ==
  \/ Tick \/ LockModel \/ DecodeOk \/ DecodeFails \/ EndDispatch
  \/ \E s \in Seqs : SkipFinished(s) \/ Sample(s)
  \/ Send \/ AbandonTick \/ CloseChannels

ClientStep(c) == Read(c) \/ ReadClosed(c) \/ UnregisterSession(c)

SchedulerNext ==
  /\ ~crashed
  /\ \/ \E c \in Clients : RegisterSession(c) \/ ClientStep(c)
     \/ RunStep \/ StopRun
     \/ Unload \/ RunEnded \/ ForceDetach \/ FreeContext

SchedulerSpec == SchedulerInit /\ [][SchedulerNext]_schedulerVars

\* Go picks among the ready arms of a select at random, so Run sees the
\* cancelled context; a client that is not slow keeps reading.  Nothing says
\* that the 10 s of ForceDetach are over before Run returns.
SchedulerLiveSpec ==
  /\ SchedulerSpec
  /\ WF_schedulerVars(~crashed /\ RunStep) /\ SF_schedulerVars(~crashed /\ StopRun)
  /\ WF_schedulerVars(~crashed /\ RunEnded) /\ WF_schedulerVars(~crashed /\ FreeContext)
  /\ \A c \in Clients \ Slow : WF_schedulerVars(~crashed /\ ClientStep(c))

-----------------------------------------------------------------------------
(* Properties.                                                             *)

SessionStates ==
  [generated : Nat, nextPos : Nat, prefillDone : BOOLEAN, finished : BOOLEAN, err : BOOLEAN,
   tokenCh : Seq(Nat), closed : BOOLEAN, done : BOOLEAN]

SchedulerTypeOK ==
  /\ nextSeq \in 1 .. MaxSeq + 1 /\ sessions \subseteq Seqs
  /\ state \in [Seqs -> SessionStates] /\ kv \in [Seqs -> Nat]
  /\ run \in {"select", "lock", "decode", "dispatch", "send", "close", "ended"}
  /\ batch \subseteq Seqs /\ cur \in Seqs \union {NoSeq}
  /\ client \in [Clients -> {"idle", "reading", "leaving"}]
  /\ sid \in [Clients -> Seqs \union {NoSeq}]
  /\ got \in [Seqs -> Seq(Nat)] /\ hungUp \subseteq Seqs
  /\ ctxDone \in BOOLEAN /\ crashed \in BOOLEAN
  /\ unload \in {"no", "wait", "detached", "forced", "freed", "torn"}

\* What a client has read and what waits in TokenCh are the generated tokens
\* in order and without a gap, up to the one being sent (the token that ends a
\* generation at once is never sent), and no more than asked for.  A cancelled
\* tick may lose a token.
TokensInOrder ==
  \A s \in sessions :
    LET sent == got[s] \o state[s].tokenCh
        n == state[s].generated
        unsent == (run = "send" /\ cur = s) \/ (state[s].finished /\ n = 1)
    IN /\ n <= MaxTokens
       /\ ctxDone \/ (/\ sent = [i \in 1 .. Len(sent) |-> i]
                      /\ Len(sent) = n \/ (unsent /\ Len(sent) = n - 1))

\* Between two ticks the KV cache of a session that goes on holds exactly the
\* tokens before NextPos, whatever other sessions joined, ended or hung up in
\* the same batch: the next token is decoded at its position.
CacheMatchesPosition ==
  run = "select" /\ ~ctxDone =>
    \A s \in Unfinished :
      /\ kv[s] = state[s].nextPos
      /\ state[s].prefillDone => kv[s] = PromptLen + state[s].generated - 1

\* Only a client that hangs up makes the scheduler panic on a closed TokenCh
\* (batched_scheduler.go:338): a reader that stays until EOS does not, nor does
\* an unload.
OnlyHangUpPanics ==
  [][crashed' => cur \in hungUp]_schedulerVars

\* backend.go:2407: the model is freed after Run has returned; when Run is
\* detached by force, at least not during a decode.
ModelOutlivesUse ==
  [][unload \notin Gone /\ unload' \in Gone
       => run = "ended" \/ (unload = "forced" /\ run # "decode")]_schedulerVars

\* Every session is finished although others do not read: a full or unread
\* TokenCh does not stop the batch (batched_scheduler.go:587).
SessionFinishes ==
  \A s \in Seqs : s \in sessions ~> state[s].done \/ ctxDone \/ crashed

\* A client that keeps reading sees the end of its stream, while no decode
\* fails and the model stays.
StreamEnds ==
  \A c \in Clients \ Slow :
    client[c] = "reading" ~> client[c] # "reading" \/ state[sid[c]].err \/ ctxDone \/ crashed

\* backend.go:2407 says the sessions in flight get an error and close their
\* channels; so the client of a failed session is released.
FailedStreamEnds ==
  \A c \in Clients \ Slow :
    client[c] = "reading" /\ state[sid[c]].err ~> client[c] # "reading" \/ crashed

=============================================================================
