--------------------------- MODULE KeyringChunks ---------------------------
(***************************************************************************)
(* The refresh-token store of azapptoolkit-auth (token_cache.rs): one      *)
(* account's refresh token, split over numbered entries of the operating   *)
(* system's credential store.                                              *)
(*                                                                         *)
(* One action is one call of the credential store (set, get or delete of   *)
(* one entry), which may fail.  Within a process every operation holds     *)
(* CHUNK_SET_LOCK from its first call to its last; a second process        *)
(* (another instance of the application) has a lock of its own, and a      *)
(* process may die between any two calls.  A token is a name with a number *)
(* of parts, so that a splice of two tokens is visible.                    *)
(***************************************************************************)
EXTENDS Integers, Sequences, FiniteSets

CONSTANTS
    Procs,        \* running instances of the application
    Threads,      \* the threads that call the store
    Home,         \* the process a thread belongs to
    Calls,        \* the operations a thread is asked for
    Tokens,       \* refresh tokens
    Parts,        \* how many chunks a token splits into
    MaxChunks,    \* the largest of them
    MaxWrites,    \* bound on the number of saves
    Upgrades,     \* formats an earlier version may have left: "azapp1", "legacy"
    OldTokens,    \* the tokens it may have left in them
    Free, NoTok

ASSUME ChunkAssumptions ==
    /\ Home \in [Threads -> Procs]
    /\ Calls \in [Threads -> SUBSET {"save", "load", "delete", "purge"}]
    /\ MaxChunks \in Nat \ {0}
    /\ Parts \in [Tokens -> 1..MaxChunks]
    /\ MaxWrites \in Nat
    /\ Upgrades \subseteq {"azapp1", "legacy"}
    /\ OldTokens \subseteq Tokens
    /\ Free \notin Threads
    /\ NoTok \notin Tokens

VARIABLES
    store,    \* the credential store: entry index -> chunk
    lock,     \* CHUNK_SET_LOCK of every process
    op,       \* what every thread is doing
    last,     \* how the last operation of every process ended
    found,    \* the session there was when it began (history)
    written,  \* the token of every write so far; a generation is a position
    cut       \* a deletion or a sweep has stopped before its end (history)

vars == <<store, lock, op, last, found, written, cut>>

-----------------------------------------------------------------------------
(* Chunks.  A value is what one entry holds: the marker of chunk 0 with    *)
(* the count it declares, the generation (0 where a format has none) and   *)
(* the payload, which is a part of a token.                                *)

\* The variants of an operation that a plausible slip in the code would give stand
\* before it and are named for the slip.

GAP_TOLERANCE == 4

Idx == 0..(MaxChunks + GAP_TOLERANCE)

Chunk(marker, total, gen, tok, i) ==
    [marker |-> marker, total |-> total, gen |-> gen, tok |-> tok, part |-> i]

\* What a read of an absent entry finds.
NoEntry == Chunk("none", 0, 0, NoTok, 0)

encode_chunk_one_gen(i, total, gen, tok) ==
    IF i = 0 THEN Chunk("azapp2", total, 1, tok, 0) ELSE Chunk("data", 0, 1, tok, i)

encode_chunk(i, total, gen, tok) ==
    IF i = 0 THEN Chunk("azapp2", total, gen, tok, 0) ELSE Chunk("data", 0, gen, tok, i)

\* Text appended to the token being reassembled: a payload, or a whole stored
\* value with the generation in front of it when the reader expects none.
Payload(c) == [gen |-> 0, tok |-> c.tok, part |-> c.part]
Raw(c)     == [gen |-> c.gen, tok |-> c.tok, part |-> c.part]

Whole(tok) == [i \in 1..Parts[tok] |-> [gen |-> 0, tok |-> tok, part |-> i - 1]]

NoSession == <<>>

-----------------------------------------------------------------------------
(* What a load of a quiescent store returns, said without a loop: the      *)
(* reference load_chunks is compared with.                                 *)

FirstMissing(s) == CHOOSE i \in Idx : s[i] = NoEntry /\ \A j \in 0..(i - 1) : s[j] # NoEntry

Run(s, n) == [i \in 1..n |-> IF i = 1 THEN Payload(s[0]) ELSE Raw(s[i - 1])]

Loaded(s) ==
    CASE s[0] = NoEntry -> NoSession
      [] s[0] # NoEntry /\ s[0].marker = "azapp2" ->
            IF \A i \in 1..(s[0].total - 1) : s[i] # NoEntry /\ s[i].gen = s[0].gen
              THEN [i \in 1..s[0].total |-> Payload(s[i - 1])] ELSE NoSession
      [] s[0] # NoEntry /\ s[0].marker = "azapp1" ->
            IF FirstMissing(s) = s[0].total THEN Run(s, FirstMissing(s)) ELSE NoSession
      [] OTHER -> Run(s, FirstMissing(s))

-----------------------------------------------------------------------------
(* Threads.                                                                *)

\* An operation before its first call.
Work(do, why, tok, gen) ==
    [do |-> do, why |-> why, idx |-> 0, tok |-> tok, gen |-> gen,
     declared |-> -1, mismatch |-> FALSE, got |-> NoSession, missing |-> 0]

Idle == Work("idle", "none", NoTok, 0)

Report(what, res, tok, got, gen) ==
    [of |-> what, res |-> res, tok |-> tok, got |-> got, gen |-> gen]

NoReport == Report("none", "ok", NoTok, NoSession, 0)

\* The set an earlier version of the program left behind, if any.
OlderSet(format, tok) ==
    [i \in Idx |->
        IF i >= Parts[tok] THEN NoEntry
        ELSE IF i = 0 /\ format = "azapp1" THEN Chunk("azapp1", Parts[tok], 0, tok, 0)
        ELSE Chunk("data", 0, 0, tok, i)]

Init ==
    /\ store \in {[i \in Idx |-> NoEntry]} \cup
                 {OlderSet(f, k) : f \in Upgrades, k \in OldTokens}
    /\ lock = [p \in Procs |-> Free]
    /\ op = [t \in Threads |-> Idle]
    /\ last = [p \in Procs |-> NoReport]
    /\ found = [p \in Procs |-> NoSession]
    /\ written = <<>>
    /\ cut = FALSE

BeginUnlocked(t, new) ==
    /\ op[t].do = "idle"
    /\ new.why \in Calls[t]
    /\ lock' = [lock EXCEPT ![Home[t]] = t]
    /\ op' = [op EXCEPT ![t] = new]
    /\ found' = [found EXCEPT ![Home[t]] = Loaded(store)]
    /\ last' = [last EXCEPT ![Home[t]] = NoReport]
    /\ UNCHANGED <<store, cut>>

\* t takes its process's lock for a new operation.
Begin(t, new) ==
    /\ op[t].do = "idle"
    /\ new.why \in Calls[t]
    /\ lock[Home[t]] = Free
    /\ lock' = [lock EXCEPT ![Home[t]] = t]
    /\ op' = [op EXCEPT ![t] = new]
    /\ found' = [found EXCEPT ![Home[t]] = Loaded(store)]
    /\ last' = [last EXCEPT ![Home[t]] = NoReport]
    /\ UNCHANGED <<store, cut>>

\* t goes on to its next call.
Continue(t, new) ==
    /\ op' = [op EXCEPT ![t] = new]
    /\ UNCHANGED <<lock, last, found, written>>

\* t's operation returns and the lock's guard is dropped.
Return(t, what, res) ==
    /\ op' = [op EXCEPT ![t] = Idle]
    /\ lock' = [lock EXCEPT ![Home[t]] = Free]
    /\ last' = [last EXCEPT ![Home[t]] =
                  Report(what, res, IF what = "save" THEN op[t].tok ELSE NoTok, NoSession, 0)]
    /\ UNCHANGED <<found, written>>

-----------------------------------------------------------------------------
(* save_refresh_token_if.  A save whose still_current is false returns     *)
(* under the lock with nothing done: a stuttering step here.               *)

Save(t, tok) ==
    /\ Len(written) < MaxWrites
    /\ written' = Append(written, tok)
    /\ Begin(t, Work("write", "save", tok, Len(written) + 1))

\* write_chunks: chunk 0 first, then the others, then the sweep of the tail.
WriteChunk(t) ==
    LET o == op[t]  total == Parts[o.tok] IN
    /\ o.do = "write"
    /\ store' = [store EXCEPT ![o.idx] = encode_chunk(o.idx, total, o.gen, o.tok)]
    /\ Continue(t, [o EXCEPT !.idx = o.idx + 1,
                             !.do = IF o.idx + 1 = total THEN "sweep" ELSE "write"])

\* A refused write: nothing to undo at chunk 0, a rollback after it.
WriteFails(t) ==
    LET o == op[t] IN
    /\ o.do = "write"
    /\ UNCHANGED store
    /\ IF o.idx = 0
         THEN Return(t, "save", "refused")
         ELSE Continue(t, [o EXCEPT !.do = "delete", !.why = "rollback", !.idx = 0])

\* The sweep of a longer token's tail ends at the first missing entry.
SweepTail(t) ==
    LET o == op[t] IN
    /\ o.do = "sweep"
    /\ IF store[o.idx] = NoEntry
         THEN Return(t, "save", "ok") /\ UNCHANGED store
         ELSE /\ store' = [store EXCEPT ![o.idx] = NoEntry]
              /\ Continue(t, [o EXCEPT !.idx = o.idx + 1])

\* A failed delete ends the sweep; the new token is saved all the same.
SweepFails(t) ==
    /\ op[t].do = "sweep"
    /\ Return(t, "save", "ok")
    /\ UNCHANGED store

-----------------------------------------------------------------------------
(* load_refresh_token and the load of delete_refresh_token_if_current.     *)

Load(t) ==
    /\ Begin(t, Work("load", "load", NoTok, 0))
    /\ UNCHANGED written

\* What the loop of load_chunks ends with: nothing when the set is empty,
\* mixes generations or disagrees with the count it declares.
LoadResult(o) ==
    IF o.idx = 0 \/ o.mismatch \/ (o.declared >= 0 /\ o.declared # o.idx)
      THEN NoSession ELSE o.got

\* The end of the loop: a load returns, a purge compares and goes on.
LoadEnds(t, o) ==
    LET current == LoadResult(o) IN
    IF o.why = "load"
      THEN /\ op' = [op EXCEPT ![t] = Idle]
           /\ lock' = [lock EXCEPT ![Home[t]] = Free]
           /\ last' = [last EXCEPT ![Home[t]] =
                         Report("load", "ok", NoTok, current, o.gen)]
           /\ UNCHANGED <<found, written>>
    ELSE IF current # NoSession /\ current # Whole(o.tok)
      THEN Return(t, "purge", "superseded")
      ELSE Continue(t, [o EXCEPT !.do = "delete", !.idx = 0])

\* One turn of the loop of load_chunks; sameGen is what it makes of the generation
\* of a later chunk.
LoadTurn(t, sameGen) ==
    LET o == op[t]
        c == store[o.idx]
        next == [o EXCEPT !.idx = o.idx + 1]
    IN  /\ o.do = "load"
        /\ UNCHANGED store
        /\ IF (o.gen > 0 /\ o.declared = o.idx) \/ c = NoEntry
             THEN LoadEnds(t, o)
           ELSE IF o.idx = 0
             THEN Continue(t, [next EXCEPT !.got = <<Payload(c)>>,
                                           !.declared = IF c.marker = "data" THEN -1 ELSE c.total,
                                           !.gen = IF c.marker = "azapp2" THEN c.gen ELSE 0])
           ELSE IF o.gen = 0
             THEN Continue(t, [next EXCEPT !.got = Append(o.got, Raw(c))])
           ELSE IF sameGen
             THEN Continue(t, [next EXCEPT !.got = Append(o.got, Payload(c))])
             ELSE Continue(t, [next EXCEPT !.mismatch = TRUE])

\* The count of chunk 0 is trusted (the azapp1 behaviour).
ReadChunkByCount(t) == LoadTurn(t, TRUE)

\* A chunk is compared with chunk 0 as it is now, not with what the load began on.
ReadChunkRereads(t) == LoadTurn(t, store[op[t].idx].gen = store[0].gen)

\* A later chunk must carry the generation chunk 0 had when it was read.
ReadChunk(t) == LoadTurn(t, store[op[t].idx].gen = op[t].gen)

ReadFails(t) ==
    /\ op[t].do = "load"
    /\ Return(t, op[t].why, "err")
    /\ UNCHANGED store

-----------------------------------------------------------------------------
(* delete_refresh_token, delete_refresh_token_then and _if (a delete whose *)
(* still_current is false stutters), and delete_refresh_token_if_current.  *)

Delete(t) ==
    /\ Begin(t, Work("delete", "delete", NoTok, 0))
    /\ UNCHANGED written

Purge(t, rejected) ==
    /\ Begin(t, Work("load", "purge", rejected, 0))
    /\ UNCHANGED written

\* A rollback reports the save's error, whatever the deletion did.
DeleteEnds(t, res) ==
    IF op[t].why = "rollback" THEN Return(t, "save", "torn") ELSE Return(t, op[t].why, res)

\* The first missing entry ends the loop.
DeleteChunkToFirstGap(t) ==
    LET o == op[t] IN
    /\ o.do = "delete"
    /\ IF store[o.idx] # NoEntry
         THEN /\ store' = [store EXCEPT ![o.idx] = NoEntry]
              /\ Continue(t, [o EXCEPT !.idx = o.idx + 1])
         ELSE UNCHANGED store /\ DeleteEnds(t, "ok")

\* One turn of the loop of delete_chunks.
DeleteChunk(t) ==
    LET o == op[t] IN
    /\ o.do = "delete"
    /\ IF store[o.idx] # NoEntry
         THEN /\ store' = [store EXCEPT ![o.idx] = NoEntry]
              /\ Continue(t, [o EXCEPT !.idx = o.idx + 1, !.missing = 0])
         ELSE /\ UNCHANGED store
              /\ IF o.missing + 1 >= GAP_TOLERANCE
                   THEN DeleteEnds(t, "ok")
                   ELSE Continue(t, [o EXCEPT !.idx = o.idx + 1, !.missing = o.missing + 1])

DeleteFails(t) ==
    /\ op[t].do = "delete"
    /\ DeleteEnds(t, "err")
    /\ UNCHANGED store

-----------------------------------------------------------------------------
\* The process dies; its threads and its lock go with it.
Crash(p) ==
    /\ lock[p] # Free
    /\ op' = [t \in Threads |-> IF Home[t] = p THEN Idle ELSE op[t]]
    /\ last' = [last EXCEPT ![p] =
                  Report("crash", op[lock[p]].why, op[lock[p]].tok, NoSession, 0)]
    /\ lock' = [lock EXCEPT ![p] = Free]
    /\ cut' = (cut \/ op[lock[p]].do \in {"sweep", "delete"})
    /\ UNCHANGED <<store, found, written>>

Step(t) ==
    /\ WriteChunk(t) \/ SweepTail(t) \/ ReadChunk(t) \/ DeleteChunk(t)
    /\ UNCHANGED cut

Fault(t) ==
    \/ (WriteFails(t) \/ ReadFails(t)) /\ UNCHANGED cut
    \/ (SweepFails(t) \/ DeleteFails(t)) /\ cut' = TRUE

Next ==
    \/ \E t \in Threads :
        \/ Load(t)
        \/ Delete(t)
        \/ \E tok \in Tokens : Save(t, tok) \/ Purge(t, tok)
        \/ Step(t)
        \/ Fault(t)
    \/ \E p \in Procs : Crash(p)

Spec == Init /\ [][Next]_vars

-----------------------------------------------------------------------------
(* Properties.                                                             *)

Chunks ==
    [marker : {"azapp2", "azapp1", "data"}, total : 0..MaxChunks,
     gen : 0..MaxWrites, tok : Tokens, part : 0..MaxChunks]

Texts == Seq([gen : 0..MaxWrites, tok : Tokens, part : 0..MaxChunks])

Doings == {"idle", "write", "sweep", "load", "delete"}
Causes == {"none", "save", "load", "delete", "purge", "rollback"}

Progress ==
    [do : Doings, why : Causes, idx : Idx, tok : Tokens \cup {NoTok},
     gen : 0..MaxWrites, declared : -1..MaxChunks, mismatch : BOOLEAN,
     got : Texts, missing : 0..(GAP_TOLERANCE - 1)]

Reports ==
    [of : Causes \cup {"crash"}, res : Causes \cup {"ok", "err", "refused", "torn", "superseded"},
     tok : Tokens \cup {NoTok}, got : Texts, gen : 0..MaxWrites]

\* Types of the store, the locks and the threads' progress (token_cache.rs:383-672):
\* no loop runs past the entries a token can have touched.
ChunkTypeOK ==
    /\ store \in [Idx -> Chunks \cup {NoEntry}]
    /\ \A i \in Idx : i >= MaxChunks => store[i] = NoEntry
    /\ lock \in [Procs -> Threads \cup {Free}]
    /\ op \in [Threads -> Progress]
    /\ last \in [Procs -> Reports]
    /\ written \in Seq(Tokens)
    /\ Len(written) <= MaxWrites
    /\ cut \in BOOLEAN

\* A load that read a current-format chunk 0 returns nothing or one whole token,
\* whatever crashed, failed or was written by another instance in between: the
\* generation check of load_chunks (token_cache.rs:485-512).
NoSplice ==
    \A p \in Procs :
        last[p].of = "load" /\ last[p].res = "ok" /\ last[p].gen > 0 =>
            last[p].got = NoSession \/ \E tok \in Tokens : last[p].got = Whole(tok)

\* No other instance has called the store: what p found and left is its own doing.
Undisturbed(p) ==
    \A q \in Procs \ {p} : lock[q] = Free /\ last[q] = NoReport

\* As long as only one instance has run, and whatever format it found, a load
\* returns what the quiescent store holds, and that is nothing or one whole token.
LoadIsExact ==
    \A p \in Procs :
        Undisturbed(p) /\ lock[p] = Free /\ last[p].of = "load" /\ last[p].res = "ok" =>
            /\ last[p].got = Loaded(store)
            /\ last[p].got = NoSession \/ \E tok \in Tokens : last[p].got = Whole(tok)

\* What a save reports is what the next load finds (token_cache.rs:346-381), as
\* long as only one instance has run: the new token after success, a stale tail or
\* not; the previous session after a refusal at chunk 0; no session after a write
\* that stopped half way.
SaveReportIsTrue ==
    \A p \in Procs :
        Undisturbed(p) /\ lock[p] = Free /\ last[p].of = "save" =>
            Loaded(store) = CASE last[p].res = "ok"      -> Whole(last[p].tok)
                              [] last[p].res = "refused" -> found[p]
                              [] last[p].res = "torn"    -> NoSession

\* A delete or a purge that reported success.
Deleted(p) ==
    lock[p] = Free /\ last[p].of \in {"delete", "purge"} /\ last[p].res = "ok"

\* What a delete or a purge that reports success leaves behind, for a token of any
\* length and as long as only one instance has run: nothing, unless an earlier
\* deletion or sweep was cut short by a failure or a crash, and then only entries
\* past the first GAP_TOLERANCE, never a chunk 0 to load (token_cache.rs:645-668).
DeletedIsGone ==
    \A p \in Procs : Undisturbed(p) /\ Deleted(p) =>
        \A i \in Idx : store[i] # NoEntry => cut /\ i >= GAP_TOLERANCE

\* A retried delete does not "report success with token fragments still on disk"
\* (the comment of delete_chunks, token_cache.rs:645-648).
DeleteLeavesNothing ==
    \A p \in Procs : Deleted(p) => \A i \in Idx : store[i] = NoEntry

\* A process that dies inside an operation, before any other instance has run,
\* leaves the session it found, the token it was writing, or none
\* (token_cache.rs:401-408).
CrashIsClean ==
    \A p \in Procs :
        Undisturbed(p) /\ lock[p] = Free /\ last[p].of = "crash" =>
            \/ Loaded(store) \in {found[p], NoSession}
            \/ last[p].res = "save" /\ Loaded(store) = Whole(last[p].tok)
            \/ last[p].res = "load"

=============================================================================
