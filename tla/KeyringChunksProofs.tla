------------------------ MODULE KeyringChunksProofs -------------------------
(***************************************************************************)
(* Proofs about KeyringChunks, for any number of threads and for tokens of *)
(* any length.  For any number of processes no load of the current format  *)
(* returns a splice.  In one process a load is exact, a save's report is   *)
(* true, a crash leaves no mixture, and a deletion that reports success    *)
(* has left nothing, or, after one that was cut short, nothing that a load *)
(* could begin with.                                                       *)
(*                                                                         *)
(* The inductive invariant ties every stored chunk, and every load in      *)
(* progress, to the write whose generation it carries; in one process also *)
(* an operation's progress to the store it has left so far.                *)
(***************************************************************************)
EXTENDS KeyringChunks, TLAPS

\* The first n parts of a token, reassembled.
Prefix(tok, n) == [i \in 1..n |-> [gen |-> 0, tok |-> tok, part |-> i - 1]]

\* A chunk that carries a generation is the part of that write's token its
\* index names, and a chunk 0 declares how many there are.
EntryOK(c, i) ==
    /\ c.marker = "azapp2" => c.gen > 0
    /\ c.gen > 0 => /\ c.gen <= Len(written)
                    /\ c.tok = written[c.gen]
                    /\ c.part = i
                    /\ i = 0 => c.total = Parts[c.tok]

\* A write holds its generation's token; a load that saw a generation has, so
\* far, a prefix of that write's token, or knows that the set is mixed; the
\* loops stay within reach of the last entry a token can have.
OpOK(o) ==
    /\ o.do # "delete" => o.missing = 0
    /\ o.do = "write" => /\ o.gen \in 1..Len(written)
                         /\ o.tok = written[o.gen]
                         /\ o.idx < Parts[o.tok]
    /\ o.do = "sweep" => o.idx <= MaxChunks
    /\ o.do = "load" => /\ o.idx <= MaxChunks
                        /\ o.idx = 0 => o.gen = 0
                        /\ o.idx = 0 => o.got = NoSession
                        /\ o.idx = 0 => ~ o.mismatch
                        /\ o.gen > 0 => /\ o.gen <= Len(written)
                                        /\ o.declared = Parts[written[o.gen]]
                                        /\ o.mismatch \/ o.got = Prefix(written[o.gen], o.idx)
    /\ o.do = "delete" => /\ o.why # "load"
                          /\ o.missing <= o.idx
                          /\ o.idx - o.missing <= MaxChunks

ChunkInv ==
    /\ ChunkTypeOK
    /\ \A i \in Idx : EntryOK(store[i], i)
    /\ \A t \in Threads : OpOK(op[t])
    /\ NoSplice

-----------------------------------------------------------------------------
(* Facts about the operators.                                              *)

\* An absent entry is not a chunk, carries no generation, and is in order.
LEMMA NoEntryFacts ==
    /\ NoEntry \notin Chunks
    /\ NoEntry.gen = 0
    /\ \A i \in Idx : EntryOK(NoEntry, i)
BY DEF NoEntry, Chunk, Chunks, EntryOK

\* What encode_chunk stores is a chunk, in order for the write it belongs to.
LEMMA EncodeFacts ==
    ASSUME ChunkTypeOK, NEW tok \in Tokens, NEW gen \in 1..Len(written),
           tok = written[gen], NEW i \in Idx, i < Parts[tok]
    PROVE  /\ encode_chunk(i, Parts[tok], gen, tok) \in Chunks
           /\ EntryOK(encode_chunk(i, Parts[tok], gen, tok), i)
<1>1. Parts[tok] \in 1..MaxChunks /\ MaxChunks \in Nat
  BY ChunkAssumptions
<1>2. gen \in 0..MaxWrites /\ gen \in Nat /\ gen > 0 /\ i \in 0..MaxChunks
  BY <1>1, ChunkAssumptions DEF ChunkTypeOK, Idx, GAP_TOLERANCE
<1>3. CASE i = 0
  BY <1>1, <1>2, <1>3 DEF encode_chunk, Chunk, Chunks, EntryOK
<1>4. CASE i # 0
  BY <1>1, <1>2, <1>4 DEF encode_chunk, Chunk, Chunks, EntryOK
<1> QED  BY <1>3, <1>4

\* One more part makes a prefix one longer, and all the parts make the token.
LEMMA PrefixFacts ==
    ASSUME NEW tok \in Tokens, NEW n \in Nat
    PROVE  /\ Append(Prefix(tok, n), [gen |-> 0, tok |-> tok, part |-> n]) = Prefix(tok, n + 1)
           /\ <<[gen |-> 0, tok |-> tok, part |-> 0]>> = Prefix(tok, 1)
           /\ Prefix(tok, Parts[tok]) = Whole(tok)
<1>1. Append(Prefix(tok, n), [gen |-> 0, tok |-> tok, part |-> n]) = Prefix(tok, n + 1)
  <2> DEFINE R == [gen : {0}, tok : {tok}, part : Nat]
  <2>1. Prefix(tok, n) \in Seq(R) /\ Len(Prefix(tok, n)) = n
    BY DEF Prefix
  <2>2. Prefix(tok, n + 1) \in Seq(R) /\ Len(Prefix(tok, n + 1)) = n + 1
    BY DEF Prefix
  <2>3. Append(Prefix(tok, n), [gen |-> 0, tok |-> tok, part |-> n]) \in Seq(R)
    BY <2>1
  <2>4. \A i \in 1..(n + 1) :
          Append(Prefix(tok, n), [gen |-> 0, tok |-> tok, part |-> n])[i] = Prefix(tok, n + 1)[i]
    BY <2>1 DEF Prefix
  <2> QED  BY <2>1, <2>2, <2>3, <2>4
<1>2. <<[gen |-> 0, tok |-> tok, part |-> 0]>> = Prefix(tok, 1)
  BY DEF Prefix
<1>3. Prefix(tok, Parts[tok]) = Whole(tok)
  BY DEF Prefix, Whole
<1> QED  BY <1>1, <1>2, <1>3

-----------------------------------------------------------------------------
(* What the actions have in common.                                        *)

\* A thread that moves to a progress in order, with at most one entry of the
\* store replaced by one in order, preserves the invariant.
LEMMA OneMove ==
    ASSUME ChunkInv, NEW t \in Threads, NEW new \in Progress, OpOK(new),
           NEW i \in Idx, NEW c \in Chunks \cup {NoEntry}, EntryOK(c, i),
           i >= MaxChunks => c = NoEntry,
           op' = [op EXCEPT ![t] = new],
           store' = store \/ store' = [store EXCEPT ![i] = c],
           lock' \in [Procs -> Threads \cup {Free}],
           last' \in [Procs -> Reports], NoSplice',
           written' = written, cut' \in BOOLEAN
    PROVE  ChunkInv'
<1>1. store' \in [Idx -> Chunks \cup {NoEntry}]
  BY DEF ChunkInv, ChunkTypeOK
<1>2. \A j \in Idx : j >= MaxChunks => store'[j] = NoEntry
  BY DEF ChunkInv, ChunkTypeOK
<1>3. op' \in [Threads -> Progress] /\ \A u \in Threads : op'[u] = op[u] \/ op'[u] = new
  BY DEF ChunkInv, ChunkTypeOK
<1>4. ChunkTypeOK'
  BY <1>1, <1>2, <1>3 DEF ChunkInv, ChunkTypeOK, NoEntry, Chunk, Idx, Chunks
<1>5. \A j \in Idx : EntryOK(store'[j], j)
  BY DEF ChunkInv, ChunkTypeOK
<1>6. (\A j \in Idx : EntryOK(store[j], j))'
  BY <1>5 DEF EntryOK
<1>7. \A u \in Threads : OpOK(op'[u])
  BY <1>3 DEF ChunkInv
<1>8. (\A u \in Threads : OpOK(op[u]))'
  BY <1>7 DEF OpOK, Prefix
<1> QED  BY <1>4, <1>6, <1>8 DEF ChunkInv

\* An idle thread is in order.
LEMMA IdleFacts ==
    /\ Idle \in Progress /\ OpOK(Idle) /\ NoSession \in Texts
    /\ 0 \in Idx /\ -1 \in -1..MaxChunks /\ 0 \in 0..MaxWrites /\ 0 \in 0..(GAP_TOLERANCE - 1)
    /\ MaxChunks \in Nat /\ MaxWrites \in Nat
<1>1. NoSession \in Texts
  BY DEF NoSession, Texts
<1>2. 0 \in Idx /\ -1 \in -1..MaxChunks /\ 0 \in 0..MaxWrites /\ 0 \in 0..(GAP_TOLERANCE - 1)
  BY ChunkAssumptions DEF Idx, GAP_TOLERANCE
<1>3. MaxChunks \in Nat /\ MaxWrites \in Nat
  BY ChunkAssumptions
<1>4. Idle \in Progress
  BY <1>1, <1>2 DEF Idle, Work, Progress, Doings, Causes
<1>5. OpOK(Idle)
  BY DEF Idle, Work, OpOK
<1> QED  BY <1>1, <1>2, <1>3, <1>4, <1>5

\* Going on with an operation.
LEMMA Continuing ==
    ASSUME ChunkInv, NEW t \in Threads, NEW new \in Progress, OpOK(new),
           NEW i \in Idx, NEW c \in Chunks \cup {NoEntry}, EntryOK(c, i),
           i >= MaxChunks => c = NoEntry,
           store' = store \/ store' = [store EXCEPT ![i] = c],
           Continue(t, new), cut' \in BOOLEAN
    PROVE  ChunkInv'
<1>1. NoSplice'
  BY DEF ChunkInv, NoSplice, Continue
<1>2. op' = [op EXCEPT ![t] = new] /\ lock' = lock /\ last' = last /\ written' = written
  BY DEF Continue
<1>3. lock' \in [Procs -> Threads \cup {Free}] /\ last' \in [Procs -> Reports]
  BY <1>2 DEF ChunkInv, ChunkTypeOK
<1> QED  BY <1>1, <1>2, <1>3, OneMove

\* Going on without a change of the store.
LEMMA ContinuingQuietly ==
    ASSUME ChunkInv, NEW t \in Threads, NEW new \in Progress, OpOK(new),
           store' = store, Continue(t, new), cut' \in BOOLEAN
    PROVE  ChunkInv'
<1>1. 0 \in Idx
  BY ChunkAssumptions DEF Idx, GAP_TOLERANCE
<1> QED  BY <1>1, Continuing, NoEntryFacts

\* Returning from anything but a successful load.
LEMMA Returning ==
    ASSUME ChunkInv, NEW t \in Threads, store' = store,
           NEW what \in Causes, NEW res \in {"ok", "err", "refused", "torn", "superseded"},
           what # "load" \/ res # "ok",
           Return(t, what, res), cut' \in BOOLEAN
    PROVE  ChunkInv'
<1> DEFINE r == Report(what, res, IF what = "save" THEN op[t].tok ELSE NoTok, NoSession, 0)
<1>1. 0 \in Idx /\ Home[t] \in Procs
  BY ChunkAssumptions DEF Idx, GAP_TOLERANCE
<1>2. op[t] \in Progress /\ last \in [Procs -> Reports]
  BY DEF ChunkInv, ChunkTypeOK
<1>3. r \in Reports
  BY <1>2, IdleFacts DEF Progress, Reports, Report
<1>4. op' = [op EXCEPT ![t] = Idle] /\ lock' = [lock EXCEPT ![Home[t]] = Free]
      /\ last' = [last EXCEPT ![Home[t]] = r] /\ written' = written
  BY DEF Return
<1>5. lock' \in [Procs -> Threads \cup {Free}] /\ last' \in [Procs -> Reports]
  BY <1>1, <1>2, <1>3, <1>4 DEF ChunkInv, ChunkTypeOK
<1>6. \A p \in Procs : last'[p] = last[p] \/ last'[p] = r
  BY <1>2, <1>4
<1>7. NoSplice'
  BY <1>6 DEF ChunkInv, NoSplice, Whole, Report
<1> QED  BY <1>1, <1>4, <1>5, <1>7, OneMove, NoEntryFacts, IdleFacts

\* A process that has reported nothing.
LEMMA NoReportFacts == NoReport \in Reports /\ NoReport.of = "none"
BY IdleFacts, ChunkAssumptions DEF NoReport, Report, Reports, Causes

\* A process that forgets its last report has reported no splice.
LEMMA Forgetting ==
    ASSUME ChunkInv, NEW p \in Procs, last' = [last EXCEPT ![p] = NoReport]
    PROVE  NoSplice'
<1>1. last \in [Procs -> Reports]
  BY DEF ChunkInv, ChunkTypeOK
<1>2. \A q \in Procs : last'[q] = last[q] \/ last'[q] = NoReport
  BY <1>1
<1> QED  BY <1>2, NoReportFacts DEF ChunkInv, NoSplice

\* Starting an operation other than a save.
LEMMA Beginning ==
    ASSUME ChunkInv, NEW t \in Threads, NEW new \in Progress, OpOK(new),
           Begin(t, new), written' = written
    PROVE  ChunkInv'
<1>1. 0 \in Idx /\ Home[t] \in Procs
  BY ChunkAssumptions DEF Idx, GAP_TOLERANCE
<1>2. op' = [op EXCEPT ![t] = new] /\ lock' = [lock EXCEPT ![Home[t]] = t]
      /\ last' = [last EXCEPT ![Home[t]] = NoReport] /\ store' = store /\ cut' = cut
  BY DEF Begin
<1>3. lock' \in [Procs -> Threads \cup {Free}] /\ last' \in [Procs -> Reports] /\ cut' \in BOOLEAN
  BY <1>1, <1>2, NoReportFacts DEF ChunkInv, ChunkTypeOK
<1>4. NoSplice'
  BY <1>1, <1>2, NoReportFacts, Forgetting DEF ChunkInv, ChunkTypeOK
<1> QED  BY <1>1, <1>2, <1>3, <1>4, OneMove, NoEntryFacts

-----------------------------------------------------------------------------
(* One lemma per action.                                                   *)

LEMMA InitHolds == Init => ChunkInv
<1> SUFFICES ASSUME Init PROVE ChunkInv
  OBVIOUS
<1>1. /\ store \in [Idx -> Chunks \cup {NoEntry}]
      /\ \A i \in Idx : i >= MaxChunks => store[i] = NoEntry
      /\ \A i \in Idx : EntryOK(store[i], i)
  <2>1. CASE store = [i \in Idx |-> NoEntry]
    BY <2>1, NoEntryFacts
  <2>2. ASSUME NEW f \in Upgrades, NEW k \in OldTokens, store = OlderSet(f, k)
        PROVE  /\ store \in [Idx -> Chunks \cup {NoEntry}]
               /\ \A i \in Idx : i >= MaxChunks => store[i] = NoEntry
               /\ \A i \in Idx : EntryOK(store[i], i)
    <3>1. Parts[k] \in 1..MaxChunks /\ MaxChunks \in Nat /\ MaxWrites \in Nat /\ k \in Tokens
      BY ChunkAssumptions
    <3>2. \A i \in Idx : i < Parts[k] => Chunk("data", 0, 0, k, i) \in Chunks /\ EntryOK(Chunk("data", 0, 0, k, i), i)
      BY <3>1 DEF Chunk, Chunks, EntryOK, Idx, GAP_TOLERANCE
    <3>3. Chunk("azapp1", Parts[k], 0, k, 0) \in Chunks /\ EntryOK(Chunk("azapp1", Parts[k], 0, k, 0), 0)
      BY <3>1 DEF Chunk, Chunks, EntryOK
    <3>4. \A i \in Idx : i \in Nat
      BY <3>1 DEF Idx, GAP_TOLERANCE
    <3>5. \A i \in Idx :
                        \/ i >= Parts[k] /\ store[i] = NoEntry
                        \/ i = 0 /\ store[i] = Chunk("azapp1", Parts[k], 0, k, 0)
                        \/ i < Parts[k] /\ store[i] = Chunk("data", 0, 0, k, i)
      <4> TAKE i \in Idx
      <4>1. store[i] = IF i >= Parts[k] THEN NoEntry
                       ELSE IF i = 0 /\ f = "azapp1" THEN Chunk("azapp1", Parts[k], 0, k, 0)
                       ELSE Chunk("data", 0, 0, k, i)
        BY <2>2 DEF OlderSet
      <4>2. CASE i >= Parts[k]
        <5>1. store[i] = NoEntry
          BY <4>1, <4>2
        <5> QED  BY <4>2, <5>1
      <4>3. CASE ~ (i >= Parts[k]) /\ i = 0 /\ f = "azapp1"
        <5>1. store[i] = Chunk("azapp1", Parts[k], 0, k, 0)
          BY <4>1, <4>3
        <5> QED  BY <4>3, <5>1
      <4>4. CASE ~ (i >= Parts[k]) /\ ~ (i = 0 /\ f = "azapp1")
        <5>1. i < Parts[k]
          BY <3>1, <3>4, <4>4
        <5> QED  BY <4>1, <4>4, <5>1
      <4> QED  BY <4>2, <4>3, <4>4
    <3>6. store = [i \in Idx |-> store[i]]
      BY <2>2 DEF OlderSet
    <3>7. \A i \in Idx : store[i] \in Chunks \cup {NoEntry} /\ EntryOK(store[i], i)
      BY <3>2, <3>3, <3>5, NoEntryFacts
    <3>8. \A i \in Idx : i >= MaxChunks => store[i] = NoEntry
      BY <3>1, <3>4, <3>5
    <3> QED  BY <3>6, <3>7, <3>8
  <2> QED  BY <2>1, <2>2 DEF Init
<1>2. NoReport \in Reports
  BY NoReportFacts
<1>3. ChunkTypeOK
  <2>1. cut \in BOOLEAN
    BY Zenon DEF Init
  <2> QED  BY <1>1, <1>2, <2>1, IdleFacts, ChunkAssumptions DEF Init, ChunkTypeOK
<1>4. \A t \in Threads : OpOK(op[t])
  BY IdleFacts DEF Init
<1>5. NoSplice
  BY DEF Init, NoSplice, NoReport, Report
<1> QED  BY <1>1, <1>3, <1>4, <1>5 DEF ChunkInv

\* A save takes a generation of its own: what older ones stand for stays.
LEMMA SaveKeeps ==
    ASSUME ChunkInv, NEW t \in Threads, NEW tok \in Tokens, Save(t, tok)
    PROVE  ChunkInv'
<1> DEFINE g == Len(written) + 1
           new == [do |-> "write", why |-> "save", idx |-> 0, tok |-> tok, gen |-> g,
                   declared |-> -1, mismatch |-> FALSE, got |-> NoSession, missing |-> 0]
<1>1. written \in Seq(Tokens) /\ Len(written) \in Nat /\ g <= MaxWrites /\ MaxWrites \in Nat
  BY ChunkAssumptions DEF ChunkInv, ChunkTypeOK, Save
<1>2. /\ written' \in Seq(Tokens) /\ Len(written') = g /\ written'[g] = tok
      /\ \A n \in 1..Len(written) : written'[n] = written[n]
  BY <1>1 DEF Save
<1>3. /\ op' = [op EXCEPT ![t] = new] /\ lock' = [lock EXCEPT ![Home[t]] = t]
      /\ last' = [last EXCEPT ![Home[t]] = NoReport] /\ store' = store /\ cut' = cut
  BY DEF Save, Begin, Work
<1>4. 0 \in Idx /\ Home[t] \in Procs /\ Parts[tok] \in 1..MaxChunks /\ MaxChunks \in Nat
  BY ChunkAssumptions DEF Idx, GAP_TOLERANCE
<1>5. new \in Progress
  BY <1>1, <1>4, IdleFacts DEF Progress, Doings, Causes, GAP_TOLERANCE
<1>6. ChunkTypeOK'
  <2>1. /\ op' \in [Threads -> Progress] /\ lock' \in [Procs -> Threads \cup {Free}]
        /\ last' \in [Procs -> Reports]
    BY <1>3, <1>4, <1>5, NoReportFacts DEF ChunkInv, ChunkTypeOK
  <2> QED  BY <2>1, <1>1, <1>2, <1>3 DEF ChunkInv, ChunkTypeOK
<1>7. ASSUME NEW i \in Idx PROVE EntryOK(store[i], i)'
  <2>1. EntryOK(store[i], i) /\ (store[i].gen \in Nat)
    BY ChunkAssumptions, NoEntryFacts DEF ChunkInv, ChunkTypeOK, Chunks
  <2> QED  BY <2>1, <1>1, <1>2, <1>3 DEF EntryOK
<1>8. ASSUME NEW u \in Threads PROVE OpOK(op[u])'
  <2>1. CASE u = t
    <3>1. op'[u] = new
      BY <2>1, <1>3 DEF ChunkInv, ChunkTypeOK
    <3> QED  BY <3>1, <1>1, <1>2, <1>4 DEF OpOK
  <2>2. CASE u # t
    <3>1. op'[u] = op[u] /\ OpOK(op[u]) /\ op[u].gen \in Nat
      BY <2>2, <1>3, ChunkAssumptions DEF ChunkInv, ChunkTypeOK, Progress
    <3>2. op[u].gen > 0 /\ op[u].gen <= Len(written) =>
            written'[op[u].gen] = written[op[u].gen] /\ op[u].gen \in 1..Len(written')
      BY <3>1, <1>1, <1>2
    <3>3. op[u].do = "write" => op[u].gen \in 1..Len(written) /\ op[u].tok = written[op[u].gen]
      BY <3>1 DEF OpOK
    <3>4. op[u].do = "load" /\ op[u].gen > 0 => op[u].gen <= Len(written)
      BY <3>1 DEF OpOK
    <3>5. Len(written) <= Len(written')
      BY <1>1, <1>2
    <3>6. op[u].do = "load" /\ op[u].gen > 0 =>
            /\ op[u].declared = Parts[written'[op[u].gen]]
            /\ op[u].mismatch \/ op[u].got = Prefix(written'[op[u].gen], op[u].idx)
      BY <3>1, <3>2, <3>4 DEF OpOK
    <3>7. op[u].do = "write" => op[u].gen \in 1..Len(written') /\ op[u].tok = written'[op[u].gen]
      BY <3>1, <3>2, <3>3
    <3>8. op[u].do = "load" /\ op[u].gen > 0 => op[u].gen <= Len(written')
      BY <3>1, <3>2, <3>4
    <3> QED  BY <3>1, <3>6, <3>7, <3>8 DEF OpOK, Prefix
  <2> QED  BY <2>1, <2>2
<1>9. NoSplice'
  BY <1>3, <1>4, Forgetting
<1> QED  BY <1>3, <1>6, <1>7, <1>8, <1>9 DEF ChunkInv

LEMMA LoadKeeps ==
    ASSUME ChunkInv, NEW t \in Threads, Load(t)
    PROVE  ChunkInv'
<1> DEFINE new == Work("load", "load", NoTok, 0)
<1>1. new \in Progress
  BY IdleFacts DEF Work, Progress, Doings, Causes
<1>2. OpOK(new)
  BY IdleFacts DEF Work, OpOK
<1>3. Begin(t, new) /\ written' = written
  BY DEF Load
<1> QED  BY <1>1, <1>2, <1>3, Beginning

LEMMA DeleteKeeps ==
    ASSUME ChunkInv, NEW t \in Threads, Delete(t)
    PROVE  ChunkInv'
<1> DEFINE new == Work("delete", "delete", NoTok, 0)
<1>1. new \in Progress
  BY IdleFacts DEF Work, Progress, Doings, Causes
<1>2. OpOK(new)
  BY IdleFacts DEF Work, OpOK
<1>3. Begin(t, new) /\ written' = written
  BY DEF Delete
<1> QED  BY <1>1, <1>2, <1>3, Beginning

LEMMA PurgeKeeps ==
    ASSUME ChunkInv, NEW t \in Threads, NEW tok \in Tokens, Purge(t, tok)
    PROVE  ChunkInv'
<1> DEFINE new == Work("load", "purge", tok, 0)
<1>1. new \in Progress
  BY IdleFacts DEF Work, Progress, Doings, Causes
<1>2. OpOK(new)
  BY IdleFacts DEF Work, OpOK
<1>3. Begin(t, new) /\ written' = written
  BY DEF Purge
<1> QED  BY <1>1, <1>2, <1>3, Beginning

LEMMA WriteChunkKeeps ==
    ASSUME ChunkInv, NEW t \in Threads, WriteChunk(t), cut' \in BOOLEAN
    PROVE  ChunkInv'
<1> DEFINE o == op[t]
           total == Parts[o.tok]
           new == [o EXCEPT !.idx = o.idx + 1,
                            !.do = IF o.idx + 1 = total THEN "sweep" ELSE "write"]
           c == encode_chunk(o.idx, total, o.gen, o.tok)
<1>1. o \in Progress /\ OpOK(o) /\ o.do = "write" /\ ChunkTypeOK
  BY DEF ChunkInv, ChunkTypeOK, WriteChunk
<1>2. /\ o.gen \in 1..Len(written) /\ o.tok = written[o.gen] /\ o.idx < total
      /\ o.tok \in Tokens /\ o.missing = 0 /\ o.idx \in Idx
  BY <1>1 DEF OpOK, ChunkTypeOK, Progress
<1>3. total \in 1..MaxChunks /\ MaxChunks \in Nat /\ o.idx \in Nat /\ o.idx + 1 \in Idx
  BY <1>2, ChunkAssumptions DEF Idx, GAP_TOLERANCE
<1>4. c \in Chunks /\ EntryOK(c, o.idx)
  BY <1>1, <1>2, EncodeFacts
<1>5. new \in Progress
  BY <1>1, <1>3 DEF Progress, Doings
<1>6. OpOK(new)
  BY <1>1, <1>2, <1>3 DEF OpOK, Progress
<1>7. store' = [store EXCEPT ![o.idx] = c] /\ Continue(t, new)
  BY DEF WriteChunk
<1>8. o.idx >= MaxChunks => c = NoEntry
  BY <1>2, <1>3
<1> QED  BY <1>2, <1>4, <1>5, <1>6, <1>7, <1>8, Continuing

LEMMA WriteFailsKeeps ==
    ASSUME ChunkInv, NEW t \in Threads, WriteFails(t), cut' \in BOOLEAN
    PROVE  ChunkInv'
<1> DEFINE new == [op[t] EXCEPT !.do = "delete", !.why = "rollback", !.idx = 0]
<1>1. op[t] \in Progress /\ OpOK(op[t]) /\ op[t].do = "write" /\ store' = store
  BY DEF ChunkInv, ChunkTypeOK, WriteFails
<1>2. CASE Return(t, "save", "refused")
  BY <1>1, <1>2, Returning DEF Causes
<1>3. CASE Continue(t, new)
  <2>1. new \in Progress /\ OpOK(new)
    <3>1. 0 \in Idx
      BY <1>1, ChunkAssumptions DEF Progress, OpOK, Idx, GAP_TOLERANCE
    <3>2. new \in Progress
      BY <1>1, <3>1 DEF Progress, Doings, Causes
    <3>3. OpOK(new)
      BY <1>1, ChunkAssumptions DEF Progress, OpOK, Idx, GAP_TOLERANCE
    <3> QED  BY <3>2, <3>3
  <2> QED  BY <1>1, <1>3, <2>1, ContinuingQuietly
<1> QED  BY <1>2, <1>3 DEF WriteFails

LEMMA SweepTailKeeps ==
    ASSUME ChunkInv, NEW t \in Threads, SweepTail(t), cut' \in BOOLEAN
    PROVE  ChunkInv'
<1> DEFINE o == op[t]
           new == [o EXCEPT !.idx = o.idx + 1]
<1>1. o \in Progress /\ OpOK(o) /\ o.do = "sweep" /\ o.idx \in Idx /\ MaxChunks \in Nat
  BY ChunkAssumptions DEF ChunkInv, ChunkTypeOK, SweepTail, Progress
<1>2. CASE Return(t, "save", "ok") /\ UNCHANGED store
  BY <1>2, Returning DEF Causes
<1>3. CASE store[o.idx] # NoEntry /\ store' = [store EXCEPT ![o.idx] = NoEntry] /\ Continue(t, new)
  <2>1. o.idx < MaxChunks
    BY <1>1, <1>3 DEF ChunkInv, ChunkTypeOK, Idx, GAP_TOLERANCE
  <2>2. new \in Progress /\ OpOK(new)
    <3>1. o.idx + 1 \in Idx /\ 0 \in 0..(GAP_TOLERANCE - 1)
      BY <1>1, <2>1 DEF Progress, OpOK, Idx, GAP_TOLERANCE
    <3>2. new \in Progress
      BY <1>1, <3>1 DEF Progress, Doings, Causes
    <3>3. OpOK(new)
      BY <1>1, <2>1 DEF Progress, OpOK, Idx, GAP_TOLERANCE
    <3> QED  BY <3>2, <3>3
  <2> QED  BY <1>1, <1>3, <2>2, NoEntryFacts, Continuing
<1> QED  BY <1>2, <1>3 DEF SweepTail

LEMMA DeleteChunkKeeps ==
    ASSUME ChunkInv, NEW t \in Threads, DeleteChunk(t), cut' \in BOOLEAN
    PROVE  ChunkInv'
<1> DEFINE o == op[t]
<1>1. o \in Progress /\ OpOK(o) /\ o.do = "delete" /\ o.idx \in Idx /\ MaxChunks \in Nat
      /\ o.why \in Causes /\ o.why # "load"
  BY ChunkAssumptions DEF ChunkInv, ChunkTypeOK, DeleteChunk, Progress, OpOK
<1>2. CASE store[o.idx] # NoEntry
  <2> DEFINE new == [o EXCEPT !.idx = o.idx + 1, !.missing = 0]
  <2>1. o.idx < MaxChunks
    BY <1>1, <1>2 DEF ChunkInv, ChunkTypeOK, Idx, GAP_TOLERANCE
  <2>2. new \in Progress /\ OpOK(new)
    <3>1. o.idx + 1 \in Idx /\ 0 \in 0..(GAP_TOLERANCE - 1)
      BY <1>1, <2>1 DEF Progress, OpOK, Idx, GAP_TOLERANCE
    <3>2. new \in Progress
      BY <1>1, <3>1 DEF Progress, Doings, Causes
    <3>3. OpOK(new)
      BY <1>1, <2>1 DEF Progress, OpOK, Idx, GAP_TOLERANCE
    <3> QED  BY <3>2, <3>3
  <2>3. store' = [store EXCEPT ![o.idx] = NoEntry] /\ Continue(t, new)
    BY <1>2 DEF DeleteChunk
  <2> QED  BY <1>1, <2>2, <2>3, NoEntryFacts, Continuing
<1>3. CASE store[o.idx] = NoEntry /\ o.missing + 1 >= GAP_TOLERANCE
  BY <1>1, <1>3, Returning DEF DeleteChunk, DeleteEnds, Causes
<1>4. CASE store[o.idx] = NoEntry /\ ~ (o.missing + 1 >= GAP_TOLERANCE)
  <2> DEFINE new == [o EXCEPT !.idx = o.idx + 1, !.missing = o.missing + 1]
  <2>1. new \in Progress /\ OpOK(new)
    <3>1. o.idx + 1 \in Idx /\ o.missing + 1 \in 0..(GAP_TOLERANCE - 1)
      BY <1>1, <1>4 DEF Progress, OpOK, Idx, GAP_TOLERANCE
    <3>2. new \in Progress
      BY <1>1, <3>1 DEF Progress, Doings, Causes
    <3>3. OpOK(new)
      BY <1>1, <1>4 DEF Progress, OpOK, Idx, GAP_TOLERANCE
    <3> QED  BY <3>2, <3>3
  <2>2. store' = store /\ Continue(t, new)
    BY <1>4 DEF DeleteChunk
  <2> QED  BY <2>1, <2>2, ContinuingQuietly
<1> QED  BY <1>2, <1>3, <1>4

\* The calls that fail and end their operation.
LEMMA FailureKeeps ==
    ASSUME ChunkInv, NEW t \in Threads, cut' \in BOOLEAN,
           SweepFails(t) \/ ReadFails(t) \/ DeleteFails(t)
    PROVE  ChunkInv'
<1>1. op[t].why \in Causes /\ (op[t].do = "delete" => op[t].why # "load")
  BY DEF ChunkInv, ChunkTypeOK, Progress, OpOK
<1>2. CASE SweepFails(t)
  BY <1>2, Returning DEF SweepFails, Causes
<1>3. CASE ReadFails(t)
  BY <1>1, <1>3, Returning DEF ReadFails
<1>4. CASE DeleteFails(t)
  BY <1>1, <1>4, Returning DEF DeleteFails, DeleteEnds, Causes
<1> QED  BY <1>2, <1>3, <1>4

\* A load that ends reports nothing or, under a generation, its whole token.
LEMMA LoadEndsKeeps ==
    ASSUME ChunkInv, NEW t \in Threads, op[t].do = "load", store' = store,
           LoadEnds(t, op[t]), cut' \in BOOLEAN
    PROVE  ChunkInv'
<1> DEFINE o == op[t]
           r == Report("load", "ok", NoTok, LoadResult(o), o.gen)
<1>1. o \in Progress /\ OpOK(o) /\ o.do = "load"
  BY DEF ChunkInv, ChunkTypeOK
<1>2. LoadResult(o) \in Texts
  BY <1>1, IdleFacts DEF LoadResult, Progress
<1>3. o.gen > 0 => LoadResult(o) = NoSession \/ \E tok \in Tokens : LoadResult(o) = Whole(tok)
  <2> SUFFICES ASSUME o.gen > 0, LoadResult(o) # NoSession
               PROVE  \E tok \in Tokens : LoadResult(o) = Whole(tok)
    OBVIOUS
  <2>1. o.gen \in Nat /\ o.gen <= Len(written) /\ written \in Seq(Tokens)
    BY <1>1 DEF OpOK, ChunkInv, ChunkTypeOK, Progress
  <2>2. written[o.gen] \in Tokens
    BY <2>1
  <2>3. Parts[written[o.gen]] \in Nat
    BY <2>2, ChunkAssumptions
  <2>4. ~ o.mismatch /\ o.declared = o.idx /\ LoadResult(o) = o.got
    BY <1>1, <2>3 DEF LoadResult, OpOK
  <2>5. o.got = Prefix(written[o.gen], Parts[written[o.gen]])
    BY <1>1, <2>4 DEF OpOK
  <2> QED  BY <2>2, <2>4, <2>5, PrefixFacts DEF Prefix, Whole
<1>4. CASE o.why = "load"
  <2>1. /\ op' = [op EXCEPT ![t] = Idle] /\ lock' = [lock EXCEPT ![Home[t]] = Free]
        /\ last' = [last EXCEPT ![Home[t]] = r] /\ written' = written
    BY <1>4 DEF LoadEnds
  <2>2. Home[t] \in Procs /\ 0 \in Idx
    BY ChunkAssumptions, IdleFacts
  <2>3. r \in Reports
    BY <1>1, <1>2 DEF Reports, Report, Progress, Causes
  <2>4. lock' \in [Procs -> Threads \cup {Free}] /\ last' \in [Procs -> Reports]
    BY <2>1, <2>2, <2>3 DEF ChunkInv, ChunkTypeOK
  <2>5. \A p \in Procs : last'[p] = last[p] \/ last'[p] = r
    BY <2>1 DEF ChunkInv, ChunkTypeOK
  <2>6. r.gen = o.gen /\ r.got = LoadResult(o)
    BY DEF Report
  <2>7. NoSplice'
    <3> HIDE DEF r
    <3> QED  BY <1>3, <2>5, <2>6 DEF ChunkInv, NoSplice
  <2> QED  BY <2>1, <2>2, <2>4, <2>7, OneMove, NoEntryFacts, IdleFacts
<1>5. CASE o.why # "load" /\ Return(t, "purge", "superseded")
  BY <1>5, Returning DEF Causes
<1>6. CASE o.why # "load" /\ Continue(t, [o EXCEPT !.do = "delete", !.idx = 0])
  <2> DEFINE new == [o EXCEPT !.do = "delete", !.idx = 0]
  <2>1. new \in Progress
    BY <1>1, IdleFacts DEF Progress, Doings
  <2>2. OpOK(new)
    BY <1>1, <1>6, IdleFacts DEF OpOK, Progress
  <2> QED  BY <1>6, <2>1, <2>2, ContinuingQuietly
<1> QED  BY <1>4, <1>5, <1>6 DEF LoadEnds

\* A chunk that is read extends the token, or shows that the set is mixed.
LEMMA ReadChunkKeeps ==
    ASSUME ChunkInv, NEW t \in Threads, ReadChunk(t), cut' \in BOOLEAN
    PROVE  ChunkInv'
<1> DEFINE o == op[t]
           c == store[o.idx]
           next == [o EXCEPT !.idx = o.idx + 1]
<1>1. o \in Progress /\ OpOK(o) /\ o.do = "load" /\ store' = store /\ o.idx \in Idx
  BY DEF ChunkInv, ChunkTypeOK, ReadChunk, LoadTurn, Progress
<1>2. CASE LoadEnds(t, o)
  BY <1>1, <1>2, LoadEndsKeeps
<1>3. ASSUME c # NoEntry, ~ (o.gen > 0 /\ o.declared = o.idx)
      PROVE  ChunkInv'
  <2>1. c \in Chunks /\ EntryOK(c, o.idx) /\ o.idx < MaxChunks /\ o.idx \in Nat /\ MaxChunks \in Nat
    BY <1>1, <1>3, ChunkAssumptions DEF ChunkInv, ChunkTypeOK, Idx, GAP_TOLERANCE
  <2>2. o.idx + 1 \in Idx /\ o.idx + 1 <= MaxChunks
    BY <2>1 DEF Idx, GAP_TOLERANCE
  <2>3. Payload(c) \in [gen : 0..MaxWrites, tok : Tokens, part : 0..MaxChunks]
        /\ Raw(c) \in [gen : 0..MaxWrites, tok : Tokens, part : 0..MaxChunks]
    BY <2>1, ChunkAssumptions DEF Payload, Raw, Chunks
  <2>4. next \in Progress
    BY <1>1, <2>2 DEF Progress
  <2>5. CASE o.idx = 0
    <3> DEFINE d == IF c.marker = "data" THEN -1 ELSE c.total
               g == IF c.marker = "azapp2" THEN c.gen ELSE 0
               new == [next EXCEPT !.got = <<Payload(c)>>, !.declared = d, !.gen = g]
    <3>1. Continue(t, new)
      BY <1>1, <1>3, <2>5 DEF ReadChunk, LoadTurn
    <3>2. <<Payload(c)>> \in Texts
      BY <2>3 DEF Texts
    <3>3. d \in -1..MaxChunks /\ g \in 0..MaxWrites
      BY <2>1, ChunkAssumptions DEF Chunks
    <3>4. new \in Progress
      <4> HIDE DEF d, g, next
      <4> QED  BY <2>4, <3>2, <3>3 DEF Progress
    <3>5. new.idx = 1 /\ new.do = "load" /\ new.missing = 0 /\ new.gen = g
          /\ new.declared = d /\ new.got = <<Payload(c)>>
      <4>1. next.idx = 1 /\ next.do = "load" /\ next.missing = 0
        BY <1>1, <2>5 DEF Progress, OpOK
      <4> HIDE DEF d, g, next
      <4> QED  BY <2>4, <4>1 DEF Progress
    <3>6. g > 0 => g <= Len(written) /\ d = Parts[written[g]] /\ <<Payload(c)>> = Prefix(written[g], 1)
      <4> SUFFICES ASSUME g > 0 PROVE g <= Len(written) /\ d = Parts[written[g]] /\ <<Payload(c)>> = Prefix(written[g], 1)
        OBVIOUS
      <4>1. c.marker = "azapp2" /\ g = c.gen /\ d = c.total
        BY <2>1
      <4>2. c.gen <= Len(written) /\ c.tok = written[c.gen] /\ c.part = 0 /\ c.total = Parts[c.tok] /\ c.tok \in Tokens
        BY <2>1, <2>5, <4>1 DEF EntryOK, Chunks
      <4>3. <<Payload(c)>> = Prefix(c.tok, 1)
        BY <4>2, PrefixFacts DEF Payload
      <4> QED  BY <4>1, <4>2, <4>3
    <3>7. OpOK(new)
      <4> HIDE DEF new, d, g
      <4> QED  BY <2>2, <2>5, <3>5, <3>6 DEF OpOK
    <3> QED  BY <1>1, <3>1, <3>4, <3>7, ContinuingQuietly
  <2>6. CASE o.idx # 0 /\ o.gen = 0
    <3> DEFINE new == [next EXCEPT !.got = Append(o.got, Raw(c))]
    <3>1. Continue(t, new)
      BY <1>1, <1>3, <2>6 DEF ReadChunk, LoadTurn
    <3>2. Append(o.got, Raw(c)) \in Texts
      BY <1>1, <2>3 DEF Progress, Texts
    <3>3. new \in Progress
      BY <2>4, <3>2 DEF Progress
    <3>4. OpOK(new)
      BY <1>1, <2>1, <2>2, <2>6 DEF OpOK, Progress
    <3> QED  BY <1>1, <3>1, <3>3, <3>4, ContinuingQuietly
  <2>7. CASE o.idx # 0 /\ o.gen # 0 /\ c.gen = o.gen
    <3> DEFINE new == [next EXCEPT !.got = Append(o.got, Payload(c))]
    <3>1. Continue(t, new)
      BY <1>1, <1>3, <2>7 DEF ReadChunk, LoadTurn
    <3>2. Append(o.got, Payload(c)) \in Texts
      BY <1>1, <2>3 DEF Progress, Texts
    <3>3. new \in Progress
      BY <2>4, <3>2 DEF Progress
    <3>4. new.idx = o.idx + 1 /\ new.do = "load" /\ new.missing = 0 /\ new.gen = o.gen
          /\ new.declared = o.declared /\ (new.mismatch <=> o.mismatch) /\ new.got = Append(o.got, Payload(c))
      BY <1>1 DEF Progress, OpOK
    <3>5. o.gen > 0 /\ o.gen <= Len(written) /\ o.declared = Parts[written[o.gen]]
          /\ (o.mismatch \/ o.got = Prefix(written[o.gen], o.idx))
      BY <1>1, <2>7 DEF OpOK, Progress
    <3>6. c.tok = written[o.gen] /\ c.part = o.idx /\ c.tok \in Tokens
      BY <2>1, <2>7, <3>5 DEF EntryOK, Chunks
    <3>7. o.got = Prefix(c.tok, o.idx) => Append(o.got, Payload(c)) = Prefix(c.tok, o.idx + 1)
      BY <2>1, <3>6, PrefixFacts DEF Payload
    <3>8. OpOK(new)
      <4> HIDE DEF new
      <4> QED  BY <2>1, <2>2, <3>4, <3>5, <3>6, <3>7 DEF OpOK
    <3> QED  BY <1>1, <3>1, <3>3, <3>8, ContinuingQuietly
  <2>8. CASE o.idx # 0 /\ o.gen # 0 /\ c.gen # o.gen
    <3> DEFINE new == [next EXCEPT !.mismatch = TRUE]
    <3>1. Continue(t, new)
      BY <1>1, <1>3, <2>8 DEF ReadChunk, LoadTurn
    <3>2. new \in Progress
      BY <2>4 DEF Progress
    <3>3. OpOK(new)
      BY <1>1, <2>1, <2>2, <2>8 DEF OpOK, Progress
    <3> QED  BY <1>1, <3>1, <3>2, <3>3, ContinuingQuietly
  <2> QED  BY <2>5, <2>6, <2>7, <2>8
<1> QED  BY <1>2, <1>3 DEF ReadChunk, LoadTurn

\* A process that dies leaves the store as it is.
LEMMA CrashKeeps ==
    ASSUME ChunkInv, NEW p \in Procs, Crash(p)
    PROVE  ChunkInv'
<1> DEFINE h == lock[p]
           r == Report("crash", op[h].why, op[h].tok, NoSession, 0)
<1>1. h \in Threads /\ op[h] \in Progress /\ last \in [Procs -> Reports]
  BY DEF Crash, ChunkInv, ChunkTypeOK
<1>2. r \in Reports
  BY <1>1, IdleFacts DEF Reports, Report, Progress
<1>3. /\ op' = [t \in Threads |-> IF Home[t] = p THEN Idle ELSE op[t]]
      /\ last' = [last EXCEPT ![p] = r] /\ lock' = [lock EXCEPT ![p] = Free]
      /\ store' = store /\ written' = written
  BY DEF Crash
<1>4. \A t \in Threads : op'[t] \in Progress /\ OpOK(op'[t])
  BY <1>3, IdleFacts DEF ChunkInv, ChunkTypeOK
<1>5. ChunkTypeOK'
  <2>1. op' \in [Threads -> Progress]
    BY <1>3, <1>4
  <2>2. last' \in [Procs -> Reports] /\ lock' \in [Procs -> Threads \cup {Free}]
    BY <1>1, <1>2, <1>3 DEF ChunkInv, ChunkTypeOK
  <2>3. cut' \in BOOLEAN
    BY Zenon DEF Crash
  <2> QED  BY <2>1, <2>2, <2>3, <1>3 DEF ChunkInv, ChunkTypeOK
<1>6. (\A i \in Idx : EntryOK(store[i], i))'
  BY <1>3 DEF ChunkInv, EntryOK
<1>7. (\A t \in Threads : OpOK(op[t]))'
  BY <1>3, <1>4 DEF OpOK, Prefix
<1>8. \A q \in Procs : last'[q] = last[q] \/ last'[q] = r
  BY <1>1, <1>3
<1>9. r.of = "crash"
  BY DEF Report
<1>10. NoSplice'
  <2> HIDE DEF r
  <2> QED  BY <1>8, <1>9 DEF ChunkInv, NoSplice
<1> QED  BY <1>5, <1>6, <1>7, <1>10 DEF ChunkInv

LEMMA NextKeeps == ChunkInv /\ [Next]_vars => ChunkInv'
<1> SUFFICES ASSUME ChunkInv, [Next]_vars PROVE ChunkInv'
  OBVIOUS
<1>1. CASE UNCHANGED vars
  BY <1>1 DEF vars, ChunkInv, ChunkTypeOK, EntryOK, OpOK, NoSplice, Prefix
<1>2. ASSUME NEW t \in Threads, Load(t) \/ Delete(t) PROVE ChunkInv'
  BY <1>2, LoadKeeps, DeleteKeeps
<1>5. ASSUME NEW t \in Threads, Step(t) \/ Fault(t) PROVE ChunkInv'
  <2>1. cut \in BOOLEAN
    BY DEF ChunkInv, ChunkTypeOK
  <2>2. cut' = cut \/ cut' = TRUE
    BY <1>5 DEF Step, Fault
  <2>3. cut' \in BOOLEAN
    BY <2>1, <2>2, Zenon
  <2> QED  BY <1>5, <2>3, WriteChunkKeeps, SweepTailKeeps, ReadChunkKeeps, DeleteChunkKeeps,
              WriteFailsKeeps, FailureKeeps DEF Step, Fault
<1>3. ASSUME NEW t \in Threads, NEW tok \in Tokens, Save(t, tok) \/ Purge(t, tok) PROVE ChunkInv'
  BY <1>3, SaveKeeps, PurgeKeeps
<1>4. ASSUME NEW p \in Procs, Crash(p) PROVE ChunkInv'
  BY <1>4, CrashKeeps
<1> QED  BY <1>1, <1>2, <1>3, <1>4, <1>5 DEF Next

\* The invariant holds in every reachable state of the store.
THEOREM ChunkInvariance == Spec => []ChunkInv
BY InitHolds, NextKeeps, PTL DEF Spec

\* Types, and the bounds of the loops over entries, for every set of tokens.
THEOREM ChunkTypes == Spec => []ChunkTypeOK
<1>1. ChunkInv => ChunkTypeOK
  BY DEF ChunkInv
<1> QED  BY <1>1, ChunkInvariance, PTL

\* However many instances write, fail or die in between, a load that read a
\* current chunk 0 returns no session or one whole token (load_chunks).
THEOREM LoadsAreNeverSpliced == Spec => []NoSplice
<1>1. ChunkInv => NoSplice
  BY DEF ChunkInv
<1> QED  BY <1>1, ChunkInvariance, PTL

-----------------------------------------------------------------------------
(* What a deletion leaves, in one instance and for tokens of any length.   *)

Alone == \A p, q \in Procs : p = q

\* From n on the entries have no gap; all before n are there; those between are not.
Gapless(s, n) == \A i, j \in Idx : n <= i /\ i <= j /\ s[j] # NoEntry => s[i] # NoEntry
Filled(s, n) == \A j \in Idx : j < n => s[j] # NoEntry
Emptied(s, m, n) == \A j \in Idx : m <= j /\ j < n => s[j] = NoEntry

\* How an operation finds and leaves the entries as long as no deletion and no
\* sweep was cut short: a write fills them from the front, a sweep empties what
\* follows a token, a deletion empties what it has passed.
Orderly(s, o) ==
    /\ o.do = "load" => Gapless(s, 0)
    /\ o.do = "write" => Gapless(s, 0) /\ Filled(s, o.idx)
    /\ o.do = "sweep" => /\ o.tok \in Tokens /\ o.idx >= Parts[o.tok]
                         /\ Filled(s, Parts[o.tok]) /\ Emptied(s, Parts[o.tok], o.idx)
                         /\ Gapless(s, o.idx)
    /\ o.do = "delete" => Gapless(s, o.idx)

\* Whoever works holds the lock, a deletion has cleared all it has passed, the
\* entries are in order unless a deletion or a sweep was cut short, and what a
\* deletion reported still holds.
ClearInv ==
    /\ \A t \in Threads : op[t].do # "idle" => lock[Home[t]] = t
    /\ \A t \in Threads : op[t].do = "delete" => Emptied(store, 0, op[t].idx)
    /\ ~ cut => \A t \in Threads : op[t].do # "idle" => Orderly(store, op[t])
    /\ ~ cut /\ (\A t \in Threads : op[t].do = "idle") => Gapless(store, 0)
    /\ DeletedIsGone

\* In one instance the thread that works is the only one.
LEMMA OnlyWorker ==
    ASSUME Alone, ClearInv, NEW t \in Threads, op[t].do # "idle"
    PROVE  \A u \in Threads : u # t => op[u].do = "idle"
BY ChunkAssumptions DEF Alone, ClearInv

LEMMA IdxNat == 0 \in Idx /\ \A j \in Idx : j \in Nat
BY ChunkAssumptions DEF Idx, GAP_TOLERANCE

\* While a thread works nothing is reported.
LEMMA NothingReported ==
    ASSUME \A p \in Procs : lock'[p] # Free
    PROVE  DeletedIsGone'
BY DEF DeletedIsGone, Deleted

LEMMA BeginClears ==
    ASSUME Alone, ChunkInv, ClearInv, NEW t \in Threads, NEW new,
           new.idx = 0, new.do \in {"load", "write", "delete"}, Begin(t, new)
    PROVE  ClearInv'
<1>1. /\ op' = [op EXCEPT ![t] = new] /\ lock' = [lock EXCEPT ![Home[t]] = t]
      /\ store' = store /\ lock[Home[t]] = Free
  BY DEF Begin
<1>2. op \in [Threads -> Progress] /\ lock \in [Procs -> Threads \cup {Free}] /\ Home[t] \in Procs
  BY ChunkAssumptions DEF ChunkInv, ChunkTypeOK
<1>3. \A p \in Procs : p = Home[t] /\ lock'[p] = t /\ lock'[p] # Free
  BY <1>1, <1>2, ChunkAssumptions DEF Alone
<1>4. \A u \in Threads : op[u].do = "idle"
  BY <1>1, <1>2, ChunkAssumptions DEF Alone, ClearInv
<1>5. op'[t] = new /\ \A u \in Threads : u # t => op'[u] = op[u]
  BY <1>1, <1>2
<1>6. \A u \in Threads : op'[u].do # "idle" => lock'[Home[u]] = u
  BY <1>3, <1>4, <1>5, ChunkAssumptions
<1>7. Emptied(store', 0, new.idx) /\ Filled(store', new.idx)
  BY IdxNat DEF Emptied, Filled
<1>8. ~ cut => Gapless(store', 0)
  BY <1>1, <1>4 DEF ClearInv
<1>9. ~ cut => Orderly(store', new)
  BY <1>7, <1>8 DEF Orderly
<1>10. ~ cut' => ~ cut
  BY DEF Begin
<1>11. (\A u \in Threads : op[u].do = "delete" => Emptied(store, 0, op[u].idx))'
  BY <1>4, <1>5, <1>7
<1>12. (~ cut => \A u \in Threads : op[u].do # "idle" => Orderly(store, op[u]))'
  BY <1>4, <1>5, <1>9, <1>10
<1>13. op'[t].do # "idle"
  BY <1>5
<1>14. DeletedIsGone'
  BY <1>3, NothingReported
<1> QED  BY <1>6, <1>11, <1>12, <1>13, <1>14 DEF ClearInv

LEMMA ContinueClears ==
    ASSUME Alone, ChunkInv, ClearInv, NEW t \in Threads, NEW new,
           op[t].do # "idle", new.do # "idle", Continue(t, new),
           new.do = "delete" => Emptied(store', 0, new.idx),
           ~ cut' => Orderly(store', new)
    PROVE  ClearInv'
<1>1. op' = [op EXCEPT ![t] = new] /\ lock' = lock
  BY DEF Continue
<1>2. op \in [Threads -> Progress] /\ Home[t] \in Procs /\ lock[Home[t]] = t
  BY ChunkAssumptions DEF ChunkInv, ChunkTypeOK, ClearInv
<1>3. \A p \in Procs : lock'[p] = t /\ lock'[p] # Free
  BY <1>1, <1>2, ChunkAssumptions DEF Alone
<1>4. \A u \in Threads : u # t => op'[u] = op[u] /\ op[u].do = "idle"
  BY <1>1, <1>2, OnlyWorker
<1>5. op'[t] = new
  BY <1>1, <1>2
<1>6. \A u \in Threads : op'[u].do # "idle" => lock'[Home[u]] = u
  BY <1>3, <1>4, ChunkAssumptions
<1>7. (\A u \in Threads : op[u].do = "delete" => Emptied(store, 0, op[u].idx))'
  BY <1>4, <1>5
<1>8. (~ cut => \A u \in Threads : op[u].do # "idle" => Orderly(store, op[u]))'
  BY <1>4, <1>5
<1>9. DeletedIsGone'
  BY <1>3, NothingReported
<1> QED  BY <1>5, <1>6, <1>7, <1>8, <1>9 DEF ClearInv

\* An operation that ends leaves the entries in order, and one that reports a
\* deletion has deleted.
LEMMA EndClears ==
    ASSUME Alone, ChunkInv, ClearInv, NEW t \in Threads, NEW r,
           op[t].do # "idle", store' = store,
           op' = [op EXCEPT ![t] = Idle], last' = [last EXCEPT ![Home[t]] = r],
           ~ cut' => Gapless(store, 0),
           r.of \in {"delete", "purge"} /\ r.res = "ok" =>
              \A i \in Idx : store[i] # NoEntry => cut' /\ i >= GAP_TOLERANCE
    PROVE  ClearInv'
<1>1. op \in [Threads -> Progress] /\ Home[t] \in Procs /\ last \in [Procs -> Reports]
  BY ChunkAssumptions DEF ChunkInv, ChunkTypeOK
<1>2. Idle.do = "idle"
  BY DEF Idle, Work
<1>3. \A u \in Threads : op'[u].do = "idle"
  BY <1>1, <1>2, OnlyWorker
<1>4. \A p \in Procs : last'[p] = r
  BY <1>1 DEF Alone
<1>5. DeletedIsGone'
  BY <1>4 DEF DeletedIsGone, Deleted
<1>6. (~ cut => Gapless(store, 0))'
  OBVIOUS
<1> QED  BY <1>3, <1>5, <1>6 DEF ClearInv

LEMMA ReturnClears ==
    ASSUME Alone, ChunkInv, ClearInv, NEW t \in Threads, NEW what, NEW res,
           op[t].do # "idle", Return(t, what, res), store' = store,
           ~ cut' => Gapless(store, 0),
           what \in {"delete", "purge"} /\ res = "ok" =>
              \A i \in Idx : store[i] # NoEntry => cut' /\ i >= GAP_TOLERANCE
    PROVE  ClearInv'
<1> DEFINE r == Report(what, res, IF what = "save" THEN op[t].tok ELSE NoTok, NoSession, 0)
<1>1. op' = [op EXCEPT ![t] = Idle] /\ last' = [last EXCEPT ![Home[t]] = r]
  BY DEF Return
<1>2. r.of = what /\ r.res = res
  BY DEF Report
<1> HIDE DEF r
<1> QED  BY <1>1, <1>2, EndClears

\* What a deletion has passed is gone; where it stops after GAP_TOLERANCE misses
\* nothing is left before them, and nothing at all if there was no gap.
LEMMA DeleteChunkClears ==
    ASSUME Alone, ChunkInv, ClearInv, NEW t \in Threads, DeleteChunk(t), cut' = cut
    PROVE  ClearInv'
<1> DEFINE o == op[t]
<1>1. /\ o.do = "delete" /\ o.do # "idle" /\ o.idx \in Idx /\ o.missing \in Nat /\ o.missing <= o.idx
      /\ o \in Progress /\ store \in [Idx -> Chunks \cup {NoEntry}] /\ o.idx \in Nat
  BY IdxNat DEF DeleteChunk, ChunkInv, ChunkTypeOK, OpOK, Progress, GAP_TOLERANCE
<1>2. Emptied(store, 0, o.idx) /\ (~ cut => Gapless(store, o.idx))
  BY <1>1 DEF ClearInv, Orderly
<1>3. ~ cut' => ~ cut
  OBVIOUS
<1>4. ASSUME NEW new, Continue(t, new), new.do = "delete", new.idx = o.idx + 1,
             store' = store \/ store' = [store EXCEPT ![o.idx] = NoEntry],
             store'[o.idx] = NoEntry
      PROVE  ClearInv'
  <2>1. \A j \in Idx : j # o.idx => store'[j] = store[j]
    BY <1>1, <1>4
  <2>2. Emptied(store', 0, o.idx + 1)
    BY <1>1, <1>2, <1>4, <2>1, IdxNat DEF Emptied
  <2>3. Gapless(store, o.idx) => Gapless(store', o.idx + 1)
    BY <1>1, <2>1, IdxNat DEF Gapless
  <2>4. ~ cut' => Orderly(store', new)
    BY <1>2, <1>3, <1>4, <2>3 DEF Orderly
  <2> QED  BY <1>1, <1>4, <2>2, <2>4, ContinueClears
<1>5. CASE store[o.idx] # NoEntry
  <2> DEFINE new == [o EXCEPT !.idx = o.idx + 1, !.missing = 0]
  <2>1. Continue(t, new) /\ store' = [store EXCEPT ![o.idx] = NoEntry]
    BY <1>5 DEF DeleteChunk
  <2>2. new.idx = o.idx + 1 /\ new.do = "delete"
    BY <1>1 DEF Progress
  <2>3. store'[o.idx] = NoEntry
    BY <1>1, <2>1
  <2> HIDE DEF new
  <2> QED  BY <1>4, <2>1, <2>2, <2>3
<1>6. CASE store[o.idx] = NoEntry /\ o.missing + 1 >= GAP_TOLERANCE
  <2>1. \A i \in Idx : store[i] # NoEntry => i >= GAP_TOLERANCE
    BY <1>1, <1>2, <1>6, IdxNat DEF Emptied, GAP_TOLERANCE
  <2>2. Gapless(store, o.idx) => \A i \in Idx : store[i] = NoEntry
    BY <1>1, <1>2, <1>6, IdxNat DEF Emptied, Gapless
  <2>3. ~ cut' => Gapless(store, 0)
    <3>1. (\A i \in Idx : store[i] = NoEntry) => Gapless(store, 0)
      BY DEF Gapless
    <3> QED  BY <1>2, <1>3, <2>2, <3>1
  <2>4. \A i \in Idx : store[i] # NoEntry => cut' /\ i >= GAP_TOLERANCE
    BY <1>2, <1>3, <2>1, <2>2
  <2>5. store' = store /\ DeleteEnds(t, "ok")
    BY <1>6 DEF DeleteChunk
  <2>6. CASE Return(t, "save", "torn")
    BY <1>1, <2>3, <2>5, <2>6, ReturnClears
  <2>7. CASE Return(t, o.why, "ok")
    BY <1>1, <2>3, <2>4, <2>5, <2>7, ReturnClears
  <2> QED  BY <2>5, <2>6, <2>7 DEF DeleteEnds
<1>7. CASE store[o.idx] = NoEntry /\ ~ (o.missing + 1 >= GAP_TOLERANCE)
  <2> DEFINE new == [o EXCEPT !.idx = o.idx + 1, !.missing = o.missing + 1]
  <2>1. Continue(t, new) /\ store' = store
    BY <1>7 DEF DeleteChunk
  <2>2. new.idx = o.idx + 1 /\ new.do = "delete"
    BY <1>1 DEF Progress
  <2> HIDE DEF new
  <2> QED  BY <1>4, <1>7, <2>1, <2>2
<1> QED  BY <1>5, <1>6, <1>7

\* A read goes on reading, reports a load, or turns into a purge's deletion.
LEMMA ReadChunkClears ==
    ASSUME Alone, ChunkInv, ClearInv, NEW t \in Threads, ReadChunk(t), cut' = cut
    PROVE  ClearInv'
<1> DEFINE o == op[t]
           next == [o EXCEPT !.idx = o.idx + 1]
<1>1. o.do = "load" /\ o.do # "idle" /\ store' = store /\ o \in Progress
  BY DEF ReadChunk, LoadTurn, ChunkInv, ChunkTypeOK
<1>2. ~ cut' => Gapless(store, 0)
  BY <1>1 DEF ClearInv, Orderly
<1>3. CASE LoadEnds(t, o)
  <2>1. CASE o.why = "load"
    <3> DEFINE r == Report("load", "ok", NoTok, LoadResult(o), o.gen)
    <3>1. op' = [op EXCEPT ![t] = Idle] /\ last' = [last EXCEPT ![Home[t]] = r]
      BY <1>3, <2>1 DEF LoadEnds
    <3>2. r.of = "load"
      BY DEF Report
    <3> HIDE DEF r
    <3> QED  BY <1>1, <1>2, <3>1, <3>2, EndClears
  <2>2. CASE Return(t, "purge", "superseded")
    BY <1>1, <1>2, <2>2, ReturnClears
  <2>3. CASE Continue(t, [o EXCEPT !.do = "delete", !.idx = 0])
    <3> DEFINE new == [o EXCEPT !.do = "delete", !.idx = 0]
    <3>1. new.do = "delete" /\ new.idx = 0 /\ Continue(t, new)
      BY <1>1, <2>3 DEF Progress
    <3> HIDE DEF new
    <3>2. Emptied(store', 0, new.idx)
      BY <3>1, IdxNat DEF Emptied
    <3>3. ~ cut' => Orderly(store', new)
      BY <1>1, <1>2, <3>1 DEF Orderly
    <3> QED  BY <1>1, <3>1, <3>2, <3>3, ContinueClears
  <2> QED  BY <1>3, <2>1, <2>2, <2>3 DEF LoadEnds
<1>4. ASSUME NEW new, new.do = "load", Continue(t, new) PROVE ClearInv'
  <2>1. ~ cut' => Orderly(store', new)
    BY <1>1, <1>2, <1>4 DEF Orderly
  <2> QED  BY <1>1, <1>4, <2>1, ContinueClears
<1>5. next.do = "load" /\ next \in [DOMAIN o -> UNION {{next[x]} : x \in DOMAIN o}] /\ DOMAIN next = DOMAIN o
      /\ DOMAIN o = {"do", "why", "idx", "tok", "gen", "declared", "mismatch", "got", "missing"}
  BY <1>1 DEF Progress
<1>6. CASE ~ LoadEnds(t, o)
  <2>1. \A x : [next EXCEPT !.got = x].do = "load"
    BY <1>5
  <2>2. \A x : [next EXCEPT !.mismatch = x].do = "load"
    BY <1>5
  <2>3. \A x, y, z : [next EXCEPT !.got = x, !.declared = y, !.gen = z].do = "load"
    BY <1>5
  <2> DEFINE c == store[o.idx]
             first == [next EXCEPT !.got = <<Payload(c)>>,
                                   !.declared = IF c.marker = "data" THEN -1 ELSE c.total,
                                   !.gen = IF c.marker = "azapp2" THEN c.gen ELSE 0]
             raw == [next EXCEPT !.got = Append(o.got, Raw(c))]
             more == [next EXCEPT !.got = Append(o.got, Payload(c))]
             mixed == [next EXCEPT !.mismatch = TRUE]
  <2>4. Continue(t, first) \/ Continue(t, raw) \/ Continue(t, more) \/ Continue(t, mixed)
    BY <1>6 DEF ReadChunk, LoadTurn
  <2>5. first.do = "load" /\ raw.do = "load" /\ more.do = "load" /\ mixed.do = "load"
    <3> HIDE DEF next, c
    <3> QED  BY <2>1, <2>2, <2>3
  <2> HIDE DEF first, raw, more, mixed
  <2> QED  BY <1>4, <2>4, <2>5
<1> QED  BY <1>3, <1>6

\* A write fills the entries from the front.
LEMMA WriteChunkClears ==
    ASSUME Alone, ChunkInv, ClearInv, NEW t \in Threads, WriteChunk(t), cut' = cut
    PROVE  ClearInv'
<1> DEFINE o == op[t]
           total == Parts[o.tok]
           c == encode_chunk(o.idx, total, o.gen, o.tok)
           new == [o EXCEPT !.idx = o.idx + 1,
                            !.do = IF o.idx + 1 = total THEN "sweep" ELSE "write"]
<1>1. /\ o.do = "write" /\ o.do # "idle" /\ o \in Progress /\ OpOK(o) /\ o.idx \in Idx
      /\ store \in [Idx -> Chunks \cup {NoEntry}] /\ o.idx \in Nat
      /\ Continue(t, new) /\ store' = [store EXCEPT ![o.idx] = c]
  BY IdxNat DEF WriteChunk, ChunkInv, ChunkTypeOK, Progress
<1>2. o.gen \in 1..Len(written) /\ o.tok = written[o.gen] /\ o.idx < total /\ o.tok \in Tokens
  BY <1>1 DEF OpOK, ChunkInv, ChunkTypeOK
<1>3. c \in Chunks
  BY <1>1, <1>2, EncodeFacts DEF ChunkInv
<1>4. c # NoEntry
  BY <1>3, NoEntryFacts
<1>5. store'[o.idx] # NoEntry /\ \A j \in Idx : j # o.idx => store'[j] = store[j]
  BY <1>1, <1>4
<1>6. new.idx = o.idx + 1 /\ new.tok = o.tok /\ new.do = (IF o.idx + 1 = total THEN "sweep" ELSE "write")
  BY <1>1 DEF Progress
<1>7. total \in Nat
  BY <1>2, ChunkAssumptions
<1> HIDE DEF new, c, total
<1>8. ~ cut' => Gapless(store, 0) /\ Filled(store, o.idx)
  BY <1>1 DEF ClearInv, Orderly
<1>9. Filled(store, o.idx) => Filled(store', o.idx + 1)
  BY <1>1, <1>5, IdxNat DEF Filled
<1>10. Gapless(store, 0) /\ Filled(store, o.idx) => Gapless(store', 0) /\ Gapless(store', o.idx + 1)
  BY <1>1, <1>5, IdxNat DEF Filled, Gapless
<1>11. Emptied(store', o.idx + 1, o.idx + 1)
  BY <1>1, IdxNat DEF Emptied
<1>12. ~ cut' => Orderly(store', new)
  <2>1. CASE o.idx + 1 = total
    BY <1>1, <1>2, <1>6, <1>7, <1>8, <1>9, <1>10, <1>11, <2>1 DEF Orderly, total
  <2>2. CASE o.idx + 1 # total
    BY <1>6, <1>8, <1>9, <1>10, <2>2 DEF Orderly
  <2> QED  BY <2>1, <2>2
<1>13. new.do # "idle" /\ new.do # "delete"
  BY <1>6
<1> QED  BY <1>1, <1>12, <1>13, ContinueClears

\* A sweep empties the entries past the token it follows.
LEMMA SweepTailClears ==
    ASSUME Alone, ChunkInv, ClearInv, NEW t \in Threads, SweepTail(t), cut' = cut
    PROVE  ClearInv'
<1> DEFINE o == op[t]
           n == Parts[o.tok]
           new == [o EXCEPT !.idx = o.idx + 1]
<1>1. /\ o.do = "sweep" /\ o.do # "idle" /\ o \in Progress /\ o.idx \in Idx
      /\ store \in [Idx -> Chunks \cup {NoEntry}] /\ o.idx \in Nat
  BY IdxNat DEF SweepTail, ChunkInv, ChunkTypeOK, Progress
<1>2. ~ cut' => /\ o.tok \in Tokens /\ o.idx >= n /\ Filled(store, n) /\ Emptied(store, n, o.idx)
                /\ Gapless(store, o.idx)
  BY <1>1 DEF ClearInv, Orderly
<1>3. o.tok \in Tokens => n \in Nat
  BY ChunkAssumptions
<1> HIDE DEF n
<1>4. CASE Return(t, "save", "ok") /\ store' = store /\ store[o.idx] = NoEntry
  <2>1. ASSUME ~ cut' PROVE Gapless(store, 0)
    <3>1. \A j \in Idx : store[j] # NoEntry => j < n
      BY <1>1, <1>2, <1>3, <1>4, <2>1, IdxNat DEF Emptied, Gapless
    <3> QED  BY <1>2, <1>3, <2>1, <3>1, IdxNat DEF Filled, Gapless
  <2> QED  BY <1>1, <1>4, <2>1, ReturnClears
<1>5. CASE Continue(t, new) /\ store' = [store EXCEPT ![o.idx] = NoEntry]
  <2>1. store'[o.idx] = NoEntry /\ \A j \in Idx : j # o.idx => store'[j] = store[j]
    BY <1>1, <1>5
  <2>2. new.do = "sweep" /\ new.idx = o.idx + 1 /\ new.tok = o.tok
    BY <1>1 DEF Progress
  <2> HIDE DEF new
  <2>3. ASSUME ~ cut' PROVE Orderly(store', new)
    <3>1. o.idx \in Nat /\ n \in Nat /\ o.idx + 1 >= n
      BY <1>1, <1>2, <1>3, <2>3, IdxNat
    <3>2. Filled(store', n)
      BY <1>2, <2>1, <2>3, <3>1, IdxNat DEF Filled
    <3>3. Emptied(store', n, o.idx + 1)
      BY <1>2, <2>1, <2>3, <3>1, IdxNat DEF Emptied
    <3>4. Gapless(store', o.idx + 1)
      BY <1>2, <2>1, <2>3, <3>1, IdxNat DEF Gapless
    <3> QED  BY <1>2, <2>2, <2>3, <3>1, <3>2, <3>3, <3>4 DEF Orderly, n
  <2> QED  BY <1>1, <1>5, <2>2, <2>3, ContinueClears
<1> QED  BY <1>4, <1>5 DEF SweepTail

\* A refused write leaves the entries in order, for the rollback too.
LEMMA WriteFailsClears ==
    ASSUME Alone, ChunkInv, ClearInv, NEW t \in Threads, WriteFails(t), cut' = cut
    PROVE  ClearInv'
<1> DEFINE o == op[t]
           new == [o EXCEPT !.do = "delete", !.why = "rollback", !.idx = 0]
<1>1. o.do = "write" /\ o.do # "idle" /\ store' = store /\ o \in Progress
  BY DEF WriteFails, ChunkInv, ChunkTypeOK
<1>2. ~ cut' => Gapless(store, 0)
  BY <1>1 DEF ClearInv, Orderly
<1>3. CASE Return(t, "save", "refused")
  BY <1>1, <1>2, <1>3, ReturnClears
<1>4. CASE Continue(t, new)
  <2>1. new.do = "delete" /\ new.idx = 0
    BY <1>1 DEF Progress
  <2> HIDE DEF new
  <2>2. Emptied(store', 0, new.idx)
    BY <2>1, IdxNat DEF Emptied
  <2>3. ~ cut' => Orderly(store', new)
    BY <1>1, <1>2, <2>1 DEF Orderly
  <2> QED  BY <1>1, <1>4, <2>1, <2>2, <2>3, ContinueClears
<1> QED  BY <1>3, <1>4 DEF WriteFails

\* A read that fails leaves the store as it is.
LEMMA ReadFailsClears ==
    ASSUME Alone, ChunkInv, ClearInv, NEW t \in Threads, ReadFails(t), cut' = cut
    PROVE  ClearInv'
<1>1. op[t].do = "load" /\ op[t].do # "idle" /\ store' = store /\ Return(t, op[t].why, "err")
  BY DEF ReadFails
<1>2. ~ cut' => Gapless(store, 0)
  BY <1>1 DEF ClearInv, Orderly
<1> QED  BY <1>1, <1>2, ReturnClears

\* A deletion or a sweep that fails is cut short.
LEMMA CutClears ==
    ASSUME Alone, ChunkInv, ClearInv, NEW t \in Threads,
           SweepFails(t) \/ DeleteFails(t), cut'
    PROVE  ClearInv'
<1>1. CASE SweepFails(t)
  BY <1>1, ReturnClears DEF SweepFails
<1>2. CASE DeleteFails(t)
  BY <1>2, ReturnClears DEF DeleteFails, DeleteEnds
<1> QED  BY <1>1, <1>2

\* A process that dies in a deletion or a sweep cuts it short; a read or a write
\* leaves the entries in order.
LEMMA CrashClears ==
    ASSUME Alone, ChunkInv, ClearInv, NEW p \in Procs, Crash(p)
    PROVE  ClearInv'
<1> DEFINE w == lock[p]
           r == Report("crash", op[w].why, op[w].tok, NoSession, 0)
<1>1. /\ op' = [t \in Threads |-> IF Home[t] = p THEN Idle ELSE op[t]]
      /\ last' = [last EXCEPT ![p] = r] /\ last \in [Procs -> Reports]
      /\ store' = store /\ w \in Threads /\ op[w] \in Progress
  BY DEF Crash, ChunkInv, ChunkTypeOK
<1>2. r.of = "crash" /\ Idle.do = "idle"
  BY DEF Report, Idle, Work
<1>3. \A t \in Threads : op'[t].do = "idle"
  BY <1>1, <1>2, ChunkAssumptions DEF Alone
<1>4. \A q \in Procs : last'[q] = r
  BY <1>1 DEF Alone
<1>5. \A q \in Procs : last'[q].of = "crash"
  <2> HIDE DEF r
  <2> QED  BY <1>2, <1>4
<1>6. DeletedIsGone'
  BY <1>5 DEF DeletedIsGone, Deleted
<1>7. ~ cut' => ~ cut /\ op[w].do \notin {"sweep", "delete"}
  BY Zenon DEF Crash
<1>8. ~ cut' => Gapless(store, 0)
  <2>1. CASE op[w].do = "idle"
    <3>1. \A t \in Threads : t # w => op[t].do = "idle"
      BY <1>1, ChunkAssumptions DEF Alone, ClearInv
    <3> QED  BY <1>7, <2>1, <3>1 DEF ClearInv
  <2>2. CASE op[w].do \in {"load", "write"}
    BY <1>1, <1>7, <2>2 DEF ClearInv, Orderly
  <2> QED  BY <1>1, <1>7, <2>1, <2>2 DEF Progress, Doings
<1>9. (~ cut => Gapless(store, 0))'
  BY <1>1, <1>8
<1> QED  BY <1>3, <1>6, <1>9 DEF ClearInv

\* In one instance, for tokens of any length, a deletion that reports success has
\* left nothing, unless an earlier deletion or sweep was cut short, and then only
\* entries past the first GAP_TOLERANCE (delete_chunks).
THEOREM DeletionsLeaveNoFront ==
    ASSUME Alone
    PROVE  Spec => []DeletedIsGone
<1>1. Init => ClearInv
  <2> SUFFICES ASSUME Init PROVE ClearInv
    OBVIOUS
  <2>1. \A t \in Threads : op[t].do = "idle"
    BY DEF Init, Idle, Work
  <2>2. DeletedIsGone
    BY DEF Init, DeletedIsGone, Deleted, NoReport, Report
  <2>3. Gapless(store, 0)
    <3>1. CASE store = [i \in Idx |-> NoEntry]
      BY <3>1 DEF Gapless
    <3>2. ASSUME NEW f \in Upgrades, NEW k \in OldTokens, store = OlderSet(f, k)
          PROVE  Gapless(store, 0)
      <4>1. Parts[k] \in Nat
        BY ChunkAssumptions
      <4>2. \A j \in Idx : store[j] = NoEntry <=> j >= Parts[k]
        <5>1. k # NoTok /\ \A j : Chunk("data", 0, 0, k, j) # NoEntry
          BY ChunkAssumptions DEF Chunk, NoEntry
        <5>2. Chunk("azapp1", Parts[k], 0, k, 0) # NoEntry
          BY <5>1 DEF Chunk, NoEntry
        <5> QED  BY <3>2, <5>1, <5>2 DEF OlderSet
      <4> QED  BY <4>1, <4>2, IdxNat DEF Gapless
    <3> QED  BY <3>1, <3>2 DEF Init
  <2> QED  BY <2>1, <2>2, <2>3 DEF ClearInv
<1>2. ChunkInv /\ ClearInv /\ [Next]_vars => ClearInv'
  <2> SUFFICES ASSUME ChunkInv, ClearInv, [Next]_vars PROVE ClearInv'
    OBVIOUS
  <2>1. CASE UNCHANGED vars
    BY <2>1 DEF vars, ClearInv, DeletedIsGone, Deleted, Undisturbed
  <2>2. ASSUME NEW t \in Threads, Load(t) \/ Delete(t) PROVE ClearInv'
    <3>1. /\ Work("load", "load", NoTok, 0).idx = 0 /\ Work("delete", "delete", NoTok, 0).idx = 0
          /\ Work("load", "load", NoTok, 0).do = "load" /\ Work("delete", "delete", NoTok, 0).do = "delete"
      BY DEF Work
    <3> QED  BY <2>2, <3>1, BeginClears DEF Load, Delete
  <2>3. ASSUME NEW t \in Threads, NEW tok \in Tokens, Save(t, tok) \/ Purge(t, tok) PROVE ClearInv'
    <3>1. /\ Work("write", "save", tok, Len(written) + 1).idx = 0
          /\ Work("write", "save", tok, Len(written) + 1).do = "write"
          /\ Work("load", "purge", tok, 0).idx = 0 /\ Work("load", "purge", tok, 0).do = "load"
      BY DEF Work
    <3> QED  BY <2>3, <3>1, BeginClears DEF Save, Purge
  <2>4. ASSUME NEW t \in Threads, Step(t) PROVE ClearInv'
    BY <2>4, DeleteChunkClears, ReadChunkClears, WriteChunkClears, SweepTailClears DEF Step
  <2>5. ASSUME NEW t \in Threads, Fault(t) PROVE ClearInv'
    BY <2>5, WriteFailsClears, ReadFailsClears, CutClears DEF Fault
  <2>6. ASSUME NEW p \in Procs, Crash(p) PROVE ClearInv'
    BY <2>6, CrashClears
  <2> QED  BY <2>1, <2>2, <2>3, <2>4, <2>5, <2>6 DEF Next
<1>3. ClearInv => DeletedIsGone
  BY DEF ClearInv
<1> QED  BY <1>1, <1>2, <1>3, ChunkInvariance, PTL DEF Spec

-----------------------------------------------------------------------------
(* One instance: what a load returns, what a save reports and what a crash *)
(* leaves.  While an operation runs nobody else touches the store, so what *)
(* it has done so far can be read off it.                                  *)

Stores == [Idx -> Chunks \cup {NoEntry}]

Sessions == {NoSession} \cup {Whole(tok) : tok \in Tokens}

\* A chunk 0 of an older format belongs to the set as that version left it.
Shape(s) ==
    s[0] # NoEntry /\ s[0].marker # "azapp2" =>
        \E f \in Upgrades, k \in Tokens : s = OlderSet(f, k)

\* The payloads of the first n entries.
Payloads(s, n) == [i \in 1..n |-> Payload(s[i - 1])]

\* A load has read the entries before its index, and no more than declared.
Reading(s, o) ==
    /\ o.idx = 0 => o.declared = -1
    /\ o.idx > 0 =>
         /\ \A j \in Idx : j < o.idx => s[j] # NoEntry
         /\ o.gen = IF s[0].marker = "azapp2" THEN s[0].gen ELSE 0
         /\ o.declared = IF s[0].marker = "data" THEN -1 ELSE s[0].total
         /\ s[0].marker = "azapp2" =>
              /\ o.idx <= o.declared
              /\ o.mismatch <=> \E j \in Idx : j < o.idx /\ s[j].gen # o.gen
              /\ ~o.mismatch => o.got = Payloads(s, o.idx)
         /\ s[0].marker # "azapp2" => ~o.mismatch /\ o.got = Run(s, o.idx)

\* The chunks of a write, up to an index, are in the store.
Stored(s, o, n) ==
    \A j \in Idx : j < n => s[j] = encode_chunk(j, Parts[o.tok], o.gen, o.tok)

\* Before its first write or deletion an operation has the session it found;
\* the chunks a write has yet to store are of other generations; a rollback has
\* no session left from its start.
Mid(s, o, f) ==
    /\ o.do = "load" => o.why \in {"load", "purge"} /\ Loaded(s) = f /\ Reading(s, o)
    /\ o.do = "write" => /\ o.why = "save"
                         /\ o.idx = 0 => Loaded(s) = f
                         /\ Stored(s, o, o.idx)
                         /\ \A j \in Idx : j >= o.idx => s[j].gen # o.gen
    /\ o.do = "sweep" => /\ o.why = "save" /\ o.tok \in Tokens /\ o.gen > 0
                         /\ o.idx >= Parts[o.tok] /\ Stored(s, o, Parts[o.tok])
    /\ o.do = "delete" => /\ o.why \in {"delete", "purge", "rollback"}
                          /\ o.why = "rollback" => Loaded(s) = NoSession
                          /\ o.why # "rollback" /\ o.idx = 0 => Loaded(s) = f
                          /\ o.idx > 0 => s[0] = NoEntry

SessionInv ==
    /\ found \in [Procs -> Sessions]
    /\ \A t \in Threads : op[t].do # "idle" <=> lock[Home[t]] = t
    /\ Shape(store)
    /\ \A t \in Threads : Mid(store, op[t], found[Home[t]])
    /\ LoadIsExact /\ SaveReportIsTrue /\ CrashIsClean

\* The fields of what encode_chunk stores.
LEMMA EncodeParts ==
    ASSUME NEW i \in Int, NEW total, NEW gen, NEW tok
    PROVE  /\ encode_chunk(i, total, gen, tok).tok = tok
           /\ encode_chunk(i, total, gen, tok).part = i
           /\ encode_chunk(i, total, gen, tok).gen = gen
           /\ encode_chunk(i, total, gen, tok).marker # "none"
           /\ i = 0 => /\ encode_chunk(i, total, gen, tok).marker = "azapp2"
                       /\ encode_chunk(i, total, gen, tok).total = total
<1>1. CASE i = 0
  BY <1>1 DEF encode_chunk, Chunk
<1>2. CASE i # 0
  BY <1>2 DEF encode_chunk, Chunk
<1> QED  BY <1>1, <1>2

\* Loaded, case by case.
LEMMA LoadedFacts ==
    ASSUME NEW s \in Stores
    PROVE  /\ s[0] = NoEntry => Loaded(s) = NoSession
           /\ s[0] # NoEntry /\ s[0].marker = "azapp2" =>
                Loaded(s) = IF \A i \in 1..(s[0].total - 1) : s[i] # NoEntry /\ s[i].gen = s[0].gen
                              THEN Payloads(s, s[0].total) ELSE NoSession
           /\ s[0] # NoEntry /\ s[0].marker = "azapp1" =>
                Loaded(s) = IF FirstMissing(s) = s[0].total THEN Run(s, FirstMissing(s)) ELSE NoSession
           /\ s[0] # NoEntry /\ s[0].marker = "data" => Loaded(s) = Run(s, FirstMissing(s))
<1>1. s[0] = NoEntry => Loaded(s) = NoSession
  BY DEF Loaded
<1>2. s[0] # NoEntry /\ s[0].marker = "azapp2" =>
        Loaded(s) = IF \A i \in 1..(s[0].total - 1) : s[i] # NoEntry /\ s[i].gen = s[0].gen
                      THEN Payloads(s, s[0].total) ELSE NoSession
  BY DEF Loaded, Payloads
<1>3. s[0] # NoEntry /\ s[0].marker = "azapp1" =>
        Loaded(s) = IF FirstMissing(s) = s[0].total THEN Run(s, FirstMissing(s)) ELSE NoSession
  BY DEF Loaded
<1>4. s[0] # NoEntry /\ s[0].marker = "data" => Loaded(s) = Run(s, FirstMissing(s))
  BY DEF Loaded
<1> QED  BY <1>1, <1>2, <1>3, <1>4

\* There is one first missing entry.
LEMMA FirstMissingIs ==
    ASSUME NEW s, NEW n \in Idx, s[n] = NoEntry, \A j \in Idx : j < n => s[j] # NoEntry
    PROVE  FirstMissing(s) = n
<1>1. Idx \subseteq Nat /\ \A i \in Idx : 0..(i - 1) \subseteq Idx
  BY ChunkAssumptions DEF Idx, GAP_TOLERANCE
<1>2. s[n] = NoEntry /\ \A j \in 0..(n - 1) : s[j] # NoEntry
  BY <1>1
<1>3. ASSUME NEW i \in Idx, s[i] = NoEntry, \A j \in 0..(i - 1) : s[j] # NoEntry
      PROVE  i = n
  <2>1. ~ (n < i)
    BY <1>1, <1>3
  <2>2. ~ (i < n)
    BY <1>3
  <2> QED  BY <1>1, <2>1, <2>2
<1> DEFINE First(i) == s[i] = NoEntry /\ \A j \in 0..(i - 1) : s[j] # NoEntry
<1>4. First(n) /\ \A i \in Idx : First(i) => i = n
  BY <1>2, <1>3
<1>5. FirstMissing(s) = CHOOSE i \in Idx : First(i)
  BY DEF FirstMissing
<1> HIDE DEF First
<1> QED  BY <1>4, <1>5

\* Entries that are all the parts of a token, one after the other, make the token.
LEMMA PayloadsMakeToken ==
    ASSUME NEW s, NEW k \in Tokens,
           \A j \in Idx : j < Parts[k] => s[j].tok = k /\ s[j].part = j
    PROVE  Payloads(s, Parts[k]) = Whole(k)
<1>1. Parts[k] \in 1..MaxChunks /\ MaxChunks \in Nat
  BY ChunkAssumptions
<1>2. \A i \in 1..Parts[k] : i - 1 \in Idx /\ i - 1 < Parts[k]
  BY <1>1 DEF Idx, GAP_TOLERANCE
<1>3. \A i \in 1..Parts[k] : Payload(s[i - 1]) = [gen |-> 0, tok |-> k, part |-> i - 1]
  BY <1>2 DEF Payload
<1> QED  BY <1>3 DEF Payloads, Whole

\* A set that declares more chunks than it has of its generation is no session.
LEMMA MixedIsNoSession ==
    ASSUME NEW s \in Stores, s[0] # NoEntry, s[0].marker = "azapp2",
           NEW j \in 1..(s[0].total - 1), s[j] = NoEntry \/ s[j].gen # s[0].gen
    PROVE  Loaded(s) = NoSession
BY LoadedFacts

\* All the chunks of a write are its token, whatever lies behind them.
LEMMA WrittenIsWhole ==
    ASSUME NEW s \in Stores, NEW o, o.tok \in Tokens, o.gen > 0, o.gen \in Nat, Stored(s, o, Parts[o.tok])
    PROVE  Loaded(s) = Whole(o.tok)
<1> DEFINE n == Parts[o.tok]
<1>1. n \in 1..MaxChunks /\ MaxChunks \in Nat
  BY ChunkAssumptions
<1>2. \A j \in Idx : j \in Int /\ (j < n => s[j] = encode_chunk(j, n, o.gen, o.tok))
  BY DEF Stored, Idx
<1>3. \A j \in 0..(n - 1) : j \in Idx /\ j < n
  BY <1>1 DEF Idx, GAP_TOLERANCE
<1> HIDE DEF n
<1>4. ASSUME NEW j \in Idx, j < n
      PROVE  s[j].tok = o.tok /\ s[j].part = j /\ s[j].gen = o.gen /\ s[j].marker # "none"
  <2>1. s[j] = encode_chunk(j, n, o.gen, o.tok) /\ j \in Int
    BY <1>2, <1>4
  <2> QED  BY <2>1, EncodeParts
<1>5. s[0].marker = "azapp2" /\ s[0].total = n /\ s[0].gen = o.gen
  <2>1. s[0] = encode_chunk(0, n, o.gen, o.tok)
    BY <1>1, <1>2, <1>3
  <2> QED  BY <2>1, EncodeParts
<1>6. NoEntry.marker = "none"
  BY DEF NoEntry, Chunk
<1>7. \A i \in 1..(n - 1) : s[i] # NoEntry /\ s[i].gen = s[0].gen
  BY <1>1, <1>3, <1>4, <1>5, <1>6
<1>8. Loaded(s) = Payloads(s, n)
  BY <1>5, <1>6, <1>7, LoadedFacts
<1> QED  BY <1>4, <1>8, PayloadsMakeToken DEF n

\* The set an earlier version left is its token.
LEMMA OlderIsWhole ==
    ASSUME NEW f \in Upgrades, NEW k \in Tokens, OlderSet(f, k) \in Stores
    PROVE  Loaded(OlderSet(f, k)) = Whole(k)
<1> DEFINE n == Parts[k]
           s == OlderSet(f, k)
<1>1. n \in 1..MaxChunks /\ MaxChunks \in Nat /\ n \in Idx /\ 0 \in Idx /\ Idx \subseteq Nat
  BY ChunkAssumptions DEF Idx, GAP_TOLERANCE
<1>2. s[n] = NoEntry
  BY <1>1 DEF OlderSet
<1>3. \A j \in Idx : j < n =>
        s[j] = IF j = 0 /\ f = "azapp1" THEN Chunk("azapp1", n, 0, k, 0) ELSE Chunk("data", 0, 0, k, j)
  BY <1>1 DEF OlderSet
<1>4. NoEntry.marker = "none"
  BY DEF NoEntry, Chunk
<1>5. \A j \in Idx : j < n => s[j].tok = k /\ s[j].part = j /\ s[j].gen = 0 /\ s[j].marker # "none"
  <2> HIDE DEF s
  <2> TAKE j \in Idx
  <2> HAVE j < n
  <2>1. CASE j = 0 /\ f = "azapp1"
    <3>1. s[j] = Chunk("azapp1", n, 0, k, 0)
      BY <1>3, <2>1
    <3> QED  BY <2>1, <3>1 DEF Chunk
  <2>2. CASE ~ (j = 0 /\ f = "azapp1")
    <3>1. s[j] = Chunk("data", 0, 0, k, j)
      BY <1>3, <2>2
    <3> QED  BY <3>1 DEF Chunk
  <2> QED  BY <2>1, <2>2
<1>6. s[0] = IF f = "azapp1" THEN Chunk("azapp1", n, 0, k, 0) ELSE Chunk("data", 0, 0, k, 0)
  BY <1>1, <1>3
<1> HIDE DEF s
<1>7. FirstMissing(s) = n
  BY <1>1, <1>2, <1>4, <1>5, FirstMissingIs
<1>8. \A i \in 1..n : i - 1 \in Idx /\ i - 1 < n
  BY <1>1 DEF Idx, GAP_TOLERANCE
<1>9. \A i \in 1..n : (IF i = 1 THEN Payload(s[0]) ELSE Raw(s[i - 1])) = [gen |-> 0, tok |-> k, part |-> i - 1]
  BY <1>1, <1>5, <1>8 DEF Payload, Raw
<1>10. Run(s, n) = Whole(k)
  BY <1>9 DEF Run, Whole
<1>11. s[0] # NoEntry /\ ((s[0].marker = "azapp1" /\ s[0].total = n) \/ s[0].marker = "data")
  BY <1>4, <1>6 DEF Chunk
<1>12. s \in Stores
  BY DEF s
<1>13. Loaded(s) = Whole(k)
  BY <1>7, <1>10, <1>11, <1>12, LoadedFacts
<1> QED  BY <1>13 DEF s

\* A store between two operations holds nothing or one whole token.
LEMMA StoreIsASession ==
    ASSUME ChunkInv, Shape(store)
    PROVE  Loaded(store) \in Sessions
<1>1. store \in Stores /\ 0 \in Idx /\ Idx \subseteq Nat
  BY ChunkAssumptions DEF ChunkInv, ChunkTypeOK, Stores, Idx, GAP_TOLERANCE
<1>2. CASE store[0] = NoEntry
  BY <1>1, <1>2, LoadedFacts DEF Sessions
<1>3. CASE store[0] # NoEntry /\ store[0].marker # "azapp2"
  BY <1>1, <1>3, OlderIsWhole DEF Shape, Sessions
<1>4. CASE store[0] # NoEntry /\ store[0].marker = "azapp2"
  <2> DEFINE g == store[0].gen
             k == written[g]
  <2>1. store[0] \in Chunks /\ \A i \in Idx : EntryOK(store[i], i)
    BY <1>1, <1>4 DEF ChunkInv, Stores
  <2>2. g \in Nat /\ g > 0 /\ g <= Len(written)
    BY <1>1, <1>4, <2>1, ChunkAssumptions DEF EntryOK, Chunks
  <2>3. k \in Tokens /\ store[0].total = Parts[k] /\ Parts[k] \in 1..MaxChunks
    <3>1. k \in Tokens
      BY <2>2 DEF ChunkInv, ChunkTypeOK
    <3>2. store[0].total = Parts[k]
      BY <1>1, <2>1, <2>2 DEF EntryOK
    <3> QED  BY <3>1, <3>2, ChunkAssumptions
  <2>4. CASE \A i \in 1..(store[0].total - 1) : store[i] # NoEntry /\ store[i].gen = g
    <3>1. \A j \in Idx : j < Parts[k] => store[j].gen = g
      <4> TAKE j \in Idx
      <4> HAVE j < Parts[k]
      <4>1. j = 0 \/ j \in 1..(store[0].total - 1)
        BY <1>1, <2>3, ChunkAssumptions
      <4> QED  BY <2>4, <4>1
    <3>2. \A j \in Idx : j < Parts[k] => store[j].tok = k /\ store[j].part = j
      BY <2>1, <2>2, <3>1 DEF EntryOK
    <3>3. Loaded(store) = Payloads(store, Parts[k])
      BY <1>1, <1>4, <2>3, <2>4, LoadedFacts
    <3> HIDE DEF k
    <3> QED  BY <2>3, <3>2, <3>3, PayloadsMakeToken DEF Sessions
  <2>5. CASE ~ \A i \in 1..(store[0].total - 1) : store[i] # NoEntry /\ store[i].gen = g
    BY <1>1, <1>4, <2>5, LoadedFacts DEF Sessions
  <2> QED  BY <2>4, <2>5
<1> QED  BY <1>2, <1>3, <1>4

\* The loop of load_chunks, where it ends, has found what the store holds.
LEMMA ReadingEnds ==
    ASSUME NEW s \in Stores, NEW o \in Progress, Reading(s, o),
           o.idx = 0 => o.gen = 0,
           s[0].marker = "azapp2" => s[0].gen > 0,
           (o.gen > 0 /\ o.declared = o.idx) \/ s[o.idx] = NoEntry
    PROVE  LoadResult(o) = Loaded(s)
<1>1. /\ o.idx \in Idx /\ 0 \in Idx /\ Idx \subseteq Nat /\ o.gen \in Nat /\ o.declared \in Int
      /\ \A i \in Idx : s[i] \in Chunks \cup {NoEntry}
  BY ChunkAssumptions DEF Progress, Stores, Idx, GAP_TOLERANCE
<1>2. CASE o.idx = 0
  <2>1. s[0] = NoEntry
    BY <1>1, <1>2
  <2> QED  BY <1>2, <2>1, LoadedFacts DEF LoadResult
<1>3. CASE o.idx > 0
  <2>1. /\ \A j \in Idx : j < o.idx => s[j] # NoEntry
        /\ s[0] # NoEntry /\ s[0] \in Chunks
    BY <1>1, <1>3 DEF Reading
  <2>2. s[0].total \in Nat /\ s[0].gen \in Nat /\ s[0].marker \in {"azapp2", "azapp1", "data"}
    BY <2>1, ChunkAssumptions DEF Chunks
  <2>3. CASE s[0].marker = "azapp2"
    <3>1. /\ o.gen = s[0].gen /\ o.gen > 0 /\ o.declared = s[0].total /\ o.idx <= o.declared
          /\ o.mismatch <=> \E j \in Idx : j < o.idx /\ s[j].gen # o.gen
          /\ ~o.mismatch => o.got = Payloads(s, o.idx)
      BY <1>3, <2>3 DEF Reading
    <3>2. CASE o.declared # o.idx
      <4>1. s[o.idx] = NoEntry
        BY <3>2
      <4>3. o.idx \in Nat /\ o.idx < s[0].total /\ s[0].total \in Nat
        <5>1. o.idx \in Nat /\ o.declared = s[0].total /\ o.idx <= o.declared
          BY <1>1, <3>1
        <5> QED  BY <2>2, <3>2, <5>1
      <4>4. o.idx \in 1..(s[0].total - 1)
        BY <1>3, <4>3
      <4>2. Loaded(s) = NoSession
        BY <2>1, <2>3, <4>1, <4>4, MixedIsNoSession
      <4> QED  BY <2>2, <3>1, <3>2, <4>2 DEF LoadResult
    <3>3. CASE o.declared = o.idx /\ o.mismatch
      <4>1. PICK j \in Idx : j < o.idx /\ s[j].gen # o.gen
        BY <3>1, <3>3
      <4>2. j \in 1..(s[0].total - 1)
        BY <1>1, <2>2, <3>1, <3>3, <4>1
      <4>3. Loaded(s) = NoSession
        BY <2>1, <2>3, <3>1, <4>1, <4>2, MixedIsNoSession
      <4> QED  BY <3>3, <4>3 DEF LoadResult
    <3>4. CASE o.declared = o.idx /\ ~ o.mismatch
      <4>1. \A i \in 1..(s[0].total - 1) : i \in Idx /\ i < o.idx
        BY <1>1, <2>2, <3>1, <3>4, ChunkAssumptions DEF Idx, GAP_TOLERANCE
      <4>2. \A i \in 1..(s[0].total - 1) : s[i] # NoEntry /\ s[i].gen = s[0].gen
        BY <2>1, <3>1, <3>4, <4>1
      <4>3. Loaded(s) = Payloads(s, s[0].total)
        BY <2>1, <2>3, <4>2, LoadedFacts
      <4>4. LoadResult(o) = o.got
        BY <1>1, <1>3, <3>1, <3>4 DEF LoadResult
      <4> QED  BY <3>1, <3>4, <4>3, <4>4
    <3> QED  BY <3>2, <3>3, <3>4
  <2>4. CASE s[0].marker # "azapp2"
    <3>1. /\ o.gen = 0 /\ o.declared = (IF s[0].marker = "data" THEN -1 ELSE s[0].total)
          /\ ~ o.mismatch /\ o.got = Run(s, o.idx)
      BY <1>3, <2>4 DEF Reading
    <3>2. s[o.idx] = NoEntry
      BY <3>1
    <3>3. FirstMissing(s) = o.idx
      BY <1>1, <2>1, <3>2, FirstMissingIs
    <3>4. CASE s[0].marker = "data"
      <4>1. Loaded(s) = Run(s, o.idx)
        BY <2>1, <3>3, <3>4, LoadedFacts
      <4> QED  BY <1>1, <1>3, <3>1, <3>4, <4>1 DEF LoadResult
    <3>5. CASE s[0].marker = "azapp1"
      <4>1. Loaded(s) = IF o.idx = s[0].total THEN Run(s, o.idx) ELSE NoSession
        BY <2>1, <3>3, <3>5, LoadedFacts
      <4>2. o.declared = s[0].total /\ o.declared >= 0
        BY <2>2, <3>1, <3>5
      <4> QED  BY <1>1, <1>3, <3>1, <4>1, <4>2 DEF LoadResult
    <3> QED  BY <2>2, <2>4, <3>4, <3>5
  <2> QED  BY <2>3, <2>4
<1>4. o.idx \in Nat
  BY <1>1
<1> QED  BY <1>2, <1>3, <1>4

\* A sequence is its front with its last element appended.
LEMMA FrontAndLast ==
    ASSUME NEW T, NEW n \in Nat, NEW g \in [1..(n + 1) -> T]
    PROVE  Append([i \in 1..n |-> g[i]], g[n + 1]) = g
<1> DEFINE front == [i \in 1..n |-> g[i]]
<1>1. front \in Seq(T) /\ Len(front) = n /\ g[n + 1] \in T
  OBVIOUS
<1>2. g \in Seq(T) /\ Len(g) = n + 1
  OBVIOUS
<1>3. \A i \in 1..n : front[i] = g[i]
  OBVIOUS
<1> HIDE DEF front
<1>4. \A i \in 1..(n + 1) : Append(front, g[n + 1])[i] = g[i]
  BY <1>1, <1>3
<1>5. Append(front, g[n + 1]) \in Seq(T) /\ Len(Append(front, g[n + 1])) = n + 1
  BY <1>1
<1>6. Append(front, g[n + 1]) = g
  BY <1>2, <1>4, <1>5
<1> QED  BY <1>6 DEF front

\* One more entry makes what has been read one longer.
LEMMA OneMoreRead ==
    ASSUME NEW s, NEW n \in Nat \ {0}
    PROVE  /\ Append(Payloads(s, n), Payload(s[n])) = Payloads(s, n + 1)
           /\ Append(Run(s, n), Raw(s[n])) = Run(s, n + 1)
           /\ <<Payload(s[0])>> = Payloads(s, 1)
           /\ <<Payload(s[0])>> = Run(s, 1)
<1>1. Append(Payloads(s, n), Payload(s[n])) = Payloads(s, n + 1)
  <2> DEFINE g == Payloads(s, n + 1)
  <2>1. g[n + 1] = Payload(s[n]) /\ Payloads(s, n) = [i \in 1..n |-> g[i]]
    BY DEF Payloads
  <2>2. g \in [1..(n + 1) -> {g[i] : i \in 1..(n + 1)}]
    BY DEF Payloads
  <2> HIDE DEF g
  <2>3. Append([i \in 1..n |-> g[i]], g[n + 1]) = g
    BY <2>2, FrontAndLast
  <2> QED  BY <2>1, <2>3 DEF g
<1>2. Append(Run(s, n), Raw(s[n])) = Run(s, n + 1)
  <2> DEFINE g == Run(s, n + 1)
  <2>1. g[n + 1] = Raw(s[n]) /\ Run(s, n) = [i \in 1..n |-> g[i]]
    BY DEF Run
  <2>2. g \in [1..(n + 1) -> {g[i] : i \in 1..(n + 1)}]
    BY DEF Run
  <2> HIDE DEF g
  <2>3. Append([i \in 1..n |-> g[i]], g[n + 1]) = g
    BY <2>2, FrontAndLast
  <2> QED  BY <2>1, <2>3 DEF g
<1>3. <<Payload(s[0])>> = Payloads(s, 1)
  BY DEF Payloads
<1>4. <<Payload(s[0])>> = Run(s, 1)
  BY DEF Run
<1> QED  BY <1>1, <1>2, <1>3, <1>4

\* A thread at work has the only lock; the others are idle.
LEMMA OneWorker ==
    ASSUME Alone, SessionInv, NEW t \in Threads, op[t].do # "idle"
    PROVE  lock[Home[t]] = t /\ \A u \in Threads : u # t => op[u].do = "idle"
BY ChunkAssumptions DEF Alone, SessionInv

\* An idle thread is in the middle of nothing.
LEMMA IdleMid ==
    ASSUME NEW s, NEW o, NEW f, o.do = "idle"
    PROVE  Mid(s, o, f)
BY DEF Mid

\* Starting an operation.
LEMMA BeginMid ==
    ASSUME Alone, ChunkInv, SessionInv, NEW t \in Threads, NEW new,
           Begin(t, new), new.do # "idle", Mid(store, new, Loaded(store))
    PROVE  SessionInv'
<1>1. /\ op' = [op EXCEPT ![t] = new] /\ lock' = [lock EXCEPT ![Home[t]] = t] /\ store' = store
      /\ found' = [found EXCEPT ![Home[t]] = Loaded(store)] /\ lock[Home[t]] = Free
  BY DEF Begin
<1>2. /\ op \in [Threads -> Progress] /\ lock \in [Procs -> Threads \cup {Free}]
      /\ Home[t] \in Procs /\ found \in [Procs -> Sessions] /\ Loaded(store) \in Sessions
  BY ChunkAssumptions, StoreIsASession DEF ChunkInv, ChunkTypeOK, SessionInv
<1>3. \A p \in Procs : lock'[p] = t /\ lock'[p] # Free /\ found'[p] = Loaded(store)
  BY <1>1, <1>2, ChunkAssumptions DEF Alone
<1>4. \A u \in Threads : u # t => op'[u] = op[u] /\ op[u].do = "idle"
  BY <1>1, <1>2, ChunkAssumptions DEF Alone, SessionInv
<1>5. op'[t] = new
  BY <1>1, <1>2
<1>6. \A u \in Threads : Home[u] \in Procs
  BY ChunkAssumptions
<1>7. \A u \in Threads : op'[u].do # "idle" <=> lock'[Home[u]] = u
  BY <1>3, <1>4, <1>5, <1>6
<1>8. ASSUME NEW u \in Threads PROVE Mid(store', op'[u], found'[Home[u]])
  <2>1. CASE u = t
    BY <1>1, <1>3, <1>5, <1>6, <2>1
  <2>2. CASE u # t
    BY <1>4, <2>2, IdleMid
  <2> QED  BY <2>1, <2>2
<1>9. found' \in [Procs -> Sessions]
  BY <1>1, <1>2
<1>10. Shape(store')
  BY <1>1 DEF SessionInv
<1>11. (LoadIsExact /\ SaveReportIsTrue /\ CrashIsClean)'
  BY <1>3 DEF LoadIsExact, SaveReportIsTrue, CrashIsClean
<1>12. (\A u \in Threads : Mid(store, op[u], found[Home[u]]))'
  BY <1>8
<1>13. (Shape(store))'
  BY <1>10
<1> QED  BY <1>7, <1>9, <1>11, <1>12, <1>13 DEF SessionInv

\* Going on with an operation.
LEMMA ContinueMid ==
    ASSUME Alone, ChunkInv, SessionInv, NEW t \in Threads, NEW new, op[t].do # "idle",
           Continue(t, new), new.do # "idle", Shape(store'), Mid(store', new, found[Home[t]])
    PROVE  SessionInv'
<1>1. op' = [op EXCEPT ![t] = new] /\ lock' = lock /\ found' = found
  BY DEF Continue
<1>2. op \in [Threads -> Progress] /\ found \in [Procs -> Sessions] /\ lock[Home[t]] = t
  BY OneWorker DEF ChunkInv, ChunkTypeOK, SessionInv
<1>3. \A p \in Procs : lock'[p] = t /\ lock'[p] # Free
  BY <1>1, <1>2, ChunkAssumptions DEF Alone
<1>4. \A u \in Threads : u # t => op'[u] = op[u] /\ op[u].do = "idle"
  BY <1>1, <1>2, OneWorker
<1>5. op'[t] = new
  BY <1>1, <1>2
<1>6. \A u \in Threads : Home[u] \in Procs
  BY ChunkAssumptions
<1>7. \A u \in Threads : op'[u].do # "idle" <=> lock'[Home[u]] = u
  BY <1>3, <1>4, <1>5, <1>6
<1>8. ASSUME NEW u \in Threads PROVE Mid(store', op'[u], found'[Home[u]])
  <2>1. CASE u = t
    BY <1>1, <1>5, <2>1
  <2>2. CASE u # t
    BY <1>4, <2>2, IdleMid
  <2> QED  BY <2>1, <2>2
<1>9. (LoadIsExact /\ SaveReportIsTrue /\ CrashIsClean)'
  BY <1>3 DEF LoadIsExact, SaveReportIsTrue, CrashIsClean
<1>10. (\A u \in Threads : Mid(store, op[u], found[Home[u]]))'
  BY <1>8
<1>11. (Shape(store))' /\ found' \in [Procs -> Sessions]
  BY <1>1, <1>2
<1> QED  BY <1>7, <1>9, <1>10, <1>11 DEF SessionInv

\* Returning, with a report that is true.
LEMMA ReturnMid ==
    ASSUME Alone, ChunkInv, SessionInv, NEW t \in Threads, NEW r, op[t].do # "idle",
           store' = store, found' = found,
           op' = [op EXCEPT ![t] = Idle], last' = [last EXCEPT ![Home[t]] = r],
           lock' = [lock EXCEPT ![Home[t]] = Free],
           r.of # "crash",
           r.of = "load" /\ r.res = "ok" => r.got = Loaded(store) /\ r.got \in Sessions,
           r.of = "save" =>
              \/ r.res = "ok" /\ Loaded(store) = Whole(r.tok)
              \/ r.res = "refused" /\ Loaded(store) = found[Home[t]]
              \/ r.res = "torn" /\ Loaded(store) = NoSession
    PROVE  SessionInv'
<1>1. op \in [Threads -> Progress] /\ found \in [Procs -> Sessions] /\ last \in [Procs -> Reports]
      /\ Home[t] \in Procs /\ lock \in [Procs -> Threads \cup {Free}]
  BY ChunkAssumptions DEF ChunkInv, ChunkTypeOK, SessionInv
<1>2. Idle.do = "idle"
  BY DEF Idle, Work
<1>3. \A u \in Threads : op'[u].do = "idle"
  BY <1>1, <1>2, OneWorker
<1>4. \A u \in Threads : Mid(store', op'[u], found'[Home[u]])
  BY <1>3, IdleMid
<1>5. (\A u \in Threads : Mid(store, op[u], found[Home[u]]))'
  BY <1>4
<1>6. \A p \in Procs : p = Home[t] /\ last'[p] = r
  BY <1>1 DEF Alone
<1>7. LoadIsExact'
  BY <1>6 DEF LoadIsExact, Sessions
<1>8. SaveReportIsTrue'
  <2> SUFFICES ASSUME NEW p \in Procs, last'[p].of = "save"
               PROVE  Loaded(store') = CASE last'[p].res = "ok"      -> Whole(last'[p].tok)
                                         [] last'[p].res = "refused" -> found'[p]
                                         [] last'[p].res = "torn"    -> NoSession
    BY DEF SaveReportIsTrue
  <2> QED  BY <1>6
<1>9. CrashIsClean'
  BY <1>6 DEF CrashIsClean
<1>10. (Shape(store))' /\ found' \in [Procs -> Sessions]
  BY <1>1 DEF SessionInv
<1>11. \A u \in Threads : op'[u].do # "idle" <=> lock'[Home[u]] = u
  BY <1>1, <1>3, <1>6, ChunkAssumptions
<1> QED  BY <1>5, <1>7, <1>8, <1>9, <1>10, <1>11 DEF SessionInv

LEMMA StartsMid ==
    ASSUME Alone, ChunkInv, SessionInv, NEW t \in Threads,
           Load(t) \/ Delete(t) \/ \E tok \in Tokens : Save(t, tok) \/ Purge(t, tok)
    PROVE  SessionInv'
<1>1. \A do, why, tok, gen :
        /\ Work(do, why, tok, gen).do = do /\ Work(do, why, tok, gen).why = why
        /\ Work(do, why, tok, gen).idx = 0 /\ Work(do, why, tok, gen).gen = gen
        /\ Work(do, why, tok, gen).declared = -1 /\ Work(do, why, tok, gen).tok = tok
  BY DEF Work
<1>2. 0 \in Idx /\ Idx \subseteq Nat
  BY ChunkAssumptions DEF Idx, GAP_TOLERANCE
<1>3. CASE Load(t)
  <2> DEFINE new == Work("load", "load", NoTok, 0)
  <2>1. Mid(store, new, Loaded(store))
    BY <1>1 DEF Mid, Reading
  <2> QED  BY <1>1, <1>3, <2>1, BeginMid DEF Load
<1>4. CASE Delete(t)
  <2> DEFINE new == Work("delete", "delete", NoTok, 0)
  <2>1. Mid(store, new, Loaded(store))
    BY <1>1 DEF Mid
  <2> QED  BY <1>1, <1>4, <2>1, BeginMid DEF Delete
<1>5. ASSUME NEW tok \in Tokens, Purge(t, tok) PROVE SessionInv'
  <2> DEFINE new == Work("load", "purge", tok, 0)
  <2>1. Mid(store, new, Loaded(store))
    BY <1>1 DEF Mid, Reading
  <2> QED  BY <1>1, <1>5, <2>1, BeginMid DEF Purge
<1>6. ASSUME NEW tok \in Tokens, Save(t, tok) PROVE SessionInv'
  <2> DEFINE new == Work("write", "save", tok, Len(written) + 1)
  <2>1. \A j \in Idx : store[j].gen # Len(written) + 1
    <3> TAKE j \in Idx
    <3>1. EntryOK(store[j], j) /\ store[j] \in Chunks \cup {NoEntry} /\ Len(written) \in Nat
      BY DEF ChunkInv, ChunkTypeOK
    <3>2. CASE store[j] = NoEntry
      BY <3>1, <3>2, NoEntryFacts
    <3>3. CASE store[j] \in Chunks
      <4>1. store[j].gen \in Nat /\ (store[j].gen > 0 => store[j].gen <= Len(written))
        BY <3>1, <3>3, ChunkAssumptions DEF EntryOK, Chunks
      <4> QED  BY <3>1, <4>1
    <3> QED  BY <3>1, <3>2, <3>3
  <2>2. \A j \in Idx : ~ (j < 0)
    BY <1>2
  <2>3. new.do = "write" /\ new.why = "save" /\ new.idx = 0 /\ new.gen = Len(written) + 1
    BY <1>1
  <2> HIDE DEF new
  <2>4. Mid(store, new, Loaded(store))
    BY <2>1, <2>2, <2>3 DEF Mid, Stored
  <2> QED  BY <1>6, <2>3, <2>4, BeginMid DEF Save, new
<1> QED  BY <1>3, <1>4, <1>5, <1>6

\* A write between its first chunk and its last is no session.
LEMMA HalfWritten ==
    ASSUME NEW s \in Stores, NEW o \in Progress, o.do = "write", o.tok \in Tokens,
           NEW f, Mid(s, o, f), o.idx # 0, o.idx < Parts[o.tok]
    PROVE  Loaded(s) = NoSession /\ s[0] # NoEntry /\ s[0].marker = "azapp2"
<1>1. /\ o.idx \in Idx /\ o.idx \in Nat /\ 0 \in Idx
      /\ Parts[o.tok] \in Nat
  BY ChunkAssumptions DEF Progress, Idx, GAP_TOLERANCE
<1>2. s[0] = encode_chunk(0, Parts[o.tok], o.gen, o.tok) /\ s[o.idx].gen # o.gen
  <2>1. Stored(s, o, o.idx) /\ \A j \in Idx : j >= o.idx => s[j].gen # o.gen
    BY DEF Mid
  <2>2. 0 < o.idx /\ o.idx >= o.idx
    BY <1>1
  <2> QED  BY <1>1, <2>1, <2>2 DEF Stored
<1>3. s[0].marker = "azapp2" /\ s[0].total = Parts[o.tok] /\ s[0].gen = o.gen
  BY <1>2, EncodeParts
<1>4. s[0] # NoEntry
  BY <1>3 DEF NoEntry, Chunk
<1>5. o.idx \in 1..(s[0].total - 1)
  <2>1. o.idx \in Nat /\ s[0].total \in Nat /\ o.idx < s[0].total
    BY <1>1, <1>3
  <2> QED  BY <2>1
<1> QED  BY <1>2, <1>3, <1>4, <1>5, MixedIsNoSession

LEMMA WriteChunkMid ==
    ASSUME Alone, ChunkInv, SessionInv, NEW t \in Threads, WriteChunk(t)
    PROVE  SessionInv'
<1> DEFINE o == op[t]
           n == Parts[o.tok]
           c == encode_chunk(o.idx, n, o.gen, o.tok)
           new == [o EXCEPT !.idx = o.idx + 1, !.do = IF o.idx + 1 = n THEN "sweep" ELSE "write"]
<1>1. /\ o.do = "write" /\ o.do # "idle" /\ Continue(t, new)
      /\ store' = [store EXCEPT ![o.idx] = c]
  BY DEF WriteChunk
<1>2. /\ o \in Progress /\ o.idx \in Idx /\ o.idx \in Nat /\ 0 \in Idx /\ Idx \subseteq Nat /\ o.gen \in Nat
      /\ store \in Stores /\ o.gen > 0 /\ o.tok \in Tokens /\ o.idx < n /\ n \in Nat /\ n > 0
  <2>1. o \in Progress /\ store \in Stores /\ OpOK(o)
    BY DEF ChunkInv, ChunkTypeOK, Stores
  <2>2. o.idx \in Idx /\ 0 \in Idx /\ Idx \subseteq Nat /\ o.gen \in Nat
    BY <2>1, ChunkAssumptions DEF Progress, Idx, GAP_TOLERANCE
  <2>3. o.gen \in 1..Len(written) /\ o.tok = written[o.gen] /\ o.idx < n
    BY <1>1, <2>1 DEF OpOK
  <2>4. o.tok \in Tokens /\ o.gen > 0
    BY <2>3 DEF ChunkInv, ChunkTypeOK
  <2>5. n \in Nat /\ n > 0
    BY <2>4, ChunkAssumptions
  <2> QED  BY <2>1, <2>2, <2>3, <2>4, <2>5
<1>3. o.why = "save" /\ Stored(store, o, o.idx) /\ \A j \in Idx : j >= o.idx => store[j].gen # o.gen
  BY <1>1 DEF SessionInv, Mid
<1>4. /\ new.idx = o.idx + 1 /\ new.why = "save" /\ new.tok = o.tok /\ new.gen = o.gen
      /\ new.do = IF o.idx + 1 = n THEN "sweep" ELSE "write"
  BY <1>2, <1>3 DEF Progress
<1>5. \A j \in Idx : store'[j] = IF j = o.idx THEN c ELSE store[j]
  BY <1>1, <1>2 DEF Stores
<1>6. \A j \in Idx : j < o.idx + 1 => store'[j] = encode_chunk(j, n, o.gen, o.tok)
  <2> TAKE j \in Idx
  <2> HAVE j < o.idx + 1
  <2>1. j = o.idx \/ j < o.idx
    BY <1>2
  <2> QED  BY <1>3, <1>5, <2>1 DEF Stored
<1>7. \A j \in Idx : j >= o.idx + 1 => store'[j].gen # o.gen
  BY <1>2, <1>3, <1>5
<1>8. Stored(store', new, new.idx) /\ (new.idx = n => Stored(store', new, Parts[new.tok]))
  BY <1>4, <1>6 DEF Stored
<1>9. Shape(store')
  <2>1. store'[0] = encode_chunk(0, n, o.gen, o.tok)
    BY <1>2, <1>6
  <2>2. store'[0].marker = "azapp2"
    BY <2>1, EncodeParts
  <2> QED  BY <2>2 DEF Shape
<1> HIDE DEF new
<1>10. Mid(store', new, found[Home[t]])
  <2>1. CASE o.idx + 1 = n
    <3>1. new.do = "sweep" /\ new.tok \in Tokens /\ new.gen > 0 /\ new.idx >= Parts[new.tok]
          /\ Stored(store', new, Parts[new.tok])
      BY <1>2, <1>4, <1>8, <2>1
    <3> QED  BY <1>4, <3>1 DEF Mid
  <2>2. CASE o.idx + 1 # n
    <3>1. new.do = "write" /\ new.idx # 0 /\ Stored(store', new, new.idx)
          /\ \A j \in Idx : j >= new.idx => store'[j].gen # new.gen
      BY <1>2, <1>4, <1>7, <1>8, <2>2
    <3> QED  BY <1>4, <3>1 DEF Mid
  <2> QED  BY <2>1, <2>2
<1> QED  BY <1>1, <1>4, <1>9, <1>10, ContinueMid

\* Returning as Return does, which reports no load as successful.
LEMMA ReturnsMid ==
    ASSUME Alone, ChunkInv, SessionInv, NEW t \in Threads, op[t].do # "idle", store' = store,
           NEW what, NEW res, Return(t, what, res), what # "crash", what # "load" \/ res # "ok",
           what = "save" =>
              \/ res = "ok" /\ Loaded(store) = Whole(op[t].tok)
              \/ res = "refused" /\ Loaded(store) = found[Home[t]]
              \/ res = "torn" /\ Loaded(store) = NoSession
    PROVE  SessionInv'
<1> DEFINE r == Report(what, res, IF what = "save" THEN op[t].tok ELSE NoTok, NoSession, 0)
<1>1. /\ op' = [op EXCEPT ![t] = Idle] /\ last' = [last EXCEPT ![Home[t]] = r] /\ found' = found
      /\ lock' = [lock EXCEPT ![Home[t]] = Free]
  BY DEF Return
<1>2. r.of = what /\ r.res = res /\ (what = "save" => r.tok = op[t].tok)
  BY DEF Report
<1> HIDE DEF r
<1> QED  BY <1>1, <1>2, ReturnMid

\* What the invariants say of a thread at work.
LEMMA AtWork ==
    ASSUME ChunkInv, SessionInv, NEW t \in Threads
    PROVE  /\ op[t] \in Progress /\ OpOK(op[t]) /\ Mid(store, op[t], found[Home[t]])
           /\ store \in Stores /\ op[t].idx \in Idx /\ op[t].idx \in Nat /\ 0 \in Idx
           /\ op[t].gen \in Nat /\ Shape(store) /\ found[Home[t]] \in Sessions
<1>1. op[t] \in Progress /\ OpOK(op[t]) /\ store \in Stores
  BY DEF ChunkInv, ChunkTypeOK, Stores
<1>2. Mid(store, op[t], found[Home[t]]) /\ Shape(store)
  BY DEF SessionInv
<1>3. op[t].idx \in Idx /\ op[t].idx \in Nat /\ 0 \in Idx /\ op[t].gen \in Nat
  BY <1>1, ChunkAssumptions DEF Progress, Idx, GAP_TOLERANCE
<1>4. found[Home[t]] \in Sessions
  BY ChunkAssumptions DEF SessionInv
<1> QED  BY <1>1, <1>2, <1>3, <1>4

\* A store whose chunk 0 is gone is no session, and of no older version.
LEMMA NoFirstChunk ==
    ASSUME NEW s \in Stores, s[0] = NoEntry
    PROVE  Loaded(s) = NoSession /\ Shape(s)
BY LoadedFacts DEF Shape

LEMMA WriteFailsMid ==
    ASSUME Alone, ChunkInv, SessionInv, NEW t \in Threads, WriteFails(t)
    PROVE  SessionInv'
<1> DEFINE o == op[t]
           new == [o EXCEPT !.do = "delete", !.why = "rollback", !.idx = 0]
<1>1. o.do = "write" /\ o.do # "idle" /\ store' = store
  BY DEF WriteFails
<1>2. o \in Progress /\ OpOK(o) /\ Mid(store, o, found[Home[t]]) /\ store \in Stores /\ Shape(store)
  BY AtWork
<1>3. CASE o.idx = 0
  <2>1. Return(t, "save", "refused")
    BY <1>3 DEF WriteFails
  <2>2. Loaded(store) = found[Home[t]]
    BY <1>1, <1>2, <1>3 DEF Mid
  <2> QED  BY <1>1, <2>1, <2>2, ReturnsMid
<1>4. CASE o.idx # 0
  <2>1. Continue(t, new)
    BY <1>4 DEF WriteFails
  <2>2. o.gen \in 1..Len(written) /\ o.tok = written[o.gen] /\ o.idx < Parts[o.tok]
    BY <1>1, <1>2 DEF OpOK
  <2>3. o.tok \in Tokens
    BY <2>2 DEF ChunkInv, ChunkTypeOK
  <2>4. Loaded(store) = NoSession
    BY <1>1, <1>2, <1>4, <2>2, <2>3, HalfWritten
  <2>5. new.do = "delete" /\ new.why = "rollback" /\ new.idx = 0
    BY <1>2 DEF Progress
  <2> HIDE DEF new
  <2>6. Mid(store', new, found[Home[t]])
    BY <1>1, <2>4, <2>5 DEF Mid
  <2> QED  BY <1>1, <1>2, <2>1, <2>5, <2>6, ContinueMid
<1> QED  BY <1>3, <1>4

LEMMA SweepMid ==
    ASSUME Alone, ChunkInv, SessionInv, NEW t \in Threads, SweepTail(t) \/ SweepFails(t)
    PROVE  SessionInv'
<1> DEFINE o == op[t]
           new == [o EXCEPT !.idx = o.idx + 1]
<1>1. o.do = "sweep" /\ o.do # "idle"
  BY DEF SweepTail, SweepFails
<1>2. /\ o \in Progress /\ Mid(store, o, found[Home[t]]) /\ store \in Stores /\ Shape(store)
      /\ o.idx \in Idx /\ o.idx \in Nat /\ o.gen \in Nat /\ 0 \in Idx
  BY AtWork
<1>3. /\ o.why = "save" /\ o.tok \in Tokens /\ o.gen > 0
      /\ o.idx >= Parts[o.tok] /\ Stored(store, o, Parts[o.tok])
  BY <1>1, <1>2 DEF Mid
<1>4. CASE Return(t, "save", "ok") /\ store' = store
  BY <1>1, <1>2, <1>3, <1>4, WrittenIsWhole, ReturnsMid
<1>5. CASE Continue(t, new) /\ store' = [store EXCEPT ![o.idx] = NoEntry]
  <2>1. Parts[o.tok] \in Nat /\ Parts[o.tok] > 0 /\ Idx \subseteq Int
    BY <1>3, ChunkAssumptions DEF Idx
  <2>2. \A j \in Idx : j < Parts[o.tok] => store'[j] = store[j]
    BY <1>2, <1>3, <1>5, <2>1 DEF Stores
  <2>3. new.do = "sweep" /\ new.why = "save" /\ new.tok = o.tok /\ new.gen = o.gen /\ new.idx = o.idx + 1
    BY <1>1, <1>2, <1>3 DEF Progress
  <2> HIDE DEF new
  <2>4. Stored(store', new, Parts[new.tok]) /\ new.idx >= Parts[new.tok]
    BY <1>2, <1>3, <2>1, <2>2, <2>3 DEF Stored
  <2>5. Mid(store', new, found[Home[t]])
    BY <1>3, <2>3, <2>4 DEF Mid
  <2>6. store'[0] = encode_chunk(0, Parts[o.tok], o.gen, o.tok)
    <3>1. 0 < Parts[o.tok]
      BY <2>1
    <3> QED  BY <1>2, <1>3, <2>2, <3>1 DEF Stored
  <2>7. Shape(store')
    <3>1. store'[0].marker = "azapp2"
      BY <2>6, EncodeParts
    <3> QED  BY <3>1 DEF Shape
  <2> QED  BY <1>1, <1>5, <2>3, <2>5, <2>7, ContinueMid
<1> QED  BY <1>4, <1>5 DEF SweepTail, SweepFails

LEMMA DeleteMid ==
    ASSUME Alone, ChunkInv, SessionInv, NEW t \in Threads, DeleteChunk(t) \/ DeleteFails(t)
    PROVE  SessionInv'
<1> DEFINE o == op[t]
<1>1. o.do = "delete" /\ o.do # "idle"
  BY DEF DeleteChunk, DeleteFails
<1>2. /\ o \in Progress /\ Mid(store, o, found[Home[t]]) /\ store \in Stores /\ Shape(store)
      /\ o.idx \in Idx /\ o.idx \in Nat /\ 0 \in Idx
  BY AtWork
<1>3. /\ o.why \in {"delete", "purge", "rollback"}
      /\ o.why = "rollback" => Loaded(store) = NoSession
      /\ o.why # "rollback" /\ o.idx = 0 => Loaded(store) = found[Home[t]]
      /\ o.idx > 0 => store[0] = NoEntry
  BY <1>1, <1>2 DEF Mid
<1>4. ASSUME NEW res, DeleteEnds(t, res), store' = store PROVE SessionInv'
  <2>1. CASE o.why = "rollback"
    BY <1>1, <1>3, <1>4, <2>1, ReturnsMid DEF DeleteEnds
  <2>2. CASE o.why # "rollback"
    BY <1>1, <1>3, <1>4, <2>2, ReturnsMid DEF DeleteEnds
  <2> QED  BY <2>1, <2>2
<1>5. ASSUME NEW new, Continue(t, new), new.do = "delete", new.why = o.why, new.idx = o.idx + 1,
             store' \in Stores, store'[0] = NoEntry
      PROVE  SessionInv'
  <2>1. Loaded(store') = NoSession /\ Shape(store')
    BY <1>5, NoFirstChunk
  <2>2. Mid(store', new, found[Home[t]])
    BY <1>2, <1>3, <1>5, <2>1 DEF Mid
  <2> QED  BY <1>1, <1>5, <2>1, <2>2, ContinueMid
<1>6. CASE store[o.idx] # NoEntry /\ DeleteChunk(t)
  <2> DEFINE new == [o EXCEPT !.idx = o.idx + 1, !.missing = 0]
  <2>1. Continue(t, new) /\ store' = [store EXCEPT ![o.idx] = NoEntry]
    BY <1>6 DEF DeleteChunk
  <2>2. new.do = "delete" /\ new.why = o.why /\ new.idx = o.idx + 1
    BY <1>1, <1>2 DEF Progress
  <2>3. store' \in Stores /\ store'[0] = NoEntry
    BY <1>2, <1>3, <2>1 DEF Stores
  <2> HIDE DEF new
  <2> QED  BY <1>5, <2>1, <2>2, <2>3
<1>7. CASE store[o.idx] = NoEntry /\ DeleteChunk(t)
  <2> DEFINE new == [o EXCEPT !.idx = o.idx + 1, !.missing = o.missing + 1]
  <2>1. store' = store /\ (DeleteEnds(t, "ok") \/ Continue(t, new))
    BY <1>7 DEF DeleteChunk
  <2>2. new.do = "delete" /\ new.why = o.why /\ new.idx = o.idx + 1
    BY <1>1, <1>2 DEF Progress
  <2>3. store[0] = NoEntry
    BY <1>2, <1>3, <1>7
  <2> HIDE DEF new
  <2> QED  BY <1>2, <1>4, <1>5, <2>1, <2>2, <2>3
<1>8. CASE DeleteFails(t)
  BY <1>4, <1>8 DEF DeleteFails
<1> QED  BY <1>6, <1>7, <1>8

\* One turn of the loop keeps what a load has read in step with the store.
LEMMA ReadingGoesOn ==
    ASSUME NEW s \in Stores, NEW o \in Progress, Reading(s, o), NEW new,
           o.idx = 0 => ~ o.mismatch,
           s[0].marker = "azapp2" => s[0].gen > 0 /\ s[0].total > 0,
           ~ (o.gen > 0 /\ o.declared = o.idx), s[o.idx] # NoEntry,
           new.idx = o.idx + 1,
           \/ /\ o.idx = 0
              /\ new.got = <<Payload(s[o.idx])>> /\ new.mismatch = o.mismatch
              /\ new.declared = IF s[o.idx].marker = "data" THEN -1 ELSE s[o.idx].total
              /\ new.gen = IF s[o.idx].marker = "azapp2" THEN s[o.idx].gen ELSE 0
           \/ /\ o.idx # 0 /\ new.declared = o.declared /\ new.gen = o.gen
              /\ \/ o.gen = 0 /\ new.got = Append(o.got, Raw(s[o.idx])) /\ new.mismatch = o.mismatch
                 \/ /\ o.gen # 0 /\ s[o.idx].gen = o.gen
                    /\ new.got = Append(o.got, Payload(s[o.idx])) /\ new.mismatch = o.mismatch
                 \/ o.gen # 0 /\ s[o.idx].gen # o.gen /\ new.got = o.got /\ new.mismatch = TRUE
    PROVE  Reading(s, new)
<1> DEFINE n == o.idx
<1>1. /\ n \in Idx /\ n \in Nat /\ o.gen \in Nat /\ o.declared \in Int /\ o.mismatch \in BOOLEAN
      /\ 0 \in Idx /\ Idx \subseteq Nat
      /\ \A i \in Idx : i < n + 1 <=> i < n \/ i = n
      /\ \A i \in Idx : s[i] \in Chunks \cup {NoEntry}
  BY ChunkAssumptions DEF Progress, Stores, Idx, GAP_TOLERANCE
<1>2. new.idx # 0 /\ new.idx > 0 /\ new.idx = n + 1
  BY <1>1
<1>3. CASE n = 0
  <2>1. s[0] # NoEntry /\ s[0] \in Chunks
    BY <1>1, <1>3
  <2>2. s[0].gen \in Nat /\ s[0].total \in Nat
    BY <2>1, ChunkAssumptions DEF Chunks
  <2>3. \A j \in Idx : j < 1 <=> j = 0
    BY <1>1
  <2>4. /\ new.idx = 1 /\ new.got = Payloads(s, 1) /\ new.got = Run(s, 1) /\ ~ new.mismatch
        /\ new.declared = (IF s[0].marker = "data" THEN -1 ELSE s[0].total)
        /\ new.gen = (IF s[0].marker = "azapp2" THEN s[0].gen ELSE 0)
    <3>1. <<Payload(s[0])>> = Payloads(s, 1) /\ <<Payload(s[0])>> = Run(s, 1)
      BY OneMoreRead, 1 \in Nat \ {0}
    <3> QED  BY <1>3, <3>1
  <2>5. \A j \in Idx : j < 1 => s[j] # NoEntry
    BY <2>1, <2>3
  <2>6. s[0].marker = "azapp2" =>
          new.idx <= new.declared /\ ~ \E j \in Idx : j < 1 /\ s[j].gen # new.gen
    BY <2>2, <2>3, <2>4
  <2> QED  BY <2>4, <2>5, <2>6 DEF Reading
<1>4. CASE n # 0
  <2>1. /\ \A j \in Idx : j < n => s[j] # NoEntry
        /\ o.gen = IF s[0].marker = "azapp2" THEN s[0].gen ELSE 0
        /\ o.declared = IF s[0].marker = "data" THEN -1 ELSE s[0].total
    BY <1>1, <1>4 DEF Reading
  <2>2. /\ \A j \in Idx : j < n + 1 => s[j] # NoEntry
        /\ new.gen = IF s[0].marker = "azapp2" THEN s[0].gen ELSE 0
        /\ new.declared = IF s[0].marker = "data" THEN -1 ELSE s[0].total
    BY <1>1, <1>4, <2>1
  <2>3. CASE s[0].marker = "azapp2"
    <3>1. /\ n <= o.declared
          /\ o.mismatch <=> \E j \in Idx : j < n /\ s[j].gen # o.gen
          /\ ~o.mismatch => o.got = Payloads(s, n)
      BY <1>1, <1>4, <2>3 DEF Reading
    <3>2. o.gen > 0 /\ o.gen # 0
      BY <1>1, <2>1, <2>3
    <3>3. n + 1 <= new.declared
      <4>1. n # o.declared /\ n <= o.declared /\ new.declared = o.declared
        BY <1>4, <3>1, <3>2
      <4> QED  BY <1>1, <4>1
    <3>4. CASE s[n].gen = o.gen
      <4>1. new.gen = o.gen /\ new.mismatch = o.mismatch /\ new.got = Append(o.got, Payload(s[n]))
        BY <1>4, <3>2, <3>4
      <4>2. new.mismatch <=> \E j \in Idx : j < n + 1 /\ s[j].gen # new.gen
        BY <1>1, <3>1, <3>4, <4>1
      <4>3. ~ new.mismatch => new.got = Payloads(s, n + 1)
        BY <1>1, <1>4, <3>1, <4>1, OneMoreRead
      <4> QED  BY <1>2, <2>2, <2>3, <3>3, <4>2, <4>3 DEF Reading
    <3>5. CASE s[n].gen # o.gen
      <4>1. new.gen = o.gen /\ new.mismatch = TRUE
        BY <1>4, <3>2, <3>5
      <4>2. \E j \in Idx : j < n + 1 /\ s[j].gen # new.gen
        BY <1>1, <3>5, <4>1
      <4> QED  BY <1>2, <2>2, <2>3, <3>3, <4>1, <4>2 DEF Reading
    <3> QED  BY <3>4, <3>5
  <2>4. CASE s[0].marker # "azapp2"
    <3>1. o.gen = 0 /\ ~ o.mismatch /\ o.got = Run(s, n)
      BY <1>1, <1>4, <2>1, <2>4 DEF Reading
    <3>2. new.got = Append(o.got, Raw(s[n])) /\ ~ new.mismatch
      BY <1>4, <3>1
    <3>3. new.got = Run(s, n + 1)
      BY <1>1, <1>4, <3>1, <3>2, OneMoreRead
    <3> QED  BY <1>2, <2>2, <2>4, <3>2, <3>3 DEF Reading
  <2> QED  BY <2>3, <2>4
<1> QED  BY <1>3, <1>4

LEMMA ReadFailsMid ==
    ASSUME Alone, ChunkInv, SessionInv, NEW t \in Threads, ReadFails(t)
    PROVE  SessionInv'
<1>1. op[t].do = "load" /\ Return(t, op[t].why, "err") /\ store' = store
  BY DEF ReadFails
<1>2. op[t].why \in {"load", "purge"}
  BY <1>1, AtWork DEF Mid
<1> QED  BY <1>1, <1>2, ReturnsMid

LEMMA ReadChunkMid ==
    ASSUME Alone, ChunkInv, SessionInv, NEW t \in Threads, ReadChunk(t)
    PROVE  SessionInv'
<1> DEFINE o == op[t]
           c == store[o.idx]
           f == found[Home[t]]
           ends == (o.gen > 0 /\ o.declared = o.idx) \/ c = NoEntry
<1>1. o.do = "load" /\ o.do # "idle" /\ store' = store
  BY DEF ReadChunk, LoadTurn
<1>2. /\ o \in Progress /\ OpOK(o) /\ Mid(store, o, f) /\ store \in Stores /\ Shape(store)
      /\ o.idx \in Idx /\ o.idx \in Nat /\ 0 \in Idx /\ o.gen \in Nat /\ f \in Sessions
  BY AtWork
<1>3. o.why \in {"load", "purge"} /\ Loaded(store) = f /\ Reading(store, o)
  BY <1>1, <1>2 DEF Mid
<1>4. (o.idx = 0 => o.gen = 0) /\ (o.idx = 0 => ~ o.mismatch)
  BY <1>1, <1>2 DEF OpOK
<1>5. store[0].marker = "azapp2" => store[0].gen > 0 /\ store[0].total > 0
  <2> HAVE store[0].marker = "azapp2"
  <2>1. store[0] \in Chunks /\ EntryOK(store[0], 0)
    BY <1>2 DEF ChunkInv, Stores, NoEntry, Chunk
  <2>2. store[0].gen > 0 /\ store[0].total = Parts[store[0].tok] /\ store[0].tok \in Tokens
    BY <2>1 DEF EntryOK, Chunks
  <2> QED  BY <2>2, ChunkAssumptions
<1>6. CASE ends
  <2>1. LoadEnds(t, o)
    BY <1>6 DEF ReadChunk, LoadTurn
  <2>2. LoadResult(o) = f /\ LoadResult(o) = Loaded(store)
    BY <1>2, <1>3, <1>4, <1>5, <1>6, ReadingEnds
  <2>3. CASE o.why = "load"
    <3> DEFINE r == Report("load", "ok", NoTok, LoadResult(o), o.gen)
    <3>1. op' = [op EXCEPT ![t] = Idle] /\ last' = [last EXCEPT ![Home[t]] = r] /\ found' = found
          /\ lock' = [lock EXCEPT ![Home[t]] = Free]
      BY <2>1, <2>3 DEF LoadEnds
    <3>2. r.of = "load" /\ r.got = Loaded(store) /\ r.got \in Sessions
      BY <1>2, <2>2 DEF Report
    <3> HIDE DEF r
    <3> QED  BY <1>1, <3>1, <3>2, ReturnMid
  <2>4. CASE o.why # "load" /\ Return(t, "purge", "superseded")
    BY <1>1, <2>4, ReturnsMid
  <2>5. CASE o.why # "load" /\ Continue(t, [o EXCEPT !.do = "delete", !.idx = 0])
    <3> DEFINE new == [o EXCEPT !.do = "delete", !.idx = 0]
    <3>1. new.do = "delete" /\ new.idx = 0 /\ new.why = o.why /\ Continue(t, new)
      BY <1>2, <2>5 DEF Progress
    <3> HIDE DEF new
    <3>2. Mid(store', new, f)
      BY <1>1, <1>3, <2>5, <3>1 DEF Mid
    <3> QED  BY <1>1, <1>2, <3>1, <3>2, ContinueMid
  <2> QED  BY <2>1, <2>3, <2>4, <2>5 DEF LoadEnds
<1>7. CASE ~ ends
  <2> DEFINE next == [o EXCEPT !.idx = o.idx + 1]
             first == [next EXCEPT !.got = <<Payload(c)>>,
                                   !.declared = IF c.marker = "data" THEN -1 ELSE c.total,
                                   !.gen = IF c.marker = "azapp2" THEN c.gen ELSE 0]
             raw == [next EXCEPT !.got = Append(o.got, Raw(c))]
             more == [next EXCEPT !.got = Append(o.got, Payload(c))]
             mixed == [next EXCEPT !.mismatch = TRUE]
             Common(new) == new.do = "load" /\ new.why = o.why /\ new.idx = o.idx + 1
             Same(new) == new.declared = o.declared /\ new.gen = o.gen
  <2>1. ASSUME NEW new, Common(new), Continue(t, new), Reading(store, new) PROVE SessionInv'
    <3>1. Mid(store', new, f)
      BY <1>1, <1>3, <2>1 DEF Mid
    <3> QED  BY <1>1, <1>2, <2>1, <3>1, ContinueMid
  <2>2. /\ next.do = "load" /\ next.why = o.why /\ next.idx = o.idx + 1 /\ next.got = o.got
        /\ next.declared = o.declared /\ next.gen = o.gen /\ next.mismatch = o.mismatch
        /\ next \in [{"do", "why", "idx", "tok", "gen", "declared", "mismatch", "got", "missing"} -> {next[x] :
              x \in {"do", "why", "idx", "tok", "gen", "declared", "mismatch", "got", "missing"}}]
    BY <1>1, <1>2 DEF Progress
  <2>3. /\ Common(first) /\ first.mismatch = o.mismatch /\ first.got = <<Payload(c)>>
        /\ first.declared = (IF c.marker = "data" THEN -1 ELSE c.total)
        /\ first.gen = (IF c.marker = "azapp2" THEN c.gen ELSE 0)
    <3> HIDE DEF next, c
    <3> QED  BY <2>2
  <2>4. Common(raw) /\ Same(raw) /\ raw.mismatch = o.mismatch /\ raw.got = Append(o.got, Raw(c))
    <3> HIDE DEF next, c
    <3> QED  BY <2>2
  <2>5. Common(more) /\ Same(more) /\ more.mismatch = o.mismatch /\ more.got = Append(o.got, Payload(c))
    <3> HIDE DEF next, c
    <3> QED  BY <2>2
  <2>6. Common(mixed) /\ Same(mixed) /\ mixed.mismatch = TRUE /\ mixed.got = o.got
    <3> HIDE DEF next, c
    <3> QED  BY <2>2
  <2>7. \/ o.idx = 0 /\ Continue(t, first)
        \/ o.idx # 0 /\ o.gen = 0 /\ Continue(t, raw)
        \/ o.idx # 0 /\ o.gen # 0 /\ c.gen = o.gen /\ Continue(t, more)
        \/ o.idx # 0 /\ o.gen # 0 /\ c.gen # o.gen /\ Continue(t, mixed)
    BY <1>7 DEF ReadChunk, LoadTurn
  <2>8. ~ (o.gen > 0 /\ o.declared = o.idx) /\ c # NoEntry
    BY <1>7
  <2> HIDE DEF next, first, raw, more, mixed
  <2>9. CASE o.idx = 0 /\ Continue(t, first)
    <3>1. Reading(store, first)
      BY <1>2, <1>3, <1>4, <1>5, <2>3, <2>8, <2>9, ReadingGoesOn
    <3> QED  BY <2>1, <2>3, <2>9, <3>1
  <2>10. CASE o.idx # 0 /\ o.gen = 0 /\ Continue(t, raw)
    <3>1. Reading(store, raw)
      BY <1>2, <1>3, <1>4, <1>5, <2>4, <2>8, <2>10, ReadingGoesOn
    <3> QED  BY <2>1, <2>4, <2>10, <3>1
  <2>11. CASE o.idx # 0 /\ o.gen # 0 /\ c.gen = o.gen /\ Continue(t, more)
    <3>1. Reading(store, more)
      BY <1>2, <1>3, <1>4, <1>5, <2>5, <2>8, <2>11, ReadingGoesOn
    <3> QED  BY <2>1, <2>5, <2>11, <3>1
  <2>12. CASE o.idx # 0 /\ o.gen # 0 /\ c.gen # o.gen /\ Continue(t, mixed)
    <3>1. Reading(store, mixed)
      BY <1>2, <1>3, <1>4, <1>5, <2>6, <2>8, <2>12, ReadingGoesOn
    <3> QED  BY <2>1, <2>6, <2>12, <3>1
  <2> QED  BY <2>7, <2>9, <2>10, <2>11, <2>12
<1> QED  BY <1>6, <1>7

\* A process that dies leaves the session found, the one written, or none.
LEMMA CrashMid ==
    ASSUME Alone, ChunkInv, SessionInv, NEW p \in Procs, Crash(p)
    PROVE  SessionInv'
<1> DEFINE w == lock[p]
           r == Report("crash", op[w].why, op[w].tok, NoSession, 0)
<1>1. /\ op' = [t \in Threads |-> IF Home[t] = p THEN Idle ELSE op[t]]
      /\ lock \in [Procs -> Threads \cup {Free}] /\ lock' = [lock EXCEPT ![p] = Free]
      /\ last' = [last EXCEPT ![p] = r] /\ store' = store /\ found' = found
      /\ last \in [Procs -> Reports] /\ w \in Threads
  BY DEF Crash, ChunkInv, ChunkTypeOK
<1>2. Idle.do = "idle" /\ r.of = "crash" /\ r.res = op[w].why /\ r.tok = op[w].tok
  BY DEF Idle, Work, Report
<1>3. \A t \in Threads : op'[t].do = "idle"
  BY <1>1, <1>2, ChunkAssumptions DEF Alone
<1>4. \A t \in Threads : Mid(store', op'[t], found'[Home[t]])
  BY <1>3, IdleMid
<1>5. \A q \in Procs : q = p /\ last'[q] = r
  BY <1>1 DEF Alone
<1>6. found[Home[w]] = found[p]
  BY <1>1, ChunkAssumptions DEF Alone
<1> DEFINE o == op[w]
           f == found[p]
<1>7. /\ o \in Progress /\ OpOK(o) /\ Mid(store, o, f) /\ store \in Stores /\ Shape(store)
      /\ o.idx \in Idx /\ o.idx \in Nat /\ 0 \in Idx /\ o.gen \in Nat
  BY <1>1, <1>6, AtWork
<1>13. o.do # "idle"
  BY <1>1, ChunkAssumptions DEF SessionInv, Alone
<1> HIDE DEF w, r
<1>8. \/ Loaded(store) \in {f, NoSession}
      \/ o.why = "save" /\ Loaded(store) = Whole(o.tok)
      \/ o.why = "load"
  <2>1. CASE o.do = "load"
    BY <1>7, <2>1 DEF Mid
  <2>2. CASE o.do = "write"
    <3>1. o.gen \in 1..Len(written) /\ o.tok = written[o.gen] /\ o.idx < Parts[o.tok]
      BY <1>7, <2>2 DEF OpOK
    <3>2. o.tok \in Tokens
      BY <3>1 DEF ChunkInv, ChunkTypeOK
    <3>3. CASE o.idx = 0
      BY <1>7, <2>2, <3>3 DEF Mid
    <3>4. CASE o.idx # 0
      BY <1>7, <2>2, <3>1, <3>2, <3>4, HalfWritten
    <3> QED  BY <3>3, <3>4
  <2>3. CASE o.do = "sweep"
    BY <1>7, <2>3, WrittenIsWhole DEF Mid
  <2>4. CASE o.do = "delete"
    <3>1. CASE o.idx = 0
      BY <1>7, <2>4, <3>1 DEF Mid
    <3>2. CASE o.idx # 0
      <4>1. o.idx > 0
        BY <1>7, <3>2
      <4>2. store[0] = NoEntry
        BY <1>7, <2>4, <4>1 DEF Mid
      <4> QED  BY <1>7, <4>2, NoFirstChunk
    <3> QED  BY <3>1, <3>2
  <2> QED  BY <1>7, <1>13, <2>1, <2>2, <2>3, <2>4 DEF Progress, Doings
<1>9. CrashIsClean'
  BY <1>1, <1>2, <1>5, <1>8 DEF CrashIsClean
<1>10. LoadIsExact' /\ SaveReportIsTrue'
  BY <1>2, <1>5 DEF LoadIsExact, SaveReportIsTrue
<1>11. (\A t \in Threads : Mid(store, op[t], found[Home[t]]))'
  BY <1>4
<1>12. (Shape(store))' /\ found' \in [Procs -> Sessions]
  BY <1>1 DEF SessionInv
<1>14. \A t \in Threads : op'[t].do # "idle" <=> lock'[Home[t]] = t
  BY <1>1, <1>3, <1>5, ChunkAssumptions
<1> QED  BY <1>9, <1>10, <1>11, <1>12, <1>14 DEF SessionInv

\* The invariant of one instance, whatever failed, died or was left behind by an
\* earlier version.
THEOREM SessionInvariance ==
    ASSUME Alone
    PROVE  Spec => []SessionInv
<1>1. Init => SessionInv
  <2> SUFFICES ASSUME Init PROVE SessionInv
    OBVIOUS
  <2>1. 0 \in Idx /\ Idle.do = "idle" /\ NoReport.of = "none"
    BY ChunkAssumptions DEF Idx, GAP_TOLERANCE, Idle, Work, NoReport, Report
  <2>2. found \in [Procs -> Sessions]
    BY DEF Init, Sessions
  <2>3. \A t \in Threads : op[t].do = "idle" /\ lock[Home[t]] = Free /\ lock[Home[t]] # t
    BY <2>1, ChunkAssumptions DEF Init
  <2>4. Shape(store)
    BY <2>1, ChunkAssumptions DEF Init, Shape
  <2>5. \A t \in Threads : Mid(store, op[t], found[Home[t]])
    BY <2>3, IdleMid
  <2>6. LoadIsExact /\ SaveReportIsTrue /\ CrashIsClean
    BY <2>1 DEF Init, LoadIsExact, SaveReportIsTrue, CrashIsClean
  <2> QED  BY <2>2, <2>3, <2>4, <2>5, <2>6 DEF SessionInv
<1>2. ChunkInv /\ SessionInv /\ [Next]_vars => SessionInv'
  <2> SUFFICES ASSUME ChunkInv, SessionInv, [Next]_vars PROVE SessionInv'
    OBVIOUS
  <2>1. CASE UNCHANGED vars
    <3>1. /\ store' = store /\ lock' = lock /\ op' = op /\ last' = last /\ found' = found
      BY <2>1 DEF vars
    <3>2. (LoadIsExact /\ SaveReportIsTrue /\ CrashIsClean)'
      BY <3>1 DEF SessionInv, LoadIsExact, SaveReportIsTrue, CrashIsClean, Undisturbed
    <3>3. (Shape(store))' /\ (\A t \in Threads : Mid(store, op[t], found[Home[t]]))'
      BY <3>1 DEF SessionInv
    <3> QED  BY <3>1, <3>2, <3>3 DEF SessionInv
  <2>2. ASSUME NEW t \in Threads,
               Load(t) \/ Delete(t) \/ \E tok \in Tokens : Save(t, tok) \/ Purge(t, tok)
        PROVE  SessionInv'
    BY <2>2, StartsMid
  <2>3. ASSUME NEW t \in Threads, Step(t) \/ Fault(t) PROVE SessionInv'
    BY <2>3, WriteChunkMid, WriteFailsMid, SweepMid, DeleteMid, ReadChunkMid, ReadFailsMid DEF Step, Fault
  <2>4. ASSUME NEW p \in Procs, Crash(p) PROVE SessionInv'
    BY <2>4, CrashMid
  <2> QED  BY <2>1, <2>2, <2>3, <2>4 DEF Next
<1> QED  BY <1>1, <1>2, ChunkInvariance, PTL DEF Spec

\* With one instance a load returns what the quiescent store holds, and that is
\* nothing or one whole token (load_chunks).
THEOREM LoadsAreExact ==
    ASSUME Alone
    PROVE  Spec => []LoadIsExact
<1>1. SessionInv => LoadIsExact
  BY DEF SessionInv
<1> QED  BY <1>1, SessionInvariance, PTL

\* With one instance the next load finds what a save reported: the new token, the
\* previous session after a refusal, nothing after a half-done write (write_chunks).
THEOREM SaveReportsAreTrue ==
    ASSUME Alone
    PROVE  Spec => []SaveReportIsTrue
<1>1. SessionInv => SaveReportIsTrue
  BY DEF SessionInv
<1> QED  BY <1>1, SessionInvariance, PTL

\* With one instance a crash leaves the session found, the token being written, or
\* none: never a splice of two tokens (the generation of encode_chunk).
THEOREM CrashesAreClean ==
    ASSUME Alone
    PROVE  Spec => []CrashIsClean
<1>1. SessionInv => CrashIsClean
  BY DEF SessionInv
<1> QED  BY <1>1, SessionInvariance, PTL

=============================================================================
