---------------------------- MODULE RemoteInputs ----------------------------
(***************************************************************************)
(* Traces in an object store and the processes of one host that share its  *)
(* scratch directory (crates/sim-s3/src/lib.rs): players that fetch their  *)
(* inputs, check them and let every engine load them again (src/lib.rs,    *)
(* run_with_log_filter), and writers that capture or convert a trace and   *)
(* upload it (src/record.rs, src/inspect.rs).  The scratch file of an      *)
(* object has the same path in every process.                              *)
(*                                                                         *)
(* A content is a sequence of two pieces, the header with the config hash  *)
(* and the records, each named by the version it belongs to.  hf:// inputs *)
(* live in the hub library's own cache and are left out.                   *)
(***************************************************************************)
EXTENDS Integers, SequencesExt

CONSTANTS
  Uris, Basename,  \* s3:// objects, and the last segment of their keys
  Stored,          \* the objects there are at first, each with its version
  Inputs,          \* each player's replay inputs: some of the fields to objects
  Expect,          \* each player's --expect-config-hash, or NoHash
  Target,          \* each writer's object; a writer is also the version it writes
  HashOf,          \* the config hash in a version's header
  EngineCount

NoHash == "none"
NoObject == <<"absent">>
Hole == "hole"
Players == DOMAIN Inputs
Writers == DOMAIN Target
Procs == Players \cup Writers
Whole(v) == <<v, v>>

Fields == <<"replay_tokens", "replay_steps", "latency_trace">>

\* A player with no input, or no engine to give it to, reads nothing and is left out.
ASSUME RemoteAssumption ==
  /\ Players \cap Writers = {} /\ DOMAIN Expect = Players /\ DOMAIN Stored \subseteq Uris
  /\ \A p \in Players : /\ DOMAIN Inputs[p] \cap Range(Fields) # {}
                         /\ \A f \in DOMAIN Inputs[p] : Inputs[p][f] \in Uris
  /\ \A w \in Writers : Target[w] \in Uris
  /\ EngineCount \in Nat \ {0}

VARIABLES
  object,   \* what the store holds for each URI
  scratch,  \* the files of the scratch directory
  proc,     \* each process: pc, why it failed, its position and what it holds
  touched   \* history: another process with the same URI changed the file it relies on

remoteVars == <<object, scratch, proc, touched>>

\* scratch_path: a hash of the URI, taken to be injective, and the basename.
ScratchPath_Basename(u) == <<"sim-s3", Basename[u]>>
ScratchPath(u) == <<u, Basename[u]>>

Only(s, set) == FoldLeft(LAMBDA kept, x : IF x \in set THEN Append(kept, x) ELSE kept, <<>>, s)
Bind(f, x, value) == [y \in DOMAIN f \cup {x} |-> IF y = x THEN value ELSE f[y]]

InputsOf(p) == Only(Fields, DOMAIN Inputs[p])

RemoteInit ==
  /\ object = [u \in Uris |-> IF u \in DOMAIN Stored THEN Whole(Stored[u]) ELSE NoObject]
  /\ scratch = <<>>
  /\ proc = [p \in Procs |->
       [pc |-> IF p \in Players THEN "fetch" ELSE "create", why |-> "none", at |-> 1, offset |-> 0,
        got |-> IF p \in Players THEN <<>> ELSE Whole(p), fetched |-> <<>>, seen |-> {}]]
  /\ touched = [p \in Procs |-> FALSE]

Uri(p) == IF p \in Players THEN Inputs[p][InputsOf(p)[proc[p].at]] ELSE Target[p]

\* p relies on its scratch file of u.
Relies(p, u) ==
  \/ proc[p].pc \in {"write", "upload"} /\ Uri(p) = u
  \/ proc[p].pc \notin {"playing", "failed"} /\ u \in DOMAIN proc[p].fetched

Changes(p, u, content) ==
  /\ scratch' = Bind(scratch, ScratchPath(u), content)
  /\ touched' = [q \in Procs |-> touched[q] \/ (q # p /\ Relies(q, u))]

Fails(p, why) == proc' = [proc EXCEPT ![p].pc = "failed", ![p].why = why]

\* On to the next input, or to the reads.
Advance(p, after) ==
  proc' = [proc EXCEPT ![p] = [after EXCEPT !.at = IF @ < Len(InputsOf(p)) THEN @ + 1 ELSE 1,
                                            !.pc = IF after.at < Len(InputsOf(p)) THEN "fetch" ELSE "read"]]

-----------------------------------------------------------------------------
(* materialize_remote_inputs: each object is fetched once, into memory, and *)
(* then written to the scratch file with fs::write.                         *)

Get(p) ==
  /\ p \in Players /\ proc[p].pc = "fetch"
  /\ \/ Uri(p) \in DOMAIN proc[p].fetched /\ Advance(p, proc[p])
     \/ /\ Uri(p) \notin DOMAIN proc[p].fetched
        /\ IF object[Uri(p)] = NoObject THEN Fails(p, "absent")
           ELSE proc' = [proc EXCEPT ![p].pc = "create", ![p].got = object[Uri(p)]]
  /\ UNCHANGED <<object, scratch, touched>>

\* The file is created, or the one that is there truncated.
Create(p) ==
  /\ proc[p].pc = "create"
  /\ Changes(p, Uri(p), <<>>)
  /\ proc' = [proc EXCEPT ![p].pc = "write", ![p].offset = 0]
  /\ UNCHANGED object

\* A piece written at an offset: a file that was truncated meanwhile gets a hole.
Put(content, k, piece) ==
  [i \in 1 .. (IF k > Len(content) THEN k ELSE Len(content)) |->
     IF i = k THEN piece ELSE IF i <= Len(content) THEN content[i] ELSE Hole]

Write(p) ==
  LET k == proc[p].offset + 1 IN
  /\ proc[p].pc = "write" /\ k <= Len(proc[p].got)
  /\ Changes(p, Uri(p), Put(scratch[ScratchPath(Uri(p))], k, proc[p].got[k]))
  /\ proc' = [proc EXCEPT ![p].offset = k]
  /\ UNCHANGED object

\* The write is over: a player goes on, a writer has finished its file.
Written(p) ==
  /\ proc[p].pc = "write" /\ proc[p].offset = Len(proc[p].got)
  /\ IF p \in Players
     THEN Advance(p, [proc[p] EXCEPT !.fetched = Bind(@, Uri(p), proc[p].got)])
     ELSE proc' = [proc EXCEPT ![p].pc = "upload"]
  /\ UNCHANGED <<object, scratch, touched>>

\* The disk is full.
DiskFull(p) ==
  /\ proc[p].pc = "write" /\ Fails(p, "disk")
  /\ UNCHANGED <<object, scratch, touched>>

-----------------------------------------------------------------------------
(* What a player reads, in order: the latency trace, to validate it; each  *)
(* header, if a hash is expected; then every engine reads all its inputs.  *)

Latency(p) == Only(InputsOf(p), {"latency_trace"})
Records(fields) == [i \in DOMAIN fields |-> [part |-> "records", field |-> fields[i]]]
Headers(fields) == [i \in DOMAIN fields |-> [part |-> "header", field |-> fields[i]]]
EngineReads(p) == Records(Latency(p) \o Only(InputsOf(p), DOMAIN Inputs[p] \ {"latency_trace"}))

\* verify_config_hash reads each path once.
Verified(p) ==
  LET Object(i) == Inputs[p][InputsOf(p)[i]]
  IN Only(InputsOf(p), {InputsOf(p)[i] : i \in {i \in DOMAIN InputsOf(p) :
                                                \A j \in 1..(i - 1) : Object(j) # Object(i)}})

Checks(p) ==
  Records(Latency(p)) \o (IF Expect[p] = NoHash THEN <<>> ELSE Headers(Verified(p)))

Reads(p) ==
  LET each == EngineReads(p)
  IN [k \in 1..(Len(Checks(p)) + EngineCount * Len(each)) |->
        IF k <= Len(Checks(p)) THEN Checks(p)[k]
        ELSE each[1 + ((k - Len(Checks(p)) - 1) % Len(each))]]

Readable(content) == \E v \in DOMAIN HashOf : content = Whole(v)

HashMatches(p, content) ==
  content # <<>> /\ content[1] # Hole /\ HashOf[content[1]] = Expect[p]

\* A cut or mixed file may or may not be refused: a compressed one may end
\* anywhere, a plain one after any line.
Read(p) ==
  LET r == Reads(p)[proc[p].at]
      u == Inputs[p][r.field]
      content == scratch[ScratchPath(u)]
      seen == [uri |-> u, part |-> r.part, content |-> IF r.part = "header" THEN SubSeq(content, 1, 1) ELSE content]
  IN /\ p \in Players /\ proc[p].pc = "read"
     /\ \/ /\ r.part = "header" /\ ~HashMatches(p, content) /\ Fails(p, "hash")
        \/ /\ r.part = "records" /\ ~Readable(content) /\ Fails(p, "unreadable")
        \/ /\ r.part = "header" => HashMatches(p, content)
           /\ proc' = [proc EXCEPT ![p].seen = @ \cup {seen}, ![p].at = @ + 1,
                                   ![p].pc = IF proc[p].at = Len(Reads(p)) THEN "playing" ELSE "read"]
     /\ UNCHANGED <<object, scratch, touched>>

-----------------------------------------------------------------------------
(* TraceUri::upload: the file is read and put as one object.               *)

Upload(w) ==
  /\ proc[w].pc = "upload"
  /\ proc' = [proc EXCEPT ![w].pc = "put", ![w].got = scratch[ScratchPath(Target[w])]]
  /\ UNCHANGED <<object, scratch, touched>>

PutObject(w) ==
  /\ proc[w].pc = "put"
  /\ object' = [object EXCEPT ![Target[w]] = proc[w].got]
  /\ proc' = [proc EXCEPT ![w].pc = "done"]
  /\ UNCHANGED <<scratch, touched>>

RemoteStep ==
  \E p \in Procs : Get(p) \/ Create(p) \/ Write(p) \/ Written(p) \/ DiskFull(p) \/ Read(p) \/ Upload(p) \/ PutObject(p)

RemoteSpec == RemoteInit /\ [][RemoteStep]_remoteVars

-----------------------------------------------------------------------------
Fetched(p) == proc[p].fetched
Part(part, content) == IF part = "header" THEN SubSeq(content, 1, 1) ELSE content

\* Processes that share the scratch directory disturb each other only through the
\* same object.  Undisturbed, all that a player checks and all that its engines
\* load is what one GET of the object returned, also when the object is replaced
\* meanwhile, with the hash it expects; it fails only for what is wrong with that;
\* and a writer uploads what it wrote (scratch_path, "distinct objects don't
\* collide"; verify_config_hash; materialize_remote_inputs).
InputsIntact ==
  /\ \A p \in Players : ~touched[p] =>
       /\ \A s \in proc[p].seen : s.content = Part(s.part, Fetched(p)[s.uri])
       /\ proc[p].why = "unreadable" => \E u \in DOMAIN Fetched(p) : ~Readable(Fetched(p)[u])
       /\ proc[p].why = "hash" => \E u \in DOMAIN Fetched(p) : ~HashMatches(p, Fetched(p)[u])
       /\ proc[p].pc = "playing" /\ Expect[p] # NoHash =>
            \A s \in proc[p].seen : HashMatches(p, s.content)
  /\ \A w \in Writers : proc[w].pc \in {"put", "done"} /\ ~touched[w] => proc[w].got = Whole(w)
=============================================================================
