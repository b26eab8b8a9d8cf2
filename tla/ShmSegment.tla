---------------------------- MODULE ShmSegment ------------------------------
(***************************************************************************)
(* Named shared-memory segments (transport/src/shm_segment.cpp) and the    *)
(* /dev/shm namespace they live in.  A segment is what the kernel calls an *)
(* inode: it stays usable through the mappings that exist even when its    *)
(* name is unlinked or bound to another segment.                           *)
(*                                                                         *)
(* The ring inside a segment is abstracted to the log of the messages      *)
(* written since it was last initialised; ShmRing shows what a reader may  *)
(* miss of such a log.  A message is abstracted to the topic it was        *)
(* published on.                                                           *)
(***************************************************************************)
EXTENDS Naturals, Sequences, Functions

CONSTANTS
  Segments,   \* bound: segments that exist at a time
  MaxLog      \* bound: messages followed in a ring between two inits

VARIABLES
  names,      \* name -> segment, the directory /dev/shm
  segs        \* segment -> whether its magic is set, and its log

segVars == <<names, segs>>

Empty == [x \in {} |-> x]
Put(f, k, v) == [x \in DOMAIN f \cup {k} |-> IF x = k THEN v ELSE f[x]]
Without(f, K) == Restrict(f, DOMAIN f \ K)

\* A topic is the sequence of its characters.  Three of them are not used in
\* a segment name.
seg_name(writer_pid, topic) ==
  <<writer_pid, [i \in DOMAIN topic |->
                   IF topic[i] \in {"/", ".", " "} THEN "_" ELSE topic[i]]>>

Zeroed == [ready |-> FALSE, log |-> <<>>]

\* create, up to the mapping: O_CREAT without O_EXCL takes a segment that
\* still has the name, or a new one s.
MapNew(name, s) ==
  /\ name \in DOMAIN names => s = names[name]
  /\ names' = Put(names, name, s)
  /\ segs' = IF name \in DOMAIN names THEN segs ELSE [segs EXCEPT ![s] = Zeroed]

\* create, from ShmRing::init to the end: the ring is emptied, magic last.
InitRing(s) ==
  /\ segs' = [segs EXCEPT ![s] = [ready |-> TRUE, log |-> <<>>]]
  /\ UNCHANGED names

\* create fails: shm_open itself, or a later call, and then the name is
\* unlinked.
FailToCreate(name) ==
  /\ names' \in {names, Without(names, {name})}
  /\ UNCHANGED segs

\* open succeeds once the name exists and magic is set.
CanOpen(name) == name \in DOMAIN names /\ segs[names[name]].ready

\* One message is written; past the bound the log is not followed.
Write(s, msg) ==
  /\ segs' = IF Len(segs[s].log) < MaxLog
             THEN [segs EXCEPT ![s].log = Append(@, msg)] ELSE segs
  /\ UNCHANGED names

\* The destructor of an owning ShmSegment unlinks its name, whatever segment
\* the name is bound to by then.
Unlink(ns) ==
  /\ names' = Without(names, ns)
  /\ UNCHANGED segs
=============================================================================
