------------------------------- MODULE Pipes -------------------------------
(***************************************************************************)
(* Pipes (src/src/kernel/ipc.c).  readers and writers are the processes    *)
(* that wait at a pipe, not those that hold an end of it, which the table  *)
(* does not record.  Of the bytes only their number is kept.  A process is *)
(* in a call, behind its schedule(), while pc has it there.  Which numbers *)
(* fd_allocate gives is left out: pipe_read and pipe_write are called with *)
(* the slot.                                                               *)
(***************************************************************************)
EXTENDS Integers, Sequences, SequencesExt

CONSTANTS MAX_PIPES, PIPE_BUFFER_SIZE, Processes, Sizes, WORD

PipesAssumption ==
    /\ MAX_PIPES \in Nat \ {0}
    /\ PIPE_BUFFER_SIZE \in Nat \ {0} /\ WORD \in Nat /\ WORD > PIPE_BUFFER_SIZE
    /\ Sizes \subseteq 0 .. (WORD - 1)

VARIABLES
    pipes,
    blocked,         \* processes in state BLOCKED
    pc,              \* "user", or the call and its arguments
    sigpipe,         \* processes that have SIGPIPE pending
    answer           \* history: what the last pipe_read to return was asked for, and gave

pipeVars == <<pipes, blocked, pc, sigpipe, answer>>

Numbers == 0 .. (MAX_PIPES - 1)
NoPipe == [in_use |-> FALSE, data_size |-> 0, readers |-> <<>>, writers |-> <<>>]

TypeOK ==
    /\ pipes \in [Numbers -> [in_use: BOOLEAN, data_size: 0 .. PIPE_BUFFER_SIZE,
                              readers: Seq(Processes), writers: Seq(Processes)]]
    /\ {blocked, sigpipe} \subseteq SUBSET Processes
    /\ pc \in [Processes -> {"user"} \cup ({"read", "write"} \X Numbers \X Sizes)]
    /\ answer \in [asked: Nat, given: Nat]

(* ipc_init *)
Init ==
    /\ pipes = [i \in Numbers |-> NoPipe]
    /\ blocked = {}
    /\ pc = [p \in Processes |-> "user"]
    /\ sigpipe = {}
    /\ answer = [asked |-> 0, given |-> 0]
-----------------------------------------------------------------------------
Created(p) == [NoPipe EXCEPT !.in_use = TRUE]

(* pipe_create takes the first free slot; no slot is ever freed. *)
PipeCreate(p) ==
    \E i \in Numbers :
        /\ ~pipes[i].in_use /\ \A j \in Numbers : j < i => pipes[j].in_use
        /\ pc[p] = "user"
        /\ pipes' = [pipes EXCEPT ![i] = Created(p)]
        /\ UNCHANGED <<blocked, pc, sigpipe, answer>>

Returns(p) == pc' = [pc EXCEPT ![p] = "user"]

Blocks(p, call) ==
    /\ blocked' = blocked \cup {p}
    /\ pc' = [pc EXCEPT ![p] = call]

Lesser(a, b) == IF a < b THEN a ELSE b

(* The loop of pipe_read, and what is behind it. *)
Reading(p, i, size) ==
    LET given == Lesser(size, pipes[i].data_size)
    IN  /\ IF pipes[i].data_size > 0 \/ pipes[i].writers = <<>>
             THEN /\ pipes' = [pipes EXCEPT ![i] =
                       [@ EXCEPT !.data_size = pipes[i].data_size - given, !.writers = <<>>]]
                  /\ blocked' = blocked \ ToSet(pipes[i].writers)
                  /\ Returns(p)
                  /\ answer' = [asked |-> size, given |-> given]
             ELSE /\ pipes' = [pipes EXCEPT ![i] =
                       [@ EXCEPT !.readers = Append(pipes[i].readers, p)]]
                  /\ Blocks(p, <<"read", i, size>>)
                  /\ UNCHANGED answer
        /\ UNCHANGED sigpipe

(* PIPE_BUFFER_SIZE - size, of u32, is large for a size that is larger. *)
Full(i, size) == pipes[i].data_size >= (PIPE_BUFFER_SIZE - size) % WORD

Writing(p, i, size) ==
    /\ IF Full(i, size)
         THEN /\ pipes' = [pipes EXCEPT ![i] = [@ EXCEPT !.writers = Append(pipes[i].writers, p)]]
              /\ Blocks(p, <<"write", i, size>>)
         ELSE /\ pipes' = [pipes EXCEPT ![i] =
                   [@ EXCEPT !.data_size = Lesser(pipes[i].data_size + size, PIPE_BUFFER_SIZE),
                             !.readers = <<>>]]
              /\ blocked' = blocked \ ToSet(pipes[i].readers)
              /\ Returns(p)
    /\ UNCHANGED <<sigpipe, answer>>

PipeRead(p) ==
    /\ pc[p] = "user"
    /\ \E i \in Numbers, size \in Sizes : pipes[i].in_use /\ Reading(p, i, size)

(* signal_send leaves SIGPIPE pending: nothing in the kernel handles it. *)
PipeWrite(p) ==
    /\ pc[p] = "user"
    /\ \E i \in Numbers, size \in Sizes :
        /\ pipes[i].in_use
        /\ IF pipes[i].readers = <<>>
             THEN sigpipe' = sigpipe \cup {p} /\ UNCHANGED <<pipes, blocked, pc, answer>>
             ELSE Writing(p, i, size)

(* Behind schedule() in a call. *)
Resume(p) ==
    /\ pc[p] # "user"
    /\ p \notin blocked
    /\ \E i \in Numbers, size \in Sizes :
        \/ pc[p] = <<"read", i, size>> /\ Reading(p, i, size)
        \/ pc[p] = <<"write", i, size>> /\ Writing(p, i, size)

Next ==
    \E p \in Processes : PipeCreate(p) \/ PipeRead(p) \/ PipeWrite(p) \/ Resume(p)

Spec == Init /\ [][Next]_pipeVars
-----------------------------------------------------------------------------
(* "Block if no data available" (ipc.c:306), "Block until data available"   *)
(* (:316): a pipe_read that is asked for bytes and returns, gives some.     *)
(* The way out, "EOF - no writers" (:309), is for a pipe whose write end is *)
(* held by nobody; here nobody closes an end, and whoever created the pipe  *)
(* holds both.  The code does not keep to it: writer_count is the number of *)
(* those that wait to write.                                                *)
ReadGivesData == answer.asked > 0 => answer.given > 0

(* What comes of that, with pipe_write's test of reader_count: a read finds *)
(* nobody waiting to write and returns 0, a write finds nobody waiting to   *)
(* read and fails.  Whatever processes do, in whatever order, no byte is    *)
(* stored and nobody blocks.                                                *)
PipesInert ==
    /\ \A i \in Numbers :
           pipes[i].data_size = 0 /\ pipes[i].readers = <<>> /\ pipes[i].writers = <<>>
    /\ blocked = {}
=============================================================================
