----------------------------- MODULE DirStream -----------------------------
(***************************************************************************)
(* Directory streams: what handle_open, handle_getdents and                *)
(* directory_fd_matches of src/src/linux make of getdents64 for the        *)
(* threads of one process.                                                 *)
(*                                                                         *)
(* A directory opened through the view is listed once, after its           *)
(* descriptor has been handed to the caller and the caller runs again; the *)
(* listing is kept by descriptor number and read with a cursor of its own. *)
(* close, dup2 and lseek are not intercepted, so that a number may mean    *)
(* another directory whenever the supervisor looks at it.                  *)
(***************************************************************************)
EXTENDS Integers, Sequences, SequencesExt, FiniteSets

CONSTANTS
  Threads,     \* threads of the process
  Numbers,     \* descriptor numbers it may use for directories
  Dirs,        \* directories of the host
  Opens,       \* ways to open one: [dir, projected], below a destination or not
  Contents,    \* what they hold at first
  Spare,       \* names that external writers add
  Capacities,  \* records that fit into a caller's buffer
  MaxOpens,    \* bound: opens of one behaviour
  MaxReads,    \* bound: getdents64 calls
  MaxTricks    \* bound: close, dup2 and lseek calls and lost answers

ASSUME ThreadsAssumption == Threads # {}
ASSUME NumbersAssumption == Numbers \subseteq Nat \ {0}
ASSUME OpensAssumption == Opens \subseteq [dir : Dirs, projected : BOOLEAN]
ASSUME BoundsAssumption ==
  MaxOpens \in Nat /\ MaxReads \in Nat /\ MaxTricks \in Nat /\ Capacities \subseteq Nat

VARIABLES
  contents,    \* of each directory, in the order the kernel lists it
  (* the process and the kernel                                            *)
  pc,          \* of each thread: "running", "waiting" or "continued"
  request,     \* the call it is in
  queue,       \* threads whose notification has not been received
  table,       \* descriptor number to open file, 0 for none
  files,       \* the open files: [dir, projected, listing, offset]
  (* the supervisor                                                        *)
  sup,         \* "poll", "serving", "listing" or "answering"
  job,         \* [thread, number, file]: what it works on
  batch,       \* names it is about to answer
  directories, \* State.directories: by number, NoEntry or [dir, listing, cursor]
  (* history                                                               *)
  got,         \* of each file: the names its readers got
  ended,       \* files whose readers were told the end
  spoiled,     \* files whose stream was disturbed
  opens, reads, tricks

processVars == <<pc, request, queue, table, files>>
supVars == <<sup, job, batch, directories>>
history == <<got, ended, spoiled, opens, reads, tricks>>
vars == <<contents, processVars, supVars, history>>

NoEntry == [cursor |-> -1]
NoBatch == <<>>
Idle == [thread |-> CHOOSE t \in Threads : TRUE, number |-> 0, file |-> 0]

NoRequest == [op |-> "none"]
Opening(way) == [op |-> "open", dir |-> way.dir, projected |-> way.projected]
Reading(number, capacity) == [op |-> "getdents", number |-> number, capacity |-> capacity]

NamesOf(dir) == Range(Contents[dir]) \cup Spare[dir]
AllNames == UNION {NamesOf(d) : d \in Dirs}

ASSUME ContentsAssumption == Contents \in [Dirs -> Seq(AllNames)]

TypeOK ==
  /\ contents \in [Dirs -> Seq(AllNames)]
  /\ pc \in [Threads -> {"running", "waiting", "continued"}]
  /\ \A t \in Threads :
       IF pc[t] = "running" THEN request[t] = NoRequest
       ELSE \/ \E way \in Opens : request[t] = Opening(way)
            \/ \E n \in Numbers, c \in Capacities : request[t] = Reading(n, c)
  /\ queue \in Seq(Threads)
  /\ table \in [Numbers -> 0 .. Len(files)]
  /\ \A f \in DOMAIN files :
       /\ files[f].dir \in Dirs /\ files[f].projected \in BOOLEAN
       /\ files[f].listing \in Seq(AllNames) /\ files[f].offset \in Nat
  /\ sup \in {"poll", "serving", "listing", "answering"}
  /\ job.thread \in Threads /\ job.number \in Numbers \cup {0} /\ job.file \in 0 .. Len(files)
  /\ batch \in Seq(AllNames)
  /\ \A n \in Numbers : directories[n] # NoEntry =>
       /\ directories[n].dir \in Dirs
       /\ directories[n].cursor \in 0 .. Len(directories[n].listing)
  /\ DOMAIN got = DOMAIN files /\ ended \cup spoiled \subseteq DOMAIN files
  /\ opens \in 0 .. MaxOpens /\ reads \in 0 .. MaxReads /\ tricks \in 0 .. MaxTricks

Init ==
  /\ contents = Contents
  /\ pc = [t \in Threads |-> "running"] /\ request = [t \in Threads |-> NoRequest]
  /\ queue = <<>> /\ table = [n \in Numbers |-> 0] /\ files = <<>>
  /\ sup = "poll" /\ job = Idle /\ batch = NoBatch
  /\ directories = [n \in Numbers |-> NoEntry]
  /\ got = <<>> /\ ended = {} /\ spoiled = {}
  /\ opens = 0 /\ reads = 0 /\ tricks = 0

-------------------------------------------------------------------------------
(***************************************************************************)
(* The process                                                             *)
(***************************************************************************)

Ask(t, call) ==
  /\ pc[t] = "running" /\ pc' = [pc EXCEPT ![t] = "waiting"]
  /\ request' = [request EXCEPT ![t] = call] /\ queue' = Append(queue, t)
  /\ UNCHANGED <<contents, table, files, supVars, got, ended, spoiled, tricks>>

OpenDirectory(t, way) ==
  /\ opens < MaxOpens /\ opens' = opens + 1 /\ UNCHANGED reads
  /\ Ask(t, Opening(way))

ReadDirectory(t, number, capacity) ==
  /\ reads < MaxReads /\ reads' = reads + 1 /\ UNCHANGED opens
  /\ Ask(t, Reading(number, capacity))

(* Calls that the filter lets through.                                     *)
Trick(t, spoils) ==
  /\ pc[t] = "running" /\ tricks < MaxTricks /\ tricks' = tricks + 1
  /\ spoiled' = spoiled \cup spoils
  /\ UNCHANGED <<contents, pc, request, queue, supVars, got, ended, opens, reads>>

Close(t, number) ==
  /\ Trick(t, {}) /\ table[number] # 0
  /\ table' = [table EXCEPT ![number] = 0] /\ UNCHANGED files

Dup2(t, number, onto) ==
  /\ Trick(t, {table[number]}) /\ table[number] # 0 /\ number # onto
  /\ table' = [table EXCEPT ![onto] = table[number]] /\ UNCHANGED files

Rewind(t, number) ==
  /\ Trick(t, {table[number]}) /\ table[number] # 0
  /\ files' = [files EXCEPT ![table[number]].offset = 0] /\ UNCHANGED table

(* The kernel gives an opened directory the lowest number that is free.    *)
Free == {n \in Numbers : table[n] = 0}
Lowest == CHOOSE n \in Free : \A m \in Free : n <= m

Installs(dir, projected) ==
  /\ files' = Append(files, [dir |-> dir, projected |-> projected,
                             listing |-> <<>>, offset |-> 0])
  /\ table' = [table EXCEPT ![Lowest] = Len(files) + 1]
  /\ got' = Append(got, <<>>)

Resumes(t) ==
  pc' = [pc EXCEPT ![t] = "running"] /\ request' = [request EXCEPT ![t] = NoRequest]

KernelOpens(t) ==
  /\ pc[t] = "continued" /\ request[t].op = "open" /\ Resumes(t)
  /\ \/ Free # {} /\ Installs(request[t].dir, FALSE)
     \/ Free = {} /\ UNCHANGED <<files, table, got>>
  /\ UNCHANGED <<contents, queue, supVars, ended, spoiled, opens, reads, tricks>>

(* The records from the position on that fit.                              *)
Records(listing, from, capacity) ==
  SubSeq(listing, from + 1, IF from + capacity < Len(listing) THEN from + capacity ELSE Len(listing))

Gets(file, names, end) ==
  /\ got' = [got EXCEPT ![file] = @ \o names]
  /\ ended' = IF end THEN ended \cup {file} ELSE ended

(* A getdents64 that was continued finds what its number means by now.     *)
KernelReads(t) ==
  LET file  == table[request[t].number]
      names == Records(contents[files[file].dir], files[file].offset, request[t].capacity)
  IN
  /\ pc[t] = "continued" /\ request[t].op = "getdents" /\ Resumes(t)
  /\ \/ /\ file # 0
        /\ files' = [files EXCEPT ![file].offset = @ + Len(names)]
        /\ Gets(file, names, files[file].offset = Len(contents[files[file].dir]))
        /\ spoiled' = spoiled \cup {file}
     \/ file = 0 /\ UNCHANGED <<files, got, ended, spoiled>>
  /\ UNCHANGED <<contents, queue, table, supVars, opens, reads, tricks>>

(* Another process writes to a directory.                                  *)
ExternalWrite ==
  /\ \E d \in Dirs : \E name \in Spare[d] \ Range(contents[d]) :
       contents' = [contents EXCEPT ![d] = Append(@, name)]
  /\ UNCHANGED <<processVars, supVars, history>>

-------------------------------------------------------------------------------
(***************************************************************************)
(* The supervisor                                                          *)
(***************************************************************************)

Receive ==
  /\ sup = "poll" /\ queue # <<>> /\ sup' = "serving"
  /\ job' = [Idle EXCEPT !.thread = Head(queue)] /\ queue' = Tail(queue)
  /\ UNCHANGED <<contents, pc, request, table, files, batch, directories, history>>

Asked == request[job.thread]
Polls == sup' = "poll" /\ job' = Idle

(* respond_continue.                                                       *)
Continues == Polls /\ pc' = [pc EXCEPT ![job.thread] = "continued"]

ServeHostOpen ==
  /\ sup = "serving" /\ Asked.op = "open" /\ ~Asked.projected /\ Continues
  /\ UNCHANGED <<contents, request, queue, table, files, batch, directories, history>>

(* handle_open up to add_fd, whose ADDFD_FLAG_SEND resumes the caller.     *)
ServeOpen ==
  /\ sup = "serving" /\ Asked.op = "open" /\ Asked.projected /\ Resumes(job.thread)
  /\ \/ /\ Free # {} /\ Installs(Asked.dir, TRUE)
        /\ sup' = "listing"
        /\ job' = [job EXCEPT !.number = Lowest, !.file = Len(files) + 1]
     \/ Free = {} /\ Polls /\ UNCHANGED <<files, table, got>>
  /\ UNCHANGED <<contents, queue, batch, directories, ended, spoiled, opens, reads, tricks>>

(* list_dir and directories.insert; a listing that fails - an entry has    *)
(* gone meanwhile - is not kept, and the kernel reads the directory.       *)
List ==
  LET dir == files[job.file].dir IN
  /\ sup = "listing" /\ Polls
  /\ \/ /\ directories' = [directories EXCEPT ![job.number] =
                             [dir |-> dir, listing |-> contents[dir], cursor |-> 0]]
        /\ files' = [files EXCEPT ![job.file].listing = contents[dir]]
        /\ UNCHANGED spoiled
     \/ spoiled' = spoiled \cup {job.file} /\ UNCHANGED <<directories, files>>
  /\ UNCHANGED <<contents, pc, request, queue, table, batch, got, ended, opens, reads, tricks>>

(* Fault: the number is trusted.                                           *)
ListedAtAnyTime(number) == directories[number] # NoEntry /\ table[number] # 0

(* directories.get and directory_fd_matches: the number still leads to the *)
(* listed directory.                                                       *)
Listed(number) ==
  /\ directories[number] # NoEntry /\ table[number] # 0
  /\ files[table[number]].dir = directories[number].dir

ServeUnlistedRead ==
  LET n == Asked.number IN
  /\ sup = "serving" /\ Asked.op = "getdents" /\ ~Listed(n) /\ Continues
  /\ directories' = [directories EXCEPT ![n] = NoEntry]
  /\ UNCHANGED <<contents, request, queue, table, files, batch, history>>

(* Fault: the cursor moves by what would fit.                              *)
AdvanceByCapacity(entry, capacity) == [entry EXCEPT !.cursor = @ + capacity]

(* Fault: the record that does not fit is passed over.                     *)
AdvancePastRefused(entry, capacity) ==
  [entry EXCEPT !.cursor =
     LET next == @ + Len(Records(entry.listing, @, capacity))
     IN IF next < Len(entry.listing) THEN next + 1 ELSE next]

(* The cursor after a read.                                                *)
Advance(entry, capacity) ==
  [entry EXCEPT !.cursor = @ + Len(Records(entry.listing, @, capacity))]

(* handle_getdents: the cursor moves before the caller has the records;    *)
(* EINVAL if not even one fits.                                            *)
ServeRead ==
  LET n     == Asked.number
      entry == directories[n]
      names == Records(entry.listing, entry.cursor, Asked.capacity)
  IN
  /\ sup = "serving" /\ Asked.op = "getdents" /\ Listed(n)
  /\ \/ /\ names # <<>> \/ entry.cursor = Len(entry.listing)
        /\ sup' = "answering" /\ batch' = names
        /\ job' = [job EXCEPT !.file = table[n]]
        /\ directories' = [directories EXCEPT ![n] = Advance(entry, Asked.capacity)]
        /\ UNCHANGED <<pc, request>>
     \/ /\ names = <<>> /\ entry.cursor < Len(entry.listing)
        /\ Polls /\ Resumes(job.thread) /\ UNCHANGED <<batch, directories>>
  /\ UNCHANGED <<contents, queue, table, files, history>>

(* write_memory and respond_value.                                         *)
Answer ==
  /\ sup = "answering" /\ Polls /\ batch' = NoBatch
  /\ Resumes(job.thread) /\ Gets(job.file, batch, batch = <<>>)
  /\ UNCHANGED <<contents, queue, table, files, directories, spoiled, opens, reads, tricks>>

(* The buffer cannot be written (EFAULT), or a signal handler has run and  *)
(* the call is made again.                                                 *)
AnswerIsLost ==
  /\ sup = "answering" /\ Polls /\ batch' = NoBatch
  /\ tricks < MaxTricks /\ tricks' = tricks + 1
  /\ spoiled' = spoiled \cup {job.file}
  /\ \/ Resumes(job.thread) /\ UNCHANGED queue
     \/ queue' = Append(queue, job.thread) /\ UNCHANGED <<pc, request>>
  /\ UNCHANGED <<contents, table, files, directories, got, ended, opens, reads>>

Supervisor ==
  \/ Receive \/ ServeHostOpen \/ ServeOpen \/ List
  \/ ServeUnlistedRead \/ ServeRead \/ Answer \/ AnswerIsLost

Thread(t) ==
  \/ \E way \in Opens : OpenDirectory(t, way)
  \/ \E n \in Numbers, c \in Capacities : ReadDirectory(t, n, c)
  \/ \E n \in Numbers : Close(t, n) \/ Rewind(t, n)
  \/ \E n, m \in Numbers : Dup2(t, n, m)
  \/ KernelOpens(t) \/ KernelReads(t)

(* Nobody has to do anything more.                                         *)
Rest ==
  /\ sup = "poll" /\ queue = <<>> /\ \A t \in Threads : pc[t] = "running"
  /\ UNCHANGED vars

Next == Supervisor \/ ExternalWrite \/ (\E t \in Threads : Thread(t)) \/ Rest

Spec == Init /\ [][Next]_vars

-------------------------------------------------------------------------------
(* A directory that was opened through the view, and read by calls on its  *)
(* own number alone that were made after the open, gives every entry it    *)
(* had when it was opened, once and in order, before its readers see the   *)
(* end - whichever threads read it, whatever its number meant before and   *)
(* whatever others write.                                                  *)
EveryEntryOnce ==
  \A f \in DOMAIN files : files[f].projected /\ f \notin spoiled =>
    /\ IsPrefix(got[f], files[f].listing)
    /\ f \in ended => got[f] = files[f].listing

(* No number gives the names of a directory that it did not mean when the  *)
(* call was served (src/src/linux/remote.rs:137-139).                      *)
OnlyItsOwnDirectory ==
  \A f \in DOMAIN files : Range(got[f]) \subseteq NamesOf(files[f].dir)
=============================================================================
