--------------------------- MODULE DirStreamProofs ---------------------------
(***************************************************************************)
(* What the readers of a mapped directory see, for any threads, numbers,   *)
(* directories and buffers (module DirStream; handle_getdents and          *)
(* directory_fd_matches of src/src/linux).                                 *)
(*                                                                         *)
(* Descriptor numbers are closed and opened anew while the supervisor      *)
(* keeps its listings by number.  The proof ties the two together: where   *)
(* an undisturbed directory is, its own listing is.                        *)
(***************************************************************************)
EXTENDS DirStream, SequenceTheorems, WellFoundedInduction, TLAPS

-------------------------------------------------------------------------------
(***************************************************************************)
(* The inductive invariant                                                 *)
(***************************************************************************)

Open == DOMAIN files
Names == Seq(AllNames)
Entries == [dir : Dirs, listing : Names, cursor : Nat]

(* The parts of the state that TypeOK describes element by element.        *)
FormInv ==
  /\ pc \in [Threads -> {"running", "waiting", "continued"}]
  /\ request = [t \in Threads |-> request[t]]
  /\ files \in Seq([dir : Dirs, projected : BOOLEAN, listing : Names, offset : Nat])
  /\ got \in Seq(Names) /\ Len(got) = Len(files)
  /\ directories \in [Numbers -> Entries \cup {NoEntry}]
  /\ job \in [thread : Threads, number : Numbers \cup {0}, file : 0 .. Len(files)]
  /\ sup = "listing" => job.number \in Numbers
  /\ sup \in {"listing", "answering"} => job.file \in Open

(* Names stay with their directory.                                        *)
NamesInv ==
  /\ \A d \in Dirs : Range(contents[d]) \subseteq NamesOf(d)
  /\ \A n \in Numbers : directories[n] # NoEntry =>
       Range(directories[n].listing) \subseteq NamesOf(directories[n].dir)
  /\ sup = "answering" => Range(batch) \subseteq NamesOf(files[job.file].dir)
  /\ OnlyItsOwnDirectory

(* The open files whose readers are promised every entry.                  *)
Promised == {f \in Open : files[f].projected /\ f \notin spoiled}

Upto(names, listing) == \E c \in 0 .. Len(listing) : names = SubSeq(listing, 1, c)

(* What the readers of such a file got, and are about to get.              *)
GotInv ==
  /\ \A f \in Promised : /\ Upto(got[f], files[f].listing)
                         /\ f \in ended => got[f] = files[f].listing
  /\ sup = "answering" /\ job.file \in Promised =>
       /\ Upto(got[job.file] \o batch, files[job.file].listing)
       /\ batch = <<>> => got[job.file] = files[job.file].listing
  /\ sup = "listing" /\ job.file \in Promised => got[job.file] = <<>> /\ job.file \notin ended

(* The supervisor has handed the file out and not listed it yet.           *)
Listing(f) == sup = "listing" /\ job.file = f

(* The supervisor's entry at the number of such a file is about this file, *)
(* and has its cursor behind what the readers got or are about to get.     *)
About(f) == IF sup = "answering" /\ job.file = f THEN got[f] \o batch ELSE got[f]
EntryOf(f, n) ==
  /\ directories[n] # NoEntry
  /\ directories[n].dir = files[f].dir /\ directories[n].listing = files[f].listing
  /\ About(f) = SubSeq(files[f].listing, 1, directories[n].cursor)

NumberInv ==
  \A n \in Numbers : table[n] \in Promised =>
    /\ \A m \in Numbers : table[m] = table[n] => m = n
    /\ Listing(table[n]) => job.number = n
    /\ ~Listing(table[n]) => EntryOf(table[n], n) /\ (sup = "listing" => job.number # n)

IInv == TypeOK /\ FormInv /\ NamesInv /\ GotInv /\ NumberInv

-------------------------------------------------------------------------------
(***************************************************************************)
(* Listings and the records that a read takes from them                    *)
(***************************************************************************)

(* A read takes the next part of the listing.                              *)
LEMMA RecordsAreNext ==
  ASSUME NEW listing \in Names, NEW c \in 0 .. Len(listing), NEW k \in Nat
  PROVE  LET r == Records(listing, c, k) IN
         /\ r \in Names /\ Len(r) \in Nat /\ c + Len(r) \in 0 .. Len(listing)
         /\ SubSeq(listing, 1, c) \o r = SubSeq(listing, 1, c + Len(r))
         /\ Range(r) \subseteq Range(listing)
<1> DEFINE last == IF c + k < Len(listing) THEN c + k ELSE Len(listing)
           r == SubSeq(listing, c + 1, last)
<1>1. /\ Len(listing) \in Nat /\ DOMAIN listing = 1 .. Len(listing)
      /\ \A i \in 1 .. Len(listing) : listing[i] \in AllNames
  BY LenProperties DEF Names
<1>2. last \in c .. Len(listing)
  BY <1>1
<1> HIDE DEF last
<1>3. /\ r \in Names /\ Len(r) = last - c
      /\ \A i \in 1 .. last - c : r[i] = listing[c + i]
  <2>1. \A i \in c + 1 .. last : listing[i] \in AllNames
    BY <1>1, <1>2
  <2>2. /\ SubSeq(listing, c + 1, last) \in Seq(AllNames)
        /\ Len(SubSeq(listing, c + 1, last)) = IF c + 1 <= last THEN last - (c + 1) + 1 ELSE 0
        /\ \A i \in 1 .. last - (c + 1) + 1 :
             SubSeq(listing, c + 1, last)[i] = listing[(c + 1) + i - 1]
    BY <1>1, <1>2, <2>1, SubSeqProperties
  <2> QED
    BY <1>1, <1>2, <2>2 DEF Names
<1>4. SubSeq(listing, 1, c) \o r = SubSeq(listing, 1, last)
  <2>1. 1 \in 1 .. Len(listing) + 1 /\ c \in 0 .. Len(listing) /\ last \in c .. Len(listing)
    BY <1>1, <1>2
  <2> QED
    BY <2>1, ConcatAdjacentSubSeq DEF Names
<1> HIDE DEF r
<1>5. Range(r) \subseteq Range(listing)
  <2>1. DOMAIN r = 1 .. last - c
    BY <1>3, LenProperties DEF Names
  <2>2. \A i \in 1 .. last - c : c + i \in 1 .. Len(listing)
    BY <1>1, <1>2
  <2> QED
    BY <1>1, <1>3, <2>1, <2>2 DEF Range
<1>6. r = Records(listing, c, k)
  BY DEF r, last, Records
<1>7. Len(r) \in Nat /\ c + Len(r) \in 0 .. Len(listing) /\ c + Len(r) = last
  BY <1>1, <1>2, <1>3
<1> QED
  BY <1>3, <1>4, <1>5, <1>6, <1>7

(* A position behind the end gives nothing.                                *)
LEMMA RecordsAreListed ==
  ASSUME NEW listing \in Names, NEW c \in Nat, NEW k \in Nat
  PROVE  LET r == Records(listing, c, k) IN
         r \in Names /\ Len(r) \in Nat /\ Range(r) \subseteq Range(listing)
<1>1. CASE c <= Len(listing)
  <2>1. c \in 0 .. Len(listing)
    BY <1>1, LenProperties DEF Names
  <2> QED
    BY <2>1, RecordsAreNext
<1>2. CASE ~(c <= Len(listing))
  <2> DEFINE last == IF c + k < Len(listing) THEN c + k ELSE Len(listing)
  <2>1. last \in Int /\ last < c + 1 /\ c + 1 \in Int
    BY <1>2, LenProperties DEF Names
  <2>2. SubSeq(listing, c + 1, last) = <<>>
    BY <2>1, SubSeqEmpty
  <2> QED
    BY <2>2, EmptySeq DEF Records, Range, Names
<1> QED
  BY <1>1, <1>2

(* What the first entries of a listing give is a prefix of it.             *)
LEMMA UptoIsPrefix ==
  ASSUME NEW names, NEW listing \in Names, Upto(names, listing)
  PROVE  names \in Names /\ IsPrefix(names, listing)
<1>1. PICK c \in 0 .. Len(listing) : names = SubSeq(listing, 1, c)
  BY DEF Upto
<1>2. Len(listing) \in Nat /\ \A i \in 1 .. c : listing[i] \in AllNames
  BY LenProperties DEF Names
<1>3. names \in Names /\ Len(names) = c
  <2>1. /\ SubSeq(listing, 1, c) \in Seq(AllNames)
        /\ Len(SubSeq(listing, 1, c)) = IF 1 <= c THEN c - 1 + 1 ELSE 0
    BY <1>2, SubSeqProperties
  <2> QED
    BY <1>1, <1>2, <2>1 DEF Names
<1>4. SubSeq(names, 1, Len(names)) = names
  BY <1>3, SubSeqFull DEF Names
<1> QED
  BY <1>1, <1>2, <1>3, <1>4 DEF IsPrefix

(* After the whole listing there is nothing more to get.                   *)
LEMMA NothingAfterAll ==
  ASSUME NEW listing \in Names, NEW names \in Names, Upto(listing \o names, listing)
  PROVE  names = <<>>
<1>1. /\ Len(listing) \in Nat /\ Len(names) \in Nat
      /\ Len(listing \o names) = Len(listing) + Len(names)
  BY LenProperties, ConcatProperties DEF Names
<1>2. Len(listing \o names) <= Len(listing)
  BY UptoIsPrefix DEF IsPrefix
<1> QED
  BY <1>1, <1>2, EmptySeq DEF Names

(* Names of two lists appended are the names of one or of the other.       *)
LEMMA RangeOfConcat ==
  ASSUME NEW s \in Names, NEW t \in Names
  PROVE  s \o t \in Names /\ Range(s \o t) \subseteq Range(s) \cup Range(t)
<1>1. /\ s \o t \in Names /\ Len(s \o t) = Len(s) + Len(t)
      /\ \A i \in 1 .. Len(s) + Len(t) :
           (s \o t)[i] = IF i <= Len(s) THEN s[i] ELSE t[i - Len(s)]
  BY ConcatProperties DEF Names
<1>2. /\ Len(s) \in Nat /\ Len(t) \in Nat /\ DOMAIN s = 1 .. Len(s) /\ DOMAIN t = 1 .. Len(t)
      /\ DOMAIN (s \o t) = 1 .. Len(s) + Len(t)
  BY <1>1, LenProperties DEF Names
<1>3. ASSUME NEW i \in 1 .. Len(s) + Len(t) PROVE (s \o t)[i] \in Range(s) \cup Range(t)
  <2>1. CASE i <= Len(s)
    BY <1>1, <1>2, <2>1 DEF Range
  <2>2. CASE ~(i <= Len(s))
    <3>1. i - Len(s) \in 1 .. Len(t)
      BY <1>2, <2>2
    <3> QED
      BY <1>1, <1>2, <2>2, <3>1 DEF Range
  <2> QED
    BY <2>1, <2>2
<1> QED
  BY <1>1, <1>2, <1>3 DEF Range

(* The kernel gives out free numbers.                                      *)
LEMMA LowestIsFree ==
  ASSUME Free # {} PROVE Lowest \in Numbers /\ table[Lowest] = 0
<1>1. Free \subseteq Nat
  BY NumbersAssumption DEF Free
<1>2. PICK n \in Free : \A m \in Free : ~(<<m, n>> \in OpToRel(<, Nat))
  BY <1>1, WFMin, NatLessThanWellFounded
<1>3. \A m \in Free : ~(m < n)
  BY <1>1, <1>2 DEF OpToRel
<1>4. \A m \in Free : n <= m
  BY <1>1, <1>3
<1>5. Lowest \in Free
  BY <1>4 DEF Lowest
<1> QED
  BY <1>5 DEF Free

-------------------------------------------------------------------------------
(***************************************************************************)
(* The parts of the state                                                  *)
(***************************************************************************)

OpenFiles == [dir : Dirs, projected : BOOLEAN, listing : Names, offset : Nat]
Forms == TypeOK /\ FormInv

(* What the shape of the state says of the open files and the registered   *)
(* numbers.                                                                *)
LEMMA FormFacts ==
  ASSUME Forms
  PROVE  /\ Open = 1 .. Len(files) /\ Len(files) \in Nat /\ DOMAIN got = Open
         /\ \A f \in Open : files[f] \in OpenFiles /\ got[f] \in Names
         /\ \A n \in Numbers : directories[n] # NoEntry =>
              /\ directories[n] \in Entries
              /\ directories[n].cursor \in 0 .. Len(directories[n].listing)
         /\ \A d \in Dirs : contents[d] \in Names
         /\ \A n \in Numbers : table[n] # 0 => table[n] \in Open
         /\ job.thread \in Threads
<1>1. /\ files \in Seq(OpenFiles) /\ got \in Seq(Names) /\ Len(got) = Len(files)
      /\ directories \in [Numbers -> Entries \cup {NoEntry}]
  BY DEF Forms, FormInv, OpenFiles
<1>2. /\ Open = 1 .. Len(files) /\ Len(files) \in Nat
      /\ \A f \in Open : files[f] \in OpenFiles
  BY <1>1, LenProperties DEF Open
<1>3. DOMAIN got = Open /\ \A f \in Open : got[f] \in Names
  BY <1>1, <1>2, LenProperties
<1>4. \A n \in Numbers : directories[n] # NoEntry =>
        /\ directories[n] \in Entries
        /\ directories[n].cursor \in 0 .. Len(directories[n].listing)
  BY <1>1 DEF Forms, TypeOK
<1>5. \A n \in Numbers : table[n] # 0 => table[n] \in Open
  BY <1>2 DEF Forms, TypeOK
<1> QED
  BY <1>2, <1>3, <1>4, <1>5 DEF Forms, TypeOK, Names

Calls == \A t \in Threads :
  IF pc[t] = "running" THEN request[t] = NoRequest
  ELSE \/ \E way \in Opens : request[t] = Opening(way)
       \/ \E n \in Numbers, c \in Capacities : request[t] = Reading(n, c)

(* What a call says.                                                       *)
LEMMA CallFacts ==
  ASSUME Calls, NEW t \in Threads
  PROVE  /\ request[t].op \in {"open", "getdents"} => pc[t] # "running"
         /\ request[t].op = "open" =>
              request[t].dir \in Dirs /\ request[t].projected \in BOOLEAN
         /\ request[t].op = "getdents" =>
              request[t].number \in Numbers /\ request[t].capacity \in Nat
<1>1. CASE pc[t] = "running"
  BY <1>1 DEF Calls, NoRequest
<1>2. CASE \E way \in Opens : pc[t] # "running" /\ request[t] = Opening(way)
  BY <1>2, OpensAssumption DEF Opening
<1>3. CASE \E n \in Numbers, c \in Capacities : pc[t] # "running" /\ request[t] = Reading(n, c)
  BY <1>3, BoundsAssumption DEF Reading
<1> QED
  BY <1>1, <1>2, <1>3 DEF Calls

(* A thread that runs again, or that the kernel lets into its call.        *)
LEMMA ResumesForms ==
  ASSUME Forms, NEW t \in Threads, Resumes(t)
  PROVE  /\ pc' \in [Threads -> {"running", "waiting", "continued"}]
         /\ request' = [u \in Threads |-> request'[u]] /\ Calls'
<1>1. /\ pc \in [Threads -> {"running", "waiting", "continued"}]
      /\ request = [u \in Threads |-> request[u]] /\ Calls
  BY DEF Forms, FormInv, TypeOK, Calls
<1>2. /\ pc' = [pc EXCEPT ![t] = "running"] /\ request' = [request EXCEPT ![t] = NoRequest]
  BY DEF Resumes
<1>3. \A u \in Threads : u # t => pc'[u] = pc[u] /\ request'[u] = request[u]
  BY <1>1, <1>2
<1>4. pc'[t] = "running" /\ request'[t] = NoRequest
  BY <1>1, <1>2
<1> QED
  BY <1>1, <1>2, <1>3, <1>4 DEF Calls

(* A continued call leaves the supervisor idle and the shape of the        *)
(* threads.                                                                *)
LEMMA ContinuesForms ==
  ASSUME Forms, Continues, Asked.op \in {"open", "getdents"}, UNCHANGED request
  PROVE  /\ pc' \in [Threads -> {"running", "waiting", "continued"}]
         /\ request' = [u \in Threads |-> request'[u]] /\ Calls'
         /\ sup' = "poll" /\ job' = Idle
<1>1. /\ pc \in [Threads -> {"running", "waiting", "continued"}] /\ job.thread \in Threads
      /\ request = [u \in Threads |-> request[u]] /\ Calls
  BY DEF Forms, FormInv, TypeOK, Calls
<1>2. pc[job.thread] # "running"
  BY <1>1, CallFacts DEF Asked
<1>3. pc' = [pc EXCEPT ![job.thread] = "continued"] /\ sup' = "poll" /\ job' = Idle
  BY DEF Continues, Polls
<1>4. \A u \in Threads : pc'[u] = "running" <=> pc[u] = "running"
  BY <1>1, <1>2, <1>3
<1> QED
  BY <1>1, <1>3, <1>4 DEF Calls

(* The supervisor between two notifications.                               *)
LEMMA IdleForm == Idle \in [thread : Threads, number : Numbers \cup {0}, file : {0}]
  BY ThreadsAssumption DEF Idle

-------------------------------------------------------------------------------
(***************************************************************************)
(* The steps of the process                                                *)
(***************************************************************************)

(* A step that leaves files, numbers and listings alone.                   *)
LEMMA QuietKeeps ==
  ASSUME IInv, UNCHANGED <<contents, table, files, directories, got, ended, spoiled>>,
         \/ UNCHANGED <<sup, job, batch>>
         \/ sup \notin {"listing", "answering"} /\ sup' \notin {"listing", "answering"}
  PROVE  NamesInv' /\ GotInv' /\ NumberInv'
<1>1. Promised' = Promised /\ Open' = Open
  BY DEF Promised, Open
<1>2. NamesInv'
  BY DEF IInv, NamesInv, OnlyItsOwnDirectory
<1>3. GotInv'
  BY <1>1 DEF IInv, GotInv
<1>4. \A f \in Promised : About(f)' = About(f)
  BY DEF About
<1>5. NumberInv'
  BY <1>1, <1>4 DEF IInv, NumberInv, EntryOf, Listing
<1> QED
  BY <1>2, <1>3, <1>5

(* A thread that enters a call waits in the queue.                         *)
LEMMA AskKeeps ==
  ASSUME IInv, NEW t \in Threads, NEW call, Ask(t, call),
         \/ \E way \in Opens : call = Opening(way)
         \/ \E n \in Numbers, c \in Capacities : call = Reading(n, c),
         opens' \in 0 .. MaxOpens, reads' \in 0 .. MaxReads
  PROVE  IInv'
<1>1. /\ pc' = [pc EXCEPT ![t] = "waiting"] /\ request' = [request EXCEPT ![t] = call]
      /\ queue' = Append(queue, t)
      /\ UNCHANGED <<contents, table, files, sup, job, batch, directories, got, ended,
                     spoiled, tricks>>
  BY DEF Ask, supVars
<1>2. /\ pc' \in [Threads -> {"running", "waiting", "continued"}]
      /\ request' = [u \in Threads |-> request'[u]]
      /\ \A u \in Threads : u # t => pc'[u] = pc[u] /\ request'[u] = request[u]
      /\ pc'[t] = "waiting" /\ request'[t] = call
  BY <1>1 DEF IInv, FormInv
<1>3. Calls'
  BY <1>2 DEF Calls, IInv, TypeOK
<1>4. queue' \in Seq(Threads)
  BY <1>1, AppendProperties DEF IInv, TypeOK
<1>5. TypeOK' /\ FormInv'
  BY <1>1, <1>2, <1>3, <1>4 DEF IInv, TypeOK, FormInv, Calls, Open
<1> QED
  BY <1>1, <1>5, QuietKeeps DEF IInv

(* openat.                                                                 *)
LEMMA OpenDirectoryKeeps ==
  ASSUME IInv, NEW t \in Threads, NEW way \in Opens, OpenDirectory(t, way) PROVE IInv'
<1>1. opens' \in 0 .. MaxOpens /\ reads' \in 0 .. MaxReads
  BY BoundsAssumption DEF OpenDirectory, IInv, TypeOK
<1> QED
  BY <1>1, AskKeeps DEF OpenDirectory

(* getdents64.                                                             *)
LEMMA ReadDirectoryKeeps ==
  ASSUME IInv, NEW t \in Threads, NEW n \in Numbers, NEW c \in Capacities,
         ReadDirectory(t, n, c)
  PROVE  IInv'
<1>1. opens' \in 0 .. MaxOpens /\ reads' \in 0 .. MaxReads
  BY BoundsAssumption DEF ReadDirectory, IInv, TypeOK
<1> QED
  BY <1>1, AskKeeps DEF ReadDirectory

(* What close, dup2 and lseek leave of the shape of the state.             *)
LEMMA TrickForms ==
  ASSUME IInv, NEW t \in Threads, NEW spoils \in SUBSET Open, Trick(t, spoils),
         table' \in [Numbers -> 0 .. Len(files)],
         files' \in Seq(OpenFiles), Len(files') = Len(files)
  PROVE  Forms' /\ Open' = Open
<1>1. /\ tricks' \in 0 .. MaxTricks /\ spoiled' = spoiled \cup spoils
      /\ UNCHANGED <<contents, pc, request, queue, sup, job, batch, directories, got, ended,
                     opens, reads>>
  BY BoundsAssumption DEF Trick, supVars, IInv, TypeOK
<1>2. Open' = Open /\ Open = 1 .. Len(files) /\ \A f \in Open : files'[f] \in OpenFiles
  BY FormFacts, LenProperties DEF Open, Forms, IInv
<1>3. FormInv'
  BY <1>1, <1>2 DEF IInv, FormInv, OpenFiles, Open
<1>4. TypeOK'
  BY <1>1, <1>2 DEF IInv, TypeOK, OpenFiles, Open, Names
<1> QED
  BY <1>2, <1>3, <1>4 DEF Forms

(* A trick may take away numbers of files and spoil files; a number that   *)
(* it gives leads to a file that it spoils.                                *)
LEMMA TrickKeeps ==
  ASSUME IInv, NEW t \in Threads, NEW spoils \in SUBSET Open, Trick(t, spoils),
         table' \in [Numbers -> 0 .. Len(files)],
         \A n \in Numbers : table'[n] \in {0, table[n]} \cup spoils,
         files' \in Seq(OpenFiles), Len(files') = Len(files),
         \A f \in Open : files'[f] = [files[f] EXCEPT !.offset = files'[f].offset]
  PROVE  IInv'
<1>1. /\ spoiled' = spoiled \cup spoils
      /\ UNCHANGED <<contents, sup, job, batch, directories, got, ended>>
  BY DEF Trick, supVars
<1>2. Forms' /\ Open' = Open
  BY TrickForms
<1>3. \A f \in Open : /\ files'[f].dir = files[f].dir /\ files'[f].listing = files[f].listing
                      /\ files'[f].projected = files[f].projected
  BY FormFacts DEF Forms, IInv, OpenFiles
<1>4. Promised' = Promised \ spoils
  BY <1>1, <1>2, <1>3 DEF Promised
<1>5. NamesInv'
  BY <1>1, <1>2, <1>3 DEF IInv, NamesInv, OnlyItsOwnDirectory, FormInv, Open
<1>6. GotInv'
  BY <1>1, <1>3, <1>4 DEF IInv, GotInv, Promised
<1>7. NumberInv'
  <2> SUFFICES ASSUME NEW n \in Numbers, table'[n] \in Promised'
               PROVE  /\ \A m \in Numbers : table'[m] = table'[n] => m = n
                      /\ Listing(table'[n]) => job.number = n
                      /\ ~Listing(table'[n]) =>
                           EntryOf(table[n], n)' /\ (sup = "listing" => job.number # n)
    BY <1>1 DEF NumberInv, Listing
  <2>1. /\ table'[n] = table[n] /\ table[n] \in Promised
        /\ \A m \in Numbers : table'[m] = table'[n] => table[m] = table[n]
    BY <1>4, FormFacts DEF Promised, Forms, IInv
  <2>2. table[n] \in Open
    BY <2>1 DEF Promised
  <2>3. EntryOf(table[n], n) => EntryOf(table[n], n)'
    BY <1>1, <1>3, <2>1, <2>2 DEF EntryOf, About
  <2> QED
    BY <2>1, <2>3 DEF IInv, NumberInv
<1> QED
  BY <1>2, <1>5, <1>6, <1>7 DEF IInv, Forms

(* close takes one number away.                                            *)
LEMMA CloseKeeps ==
  ASSUME IInv, NEW t \in Threads, NEW n \in Numbers, Close(t, n) PROVE IInv'
<1>1. /\ table' = [table EXCEPT ![n] = 0] /\ Trick(t, {}) /\ UNCHANGED files
      /\ table' \in [Numbers -> 0 .. Len(files)]
      /\ \A m \in Numbers : table'[m] \in {0, table[m]}
  BY FormFacts DEF Close, IInv, TypeOK, Forms
<1>2. files' \in Seq(OpenFiles) /\ Len(files') = Len(files)
  BY <1>1 DEF IInv, FormInv, OpenFiles
<1>3. \A f \in Open : files'[f] = [files[f] EXCEPT !.offset = files'[f].offset]
  BY <1>1, FormFacts DEF Forms, IInv, OpenFiles
<1> QED
  BY <1>1, <1>2, <1>3, TrickKeeps

(* dup2 makes a number of another open file, or of the same.               *)
LEMMA Dup2Keeps ==
  ASSUME IInv, NEW t \in Threads, NEW n \in Numbers, NEW m \in Numbers, Dup2(t, n, m)
  PROVE  IInv'
<1>1. /\ table' = [table EXCEPT ![m] = table[n]] /\ Trick(t, {table[n]}) /\ UNCHANGED files
      /\ table[n] \in Open /\ table' \in [Numbers -> 0 .. Len(files)]
      /\ \A k \in Numbers : table'[k] \in {0, table[k]} \cup {table[n]}
  BY FormFacts DEF Dup2, IInv, TypeOK, Forms
<1>2. files' \in Seq(OpenFiles) /\ Len(files') = Len(files)
  BY <1>1 DEF IInv, FormInv, OpenFiles
<1>3. \A f \in Open : files'[f] = [files[f] EXCEPT !.offset = files'[f].offset]
  BY <1>1, FormFacts DEF Forms, IInv, OpenFiles
<1> QED
  BY <1>1, <1>2, <1>3, TrickKeeps

(* The files after a change of one of them.                                *)
LEMMA FilesChange ==
  ASSUME Forms, NEW f \in Open, NEW file \in OpenFiles, files' = [files EXCEPT ![f] = file]
  PROVE  /\ files' \in Seq(OpenFiles) /\ Len(files') = Len(files) /\ Open' = Open
         /\ files'[f] = file /\ \A g \in Open : g # f => files'[g] = files[g]
<1>1. files \in Seq(OpenFiles) /\ f \in 1 .. Len(files)
  BY FormFacts DEF Forms, FormInv, OpenFiles
<1>2. /\ files' \in Seq(OpenFiles) /\ Len(files') = Len(files)
      /\ \A g \in 1 .. Len(files) : files'[g] = IF g = f THEN file ELSE files[g]
  BY <1>1, ExceptSeq
<1>3. Open = 1 .. Len(files) /\ Open' = 1 .. Len(files)
  BY <1>2, FormFacts, LenProperties DEF Open
<1> QED
  BY <1>1, <1>2, <1>3

(* lseek moves an offset, which spoils the reading of that open file.      *)
LEMMA RewindKeeps ==
  ASSUME IInv, NEW t \in Threads, NEW n \in Numbers, Rewind(t, n) PROVE IInv'
<1> DEFINE f == table[n]
           file == [files[f] EXCEPT !.offset = 0]
<1>1. f \in Open /\ Trick(t, {f}) /\ UNCHANGED table /\ file \in OpenFiles
  BY FormFacts DEF Rewind, Forms, IInv, OpenFiles
<1>2. files' = [files EXCEPT ![f] = file]
  BY DEF Rewind
<1>3. /\ files' \in Seq(OpenFiles) /\ Len(files') = Len(files) /\ Open' = Open
      /\ files'[f] = file /\ \A g \in Open : g # f => files'[g] = files[g]
  BY <1>1, <1>2, FilesChange DEF Forms, IInv
<1>4. \A g \in Open : files'[g] \in OpenFiles /\ files[g] \in OpenFiles
  BY <1>1, <1>3, FormFacts DEF Forms, IInv
<1>5. \A g \in Open : files'[g] = [files[g] EXCEPT !.offset = files'[g].offset]
  BY <1>3, <1>4 DEF OpenFiles
<1>6. table' \in [Numbers -> 0 .. Len(files)]
  BY <1>1 DEF IInv, TypeOK
<1> QED
  BY <1>1, <1>3, <1>5, <1>6, TrickKeeps

(* A directory that is opened takes a free number and nothing else.        *)
LEMMA InstallsFacts ==
  ASSUME Forms, Free # {}, NEW dir \in Dirs, NEW projected \in BOOLEAN, Installs(dir, projected)
  PROVE  LET new == Len(files) + 1 IN
         /\ files' \in Seq(OpenFiles) /\ Len(files') = new
         /\ got' \in Seq(Names) /\ Len(got') = new /\ DOMAIN got' = Open'
         /\ Open' = Open \cup {new} /\ new \notin Open
         /\ \A f \in Open : files'[f] = files[f] /\ got'[f] = got[f]
         /\ files'[new].dir = dir /\ files'[new].projected = projected /\ got'[new] = <<>>
         /\ table' \in [Numbers -> 0 .. new]
         /\ Lowest \in Numbers /\ table[Lowest] = 0 /\ table'[Lowest] = new
         /\ \A n \in Numbers : n # Lowest => table'[n] = table[n]
<1> DEFINE new == Len(files) + 1
           file == [dir |-> dir, projected |-> projected, listing |-> <<>>, offset |-> 0]
<1>1. file \in OpenFiles /\ <<>> \in Names
  BY EmptySeq DEF OpenFiles, Names
<1>2. /\ files' = Append(files, file) /\ got' = Append(got, <<>>)
      /\ table' = [table EXCEPT ![Lowest] = new]
  BY DEF Installs
<1>3. /\ files \in Seq(OpenFiles) /\ got \in Seq(Names) /\ Len(got) = Len(files)
      /\ Len(files) \in Nat /\ Open = 1 .. Len(files)
      /\ table \in [Numbers -> 0 .. Len(files)]
  BY FormFacts DEF Forms, FormInv, OpenFiles, TypeOK
<1> HIDE DEF file
<1>4. /\ files' \in Seq(OpenFiles) /\ Len(files') = new
      /\ \A f \in Open : files'[f] = files[f]
      /\ files'[new] = file
  BY <1>1, <1>2, <1>3, AppendProperties
<1>5. /\ got' \in Seq(Names) /\ Len(got') = new
      /\ \A f \in Open : got'[f] = got[f]
      /\ got'[new] = <<>>
  BY <1>1, <1>2, <1>3, AppendProperties
<1>6. DOMAIN got' = 1 .. new /\ Open' = 1 .. new
  BY <1>4, <1>5, LenProperties DEF Open
<1>7. Lowest \in Numbers /\ table[Lowest] = 0
  BY LowestIsFree
<1>8. /\ table' \in [Numbers -> 0 .. new] /\ table'[Lowest] = new
      /\ \A n \in Numbers : n # Lowest => table'[n] = table[n]
  BY <1>2, <1>3, <1>7
<1>9. files'[new].dir = dir /\ files'[new].projected = projected
  BY <1>4 DEF file
<1> QED
  BY <1>3, <1>4, <1>5, <1>6, <1>7, <1>8, <1>9

(* The kernel opens what a continued call names.                           *)
LEMMA KernelOpensKeeps ==
  ASSUME IInv, NEW t \in Threads, KernelOpens(t) PROVE IInv'
<1> DEFINE new == Len(files) + 1
<1>1. /\ request[t].op = "open" /\ Resumes(t)
      /\ UNCHANGED <<contents, queue, sup, job, batch, directories, ended, spoiled,
                     opens, reads, tricks>>
  BY DEF KernelOpens, supVars
<1>2. /\ pc' \in [Threads -> {"running", "waiting", "continued"}]
      /\ request' = [u \in Threads |-> request'[u]] /\ Calls'
  BY <1>1, ResumesForms DEF Forms, IInv
<1>3. CASE UNCHANGED <<files, table, got>>
  <2>1. TypeOK' /\ FormInv'
    BY <1>1, <1>2, <1>3 DEF IInv, TypeOK, FormInv, Calls, Open
  <2> QED
    BY <1>1, <1>3, <2>1, QuietKeeps DEF IInv
<1>4. CASE Free # {} /\ Installs(request[t].dir, FALSE)
  <2>1. request[t].dir \in Dirs
    BY <1>1, CallFacts DEF IInv, TypeOK, Calls
  <2>2. /\ files' \in Seq(OpenFiles) /\ Len(files') = new
        /\ got' \in Seq(Names) /\ Len(got') = new /\ DOMAIN got' = Open'
        /\ Open' = Open \cup {new} /\ new \notin Open
        /\ \A f \in Open : files'[f] = files[f] /\ got'[f] = got[f]
        /\ files'[new].dir \in Dirs /\ files'[new].projected = FALSE /\ got'[new] = <<>>
        /\ table' \in [Numbers -> 0 .. new]
        /\ Lowest \in Numbers /\ table[Lowest] = 0 /\ table'[Lowest] = new
        /\ \A n \in Numbers : n # Lowest => table'[n] = table[n]
    BY <1>4, <2>1, InstallsFacts DEF Forms, IInv
  <2>3. /\ Open' = 1 .. new /\ \A f \in Open' : files'[f] \in OpenFiles
        /\ Len(files) \in Nat
    BY <2>2, LenProperties, FormFacts DEF Open, Forms, IInv
  <2>4. FormInv'
    BY <1>1, <1>2, <2>2, <2>3 DEF IInv, FormInv, OpenFiles, Open
  <2>5. TypeOK'
    <3>1. \A f \in Open' :
            /\ files'[f].dir \in Dirs /\ files'[f].projected \in BOOLEAN
            /\ files'[f].listing \in Names /\ files'[f].offset \in Nat
      BY <2>3 DEF OpenFiles
    <3>2. DOMAIN files' = Open' /\ DOMAIN files = Open /\ Open \subseteq Open'
      BY <2>2 DEF Open
    <3>3. job.file \in 0 .. Len(files') /\ table' \in [Numbers -> 0 .. Len(files')]
      BY <2>2, <2>3 DEF IInv, TypeOK
    <3>4. DOMAIN got' = DOMAIN files' /\ ended \cup spoiled \subseteq DOMAIN files'
      BY <2>2, <3>2 DEF IInv, TypeOK
    <3> QED
      BY <1>1, <1>2, <3>1, <3>2, <3>3, <3>4 DEF IInv, TypeOK, Calls, Names
  <2>6. Promised' = Promised
    BY <1>1, <2>2 DEF Promised
  <2>7. NamesInv'
    <3>1. Range(got'[new]) = {}
      BY <2>2 DEF Range
    <3>2. sup = "answering" => files'[job.file].dir = files[job.file].dir
      BY <2>2 DEF IInv, FormInv
    <3>3. \A f \in Open' : Range(got'[f]) \subseteq NamesOf(files'[f].dir)
      BY <2>2, <3>1 DEF IInv, NamesInv, OnlyItsOwnDirectory, Open
    <3> QED
      BY <1>1, <3>2, <3>3 DEF IInv, NamesInv, OnlyItsOwnDirectory, Open
  <2>8. GotInv'
    BY <1>1, <2>2, <2>6 DEF IInv, GotInv, Promised
  <2>9. NumberInv'
    <3>1. \A f \in Promised : f # new /\ files'[f] = files[f] /\ got'[f] = got[f]
      BY <2>2 DEF Promised
    <3>2. \A n \in Numbers : table'[n] \in Promised =>
            n # Lowest /\ table'[n] = table[n]
      BY <2>2, <3>1
    <3>3. \A f \in Promised : About(f)' = About(f)
      BY <1>1, <3>1 DEF About
    <3>4. \A f \in Promised : \A n \in Numbers : EntryOf(f, n) => EntryOf(f, n)'
      BY <1>1, <3>1, <3>3 DEF EntryOf
    <3> QED
      BY <1>1, <2>6, <3>2, <3>4 DEF IInv, NumberInv, Listing
  <2> QED
    BY <2>4, <2>5, <2>7, <2>8, <2>9 DEF IInv
<1> QED
  BY <1>3, <1>4 DEF KernelOpens

(* Names that a file of this directory gives to its readers.               *)
LEMMA GetsFacts ==
  ASSUME Forms, OnlyItsOwnDirectory, NEW f \in Open, NEW names \in Names, NEW end,
         Gets(f, names, end), Range(names) \subseteq NamesOf(files[f].dir)
  PROVE  /\ got' \in Seq(Names) /\ Len(got') = Len(files) /\ DOMAIN got' = Open
         /\ got'[f] = got[f] \o names /\ \A g \in Open : g # f => got'[g] = got[g]
         /\ ended' \subseteq ended \cup {f} /\ (~end => ended' = ended)
         /\ \A g \in Open : Range(got'[g]) \subseteq NamesOf(files[g].dir)
<1>1. got' = [got EXCEPT ![f] = got[f] \o names] /\ ended' = IF end THEN ended \cup {f} ELSE ended
  BY DEF Gets
<1>2. /\ got[f] \in Names /\ f \in 1 .. Len(got) /\ got \in Seq(Names) /\ Len(got) = Len(files)
      /\ Open = 1 .. Len(files)
  BY FormFacts DEF Forms, FormInv
<1>3. got[f] \o names \in Names /\ Range(got[f] \o names) \subseteq NamesOf(files[f].dir)
  BY <1>2, RangeOfConcat DEF OnlyItsOwnDirectory, Open
<1>4. /\ got' \in Seq(Names) /\ Len(got') = Len(files)
      /\ \A g \in Open : got'[g] = IF g = f THEN got[f] \o names ELSE got[g]
  BY <1>1, <1>2, <1>3, ExceptSeq
<1>5. DOMAIN got' = Open
  BY <1>2, <1>4, LenProperties
<1> QED
  BY <1>1, <1>2, <1>3, <1>4, <1>5 DEF OnlyItsOwnDirectory, Open

(* What the kernel reads spoils the file.                                  *)
LEMMA KernelReadsKeeps ==
  ASSUME IInv, NEW t \in Threads, KernelReads(t) PROVE IInv'
<1> DEFINE f == table[request[t].number]
           names == Records(contents[files[f].dir], files[f].offset, request[t].capacity)
<1>1. /\ request[t].op = "getdents" /\ Resumes(t)
      /\ UNCHANGED <<contents, queue, table, sup, job, batch, directories, opens, reads, tricks>>
  BY DEF KernelReads, supVars
<1>2. /\ pc' \in [Threads -> {"running", "waiting", "continued"}]
      /\ request' = [u \in Threads |-> request'[u]] /\ Calls'
  BY <1>1, ResumesForms DEF Forms, IInv
<1>3. CASE UNCHANGED <<files, got, ended, spoiled>>
  <2>1. TypeOK' /\ FormInv'
    BY <1>1, <1>2, <1>3 DEF IInv, TypeOK, FormInv, Calls, Open
  <2> QED
    BY <1>1, <1>3, <2>1, QuietKeeps DEF IInv
<1>4. CASE /\ f # 0 /\ files' = [files EXCEPT ![f].offset = @ + Len(names)]
           /\ Gets(f, names, files[f].offset = Len(contents[files[f].dir]))
           /\ spoiled' = spoiled \cup {f}
  <2>1. request[t].number \in Numbers /\ request[t].capacity \in Nat
    BY <1>1, CallFacts DEF IInv, TypeOK, Calls
  <2>2. /\ f \in Open /\ files[f] \in OpenFiles /\ files[f].dir \in Dirs
        /\ files[f].offset \in Nat /\ contents[files[f].dir] \in Names
    BY <1>4, <2>1, FormFacts DEF Forms, IInv, OpenFiles
  <2>3. /\ names \in Names /\ Len(names) \in Nat
        /\ Range(names) \subseteq NamesOf(files[f].dir)
    BY <2>1, <2>2, RecordsAreListed DEF IInv, NamesInv
  <2> HIDE DEF f, names
  <2> DEFINE file == [files[f] EXCEPT !.offset = @ + Len(names)]
  <2>4. file \in OpenFiles /\ files' = [files EXCEPT ![f] = file]
    BY <1>4, <2>2, <2>3 DEF OpenFiles
  <2>5. /\ files' \in Seq(OpenFiles) /\ Len(files') = Len(files) /\ Open' = Open
        /\ \A g \in Open : files'[g] \in OpenFiles
        /\ \A g \in Open : files'[g].dir = files[g].dir /\ files'[g].listing = files[g].listing
                          /\ files'[g].projected = files[g].projected
    <3>1. /\ files' \in Seq(OpenFiles) /\ Len(files') = Len(files) /\ Open' = Open
          /\ files'[f] = file /\ \A g \in Open : g # f => files'[g] = files[g]
      BY <2>2, <2>4, FilesChange DEF Forms, IInv
    <3>2. file.dir = files[f].dir /\ file.listing = files[f].listing
          /\ file.projected = files[f].projected
      BY <2>2 DEF OpenFiles
    <3> HIDE DEF file
    <3> QED
      BY <2>4, <3>1, <3>2, FormFacts DEF Forms, IInv
  <2>6. /\ got' \in Seq(Names) /\ Len(got') = Len(files) /\ DOMAIN got' = Open
        /\ \A g \in Open : g # f => got'[g] = got[g]
        /\ ended' \subseteq ended \cup {f}
        /\ \A g \in Open : Range(got'[g]) \subseteq NamesOf(files[g].dir)
    BY <1>4, <2>2, <2>3, GetsFacts DEF Forms, IInv, NamesInv
  <2>7. FormInv'
    BY <1>1, <1>2, <2>5, <2>6 DEF IInv, FormInv, OpenFiles, Open
  <2>8. TypeOK'
    <3>1. \A g \in Open' :
            /\ files'[g].dir \in Dirs /\ files'[g].projected \in BOOLEAN
            /\ files'[g].listing \in Names /\ files'[g].offset \in Nat
      BY <2>5 DEF OpenFiles
    <3>2. DOMAIN got' = DOMAIN files' /\ ended' \cup spoiled' \subseteq DOMAIN files'
      BY <1>4, <2>2, <2>5, <2>6 DEF IInv, TypeOK, Open
    <3> QED
      BY <1>1, <1>2, <2>5, <3>1, <3>2 DEF IInv, TypeOK, Calls, Names, Open
  <2>9. Promised' = Promised \ {f}
    BY <1>4, <2>5 DEF Promised
  <2>10. NamesInv'
    BY <1>1, <2>5, <2>6 DEF IInv, NamesInv, OnlyItsOwnDirectory, FormInv, Open
  <2>11. GotInv'
    BY <1>1, <2>5, <2>6, <2>9 DEF IInv, GotInv, Promised
  <2>12. NumberInv'
    <3>1. \A g \in Promised' : g \in Promised /\ got'[g] = got[g] /\ About(g)' = About(g)
      BY <1>1, <2>6, <2>9 DEF About, Promised
    <3>2. \A g \in Promised' : \A n \in Numbers : EntryOf(g, n) => EntryOf(g, n)'
      BY <1>1, <2>5, <2>9, <3>1 DEF EntryOf, Promised
    <3> QED
      BY <1>1, <3>1, <3>2 DEF IInv, NumberInv, Listing
  <2> QED
    BY <2>7, <2>8, <2>10, <2>11, <2>12 DEF IInv
<1> QED
  BY <1>3, <1>4 DEF KernelReads

(* Someone else changes the directory itself.                              *)
LEMMA ExternalWriteKeeps ==
  ASSUME IInv, ExternalWrite PROVE IInv'
<1>1. UNCHANGED <<pc, request, queue, table, files, sup, job, batch, directories,
                  got, ended, spoiled, opens, reads, tricks>>
  BY DEF ExternalWrite, processVars, supVars, history
<1>d. PICK d \in Dirs : \E name \in Spare[d] :
        contents' = [contents EXCEPT ![d] = Append(contents[d], name)]
  BY DEF ExternalWrite
<1>2. PICK name \in Spare[d] : contents' = [contents EXCEPT ![d] = Append(contents[d], name)]
  BY <1>d
<1> DEFINE longer == Append(contents[d], name)
<1>3. contents[d] \in Names /\ name \in AllNames /\ name \in NamesOf(d)
  <2>1. contents[d] \in Names
    BY FormFacts DEF Forms, IInv
  <2>2. name \in NamesOf(d)
    BY DEF NamesOf
  <2> QED
    BY <2>1, <2>2 DEF AllNames
<1>4. /\ longer \in Names /\ Len(longer) = Len(contents[d]) + 1
      /\ \A i \in 1 .. Len(contents[d]) : longer[i] = contents[d][i]
      /\ longer[Len(contents[d]) + 1] = name
  BY <1>3, AppendProperties DEF Names
<1>5. Range(longer) \subseteq Range(contents[d]) \cup {name}
  <2>1. /\ DOMAIN longer = 1 .. Len(contents[d]) + 1 /\ DOMAIN contents[d] = 1 .. Len(contents[d])
        /\ Len(contents[d]) \in Nat
    BY <1>3, <1>4, LenProperties DEF Names
  <2> HIDE DEF longer
  <2> QED
    BY <1>4, <2>1 DEF Range
<1> HIDE DEF longer
<1>6. /\ contents' \in [Dirs -> Names]
      /\ \A e \in Dirs : Range(contents'[e]) \subseteq NamesOf(e)
  BY <1>2, <1>3, <1>4, <1>5 DEF IInv, TypeOK, NamesInv, Names, longer
<1>7. TypeOK' /\ FormInv'
  BY <1>1, <1>6 DEF IInv, TypeOK, FormInv, Names, Open
<1>8. NamesInv'
  BY <1>1, <1>6 DEF IInv, NamesInv, OnlyItsOwnDirectory
<1>9. GotInv' /\ NumberInv'
  BY <1>1 DEF IInv, GotInv, Promised, NumberInv, EntryOf, About, Listing, Open
<1> QED
  BY <1>7, <1>8, <1>9 DEF IInv

-------------------------------------------------------------------------------
(***************************************************************************)
(* The steps of the supervisor                                             *)
(***************************************************************************)

(* The supervisor takes the first notification.                            *)
LEMMA ReceiveKeeps ==
  ASSUME IInv, Receive PROVE IInv'
<1>1. /\ sup = "poll" /\ sup' = "serving" /\ job' = [Idle EXCEPT !.thread = Head(queue)]
      /\ queue # <<>> /\ queue' = Tail(queue)
      /\ UNCHANGED <<contents, pc, request, table, files, batch, directories,
                     got, ended, spoiled, opens, reads, tricks>>
  BY DEF Receive, history
<1>2. Head(queue) \in Threads /\ queue' \in Seq(Threads)
  BY <1>1, HeadTailProperties DEF IInv, TypeOK
<1>3. job' \in [thread : Threads, number : Numbers \cup {0}, file : 0 .. Len(files)]
  <2>1. Len(files) \in Nat
    BY FormFacts DEF Forms, IInv
  <2> QED
    BY <1>1, <1>2, <2>1, IdleForm
<1>4. TypeOK'
  <2>1. /\ job'.thread \in Threads /\ job'.number \in Numbers \cup {0}
        /\ job'.file \in 0 .. Len(files)
    BY <1>3
  <2> HIDE <1>3
  <2> QED
    BY <1>1, <1>2, <2>1 DEF IInv, TypeOK
<1>5. FormInv'
  BY <1>1, <1>3 DEF IInv, FormInv
<1> QED
  BY <1>1, <1>4, <1>5, QuietKeeps DEF IInv

(* The idle job fits the open files there are.                             *)
LEMMA IdleIsFormed ==
  ASSUME Forms
  PROVE  Idle \in [thread : Threads, number : Numbers \cup {0}, file : 0 .. Len(files)]
BY IdleForm, FormFacts

(* An open that needs no translation is continued.                         *)
LEMMA ServeHostOpenKeeps ==
  ASSUME IInv, ServeHostOpen PROVE IInv'
<1>1. /\ sup = "serving" /\ Asked.op = "open" /\ Continues
      /\ UNCHANGED <<contents, request, queue, table, files, batch, directories,
                     got, ended, spoiled, opens, reads, tricks>>
  BY DEF ServeHostOpen, history
<1>2. /\ pc' \in [Threads -> {"running", "waiting", "continued"}]
      /\ request' = [u \in Threads |-> request'[u]] /\ Calls'
      /\ sup' = "poll" /\ job' = Idle
  BY <1>1, ContinuesForms DEF Forms, IInv
<1>3. Idle \in [thread : Threads, number : Numbers \cup {0}, file : 0 .. Len(files)]
  BY IdleIsFormed DEF Forms, IInv
<1>4. TypeOK' /\ FormInv'
  BY <1>1, <1>2, <1>3 DEF IInv, TypeOK, FormInv, Calls, Open
<1> QED
  BY <1>1, <1>2, <1>4, QuietKeeps DEF IInv

(* The number is free, so that no other file is there until this one is    *)
(* listed, but those that the kernel opens.                                *)
LEMMA ServeOpenKeeps ==
  ASSUME IInv, ServeOpen PROVE IInv'
<1> DEFINE new == Len(files) + 1
<1>1. /\ sup = "serving" /\ Asked.op = "open" /\ Asked.projected /\ Resumes(job.thread)
      /\ UNCHANGED <<contents, queue, batch, directories, ended, spoiled, opens, reads, tricks>>
  BY DEF ServeOpen
<1>2. /\ pc' \in [Threads -> {"running", "waiting", "continued"}]
      /\ request' = [u \in Threads |-> request'[u]] /\ Calls'
  BY <1>1, ResumesForms, FormFacts DEF Forms, IInv
<1>3. CASE Polls /\ UNCHANGED <<files, table, got>>
  <2>1. sup' = "poll" /\ job' = Idle
    BY <1>3 DEF Polls
  <2>2. Idle \in [thread : Threads, number : Numbers \cup {0}, file : 0 .. Len(files)]
    BY IdleIsFormed DEF Forms, IInv
  <2>3. TypeOK' /\ FormInv'
    BY <1>1, <1>2, <1>3, <2>1, <2>2 DEF IInv, TypeOK, FormInv, Calls, Open
  <2> QED
    BY <1>1, <1>3, <2>1, <2>3, QuietKeeps DEF IInv
<1>4. CASE /\ Free # {} /\ Installs(Asked.dir, TRUE) /\ sup' = "listing"
           /\ job' = [job EXCEPT !.number = Lowest, !.file = new]
  <2>1. Asked.dir \in Dirs
    BY <1>1, CallFacts, FormFacts DEF Forms, IInv, TypeOK, Calls, Asked
  <2>2. /\ files' \in Seq(OpenFiles) /\ Len(files') = new
        /\ got' \in Seq(Names) /\ Len(got') = new /\ DOMAIN got' = Open'
        /\ Open' = Open \cup {new} /\ new \notin Open
        /\ \A f \in Open : files'[f] = files[f] /\ got'[f] = got[f]
        /\ got'[new] = <<>>
        /\ table' \in [Numbers -> 0 .. new]
        /\ Lowest \in Numbers /\ table[Lowest] = 0 /\ table'[Lowest] = new
        /\ \A n \in Numbers : n # Lowest => table'[n] = table[n]
    BY <1>4, <2>1, InstallsFacts DEF Forms, IInv
  <2>3. /\ Open' = 1 .. new /\ \A f \in Open' : files'[f] \in OpenFiles
        /\ Len(files) \in Nat
    BY <2>2, LenProperties, FormFacts DEF Open, Forms, IInv
  <2>4. /\ job' \in [thread : Threads, number : Numbers \cup {0}, file : 0 .. new]
        /\ job'.number = Lowest /\ job'.file = new
    BY <1>4, <2>2, <2>3 DEF IInv, FormInv
  <2>5. FormInv'
    BY <1>1, <1>2, <1>4, <2>2, <2>3, <2>4 DEF IInv, FormInv, OpenFiles
  <2>6. TypeOK'
    <3>1. \A f \in Open' :
            /\ files'[f].dir \in Dirs /\ files'[f].projected \in BOOLEAN
            /\ files'[f].listing \in Names /\ files'[f].offset \in Nat
      BY <2>3 DEF OpenFiles
    <3>2. DOMAIN files' = Open' /\ DOMAIN files = Open /\ Open \subseteq Open'
      BY <2>2 DEF Open
    <3>3. DOMAIN got' = DOMAIN files' /\ ended \cup spoiled \subseteq DOMAIN files'
      BY <2>2, <3>2 DEF IInv, TypeOK
    <3> QED
      BY <1>1, <1>2, <1>4, <2>2, <2>4, <3>1, <3>2, <3>3 DEF IInv, TypeOK, Calls, Names
  <2>7. Promised' \subseteq Promised \cup {new} /\ new \notin Promised
    BY <1>1, <2>2 DEF Promised
  <2>8. NamesInv'
    <3>1. Range(got'[new]) = {}
      BY <2>2 DEF Range
    <3>2. \A f \in Open' : Range(got'[f]) \subseteq NamesOf(files'[f].dir)
      BY <2>2, <3>1 DEF IInv, NamesInv, OnlyItsOwnDirectory, Open
    <3> QED
      BY <1>1, <1>4, <3>2 DEF IInv, NamesInv, OnlyItsOwnDirectory, Open
  <2>9. new \notin ended
    BY <2>2 DEF IInv, TypeOK, Open
  <2>10. GotInv'
    <3>1. Upto(got'[new], files'[new].listing)
      <4>1. files'[new].listing \in Names
        BY <2>2, <2>3 DEF OpenFiles
      <4>2. 0 \in 0 .. Len(files'[new].listing)
        BY <4>1, LenProperties DEF Names
      <4>3. SubSeq(files'[new].listing, 1, 0) = <<>>
        BY SubSeqEmpty
      <4> QED
        BY <2>2, <4>2, <4>3 DEF Upto
    <3>2. \A f \in Promised : files'[f] = files[f] /\ got'[f] = got[f]
      BY <2>2 DEF Promised
    <3> QED
      BY <1>1, <1>4, <2>2, <2>4, <2>7, <2>9, <3>1, <3>2 DEF IInv, GotInv
  <2>11. NumberInv'
    <3>1. \A f \in Promised : f # new /\ files'[f] = files[f] /\ got'[f] = got[f]
      BY <2>2 DEF Promised
    <3>2. \A n \in Numbers : table'[n] \in Promised => n # Lowest /\ table'[n] = table[n]
      BY <2>2, <3>1
    <3>3. \A n \in Numbers : table'[n] = new => n = Lowest
      BY <2>2, <2>3, FormFacts DEF Forms, IInv
    <3>4. \A f \in Promised : About(f)' = About(f)
      BY <1>1, <1>4, <3>1 DEF About
    <3>5. \A f \in Promised : \A n \in Numbers : EntryOf(f, n) => EntryOf(f, n)'
      BY <1>1, <3>1, <3>4 DEF EntryOf
    <3> QED
      BY <1>1, <1>4, <2>2, <2>4, <2>7, <3>1, <3>2, <3>3, <3>5 DEF IInv, NumberInv, Listing
  <2> QED
    BY <2>5, <2>6, <2>8, <2>10, <2>11 DEF IInv
<1> QED
  BY <1>3, <1>4 DEF ServeOpen

(* The entry at the number is the new file's from now on.                  *)
LEMMA ListKeeps ==
  ASSUME IInv, List PROVE IInv'
<1> DEFINE f == job.file
           dir == files[f].dir
           listing == contents[dir]
<1>1. /\ sup = "listing" /\ sup' = "poll" /\ job' = Idle
      /\ UNCHANGED <<contents, pc, request, queue, table, batch, got, ended,
                     opens, reads, tricks>>
  BY DEF List, Polls
<1>2. Idle \in [thread : Threads, number : Numbers \cup {0}, file : 0 .. Len(files)]
  BY IdleIsFormed DEF Forms, IInv
<1>3. /\ f \in Open /\ job.number \in Numbers /\ files[f] \in OpenFiles /\ dir \in Dirs
      /\ listing \in Names
  BY <1>1, FormFacts DEF Forms, IInv, FormInv, OpenFiles
<1>4. CASE spoiled' = spoiled \cup {f} /\ UNCHANGED <<directories, files>>
  <2>1. TypeOK'
    BY <1>1, <1>2, <1>3, <1>4 DEF IInv, TypeOK, Open
  <2>2. FormInv'
    BY <1>1, <1>2, <1>4 DEF IInv, FormInv
  <2>3. Promised' = Promised \ {f} /\ Open' = Open
    BY <1>4 DEF Promised, Open
  <2>4. NamesInv' /\ GotInv'
    BY <1>1, <1>4, <2>3 DEF IInv, NamesInv, OnlyItsOwnDirectory, GotInv
  <2>5. NumberInv'
    BY <1>1, <1>4, <2>3 DEF IInv, NumberInv, EntryOf, About, Listing
  <2> QED
    BY <2>1, <2>2, <2>4, <2>5 DEF IInv
<1>5. CASE /\ directories' = [directories EXCEPT ![job.number] =
                                [dir |-> dir, listing |-> listing, cursor |-> 0]]
           /\ files' = [files EXCEPT ![f].listing = listing]
           /\ UNCHANGED spoiled
  <2> DEFINE entry == [dir |-> dir, listing |-> listing, cursor |-> 0]
             file == [files[f] EXCEPT !.listing = listing]
  <2>1. /\ file \in OpenFiles /\ entry \in Entries /\ file.listing = listing
        /\ file.dir = dir /\ file.projected = files[f].projected
    BY <1>3 DEF OpenFiles, Entries
  <2>2. /\ directories' \in [Numbers -> Entries \cup {NoEntry}]
        /\ directories'[job.number] = entry
        /\ \A n \in Numbers : n # job.number => directories'[n] = directories[n]
    BY <1>3, <1>5, <2>1 DEF IInv, FormInv
  <2>3. entry # NoEntry /\ entry.dir = dir /\ entry.listing = listing /\ entry.cursor = 0
    BY DEF NoEntry
  <2> HIDE DEF file, entry
  <2>4. /\ files' \in Seq(OpenFiles) /\ Len(files') = Len(files) /\ Open' = Open
        /\ files'[f] = file /\ \A g \in Open : g # f => files'[g] = files[g]
    BY <1>3, <1>5, <2>1, FilesChange DEF Forms, IInv, file
  <2>5. \A g \in Open : /\ files'[g] \in OpenFiles /\ files'[g].dir = files[g].dir
                        /\ files'[g].projected = files[g].projected
    BY <2>1, <2>4, FormFacts DEF Forms, IInv
  <2>6. FormInv'
    BY <1>1, <1>2, <2>2, <2>4 DEF IInv, FormInv, OpenFiles, Open
  <2>7. TypeOK'
    <3>1. \A g \in Open' :
            /\ files'[g].dir \in Dirs /\ files'[g].projected \in BOOLEAN
            /\ files'[g].listing \in Names /\ files'[g].offset \in Nat
      BY <2>4, <2>5 DEF OpenFiles
    <3>2. \A n \in Numbers : directories'[n] # NoEntry =>
            /\ directories'[n].dir \in Dirs
            /\ directories'[n].cursor \in 0 .. Len(directories'[n].listing)
      <4>1. Len(listing) \in Nat
        BY <1>3, LenProperties DEF Names
      <4>2. entry.dir \in Dirs /\ entry.cursor \in 0 .. Len(entry.listing)
        BY <1>3, <2>3, <4>1
      <4> QED
        BY <2>2, <4>2 DEF IInv, TypeOK
    <3>3. DOMAIN files' = DOMAIN files /\ DOMAIN files' = Open'
      BY <2>4 DEF Open
    <3>4. table' \in [Numbers -> 0 .. Len(files')] /\ job' \in [thread : Threads,
            number : Numbers \cup {0}, file : 0 .. Len(files')]
      BY <1>1, <1>2, <2>4 DEF IInv, TypeOK
    <3> QED
      BY <1>1, <1>5, <3>1, <3>2, <3>3, <3>4 DEF IInv, TypeOK, Names
  <2>8. Promised' = Promised
    BY <1>5, <2>4, <2>5 DEF Promised
  <2>9. NamesInv'
    <3>1. Range(listing) \subseteq NamesOf(dir)
      BY <1>3 DEF IInv, NamesInv
    <3>2. \A n \in Numbers : directories'[n] # NoEntry =>
            Range(directories'[n].listing) \subseteq NamesOf(directories'[n].dir)
      BY <2>2, <2>3, <3>1 DEF IInv, NamesInv
    <3>3. OnlyItsOwnDirectory'
      BY <1>1, <2>4, <2>5 DEF IInv, NamesInv, OnlyItsOwnDirectory, Open
    <3> QED
      BY <1>1, <3>2, <3>3 DEF IInv, NamesInv
  <2>10. f \in Promised => got[f] = <<>> /\ f \notin ended
    BY <1>1 DEF IInv, GotInv
  <2>11. SubSeq(listing, 1, 0) = <<>> /\ Upto(<<>>, listing)
    <3>1. SubSeq(listing, 1, 0) = <<>>
      BY SubSeqEmpty
    <3>2. 0 \in 0 .. Len(listing)
      BY <1>3, LenProperties DEF Names
    <3> QED
      BY <3>1, <3>2 DEF Upto
  <2>12. GotInv'
    BY <1>1, <2>1, <2>4, <2>8, <2>10, <2>11 DEF IInv, GotInv, Promised
  <2>13. NumberInv'
    <3> SUFFICES ASSUME NEW n \in Numbers, table[n] \in Promised
                 PROVE  /\ \A m \in Numbers : table[m] = table[n] => m = n
                        /\ EntryOf(table[n], n)'
      BY <1>1, <2>8 DEF NumberInv, Listing
    <3>1. \A m \in Numbers : table[m] = table[n] => m = n
      BY DEF IInv, NumberInv
    <3>2. CASE table[n] = f
      <4>1. n = job.number /\ got[f] = <<>>
        BY <1>1, <2>10, <3>2 DEF IInv, NumberInv, Listing
      <4> QED
        BY <1>1, <1>3, <2>1, <2>2, <2>3, <2>4, <2>11, <3>1, <3>2, <4>1 DEF EntryOf, About
    <3>3. CASE table[n] # f
      <4>1. n # job.number /\ EntryOf(table[n], n)
        BY <1>1, <3>3 DEF IInv, NumberInv, Listing
      <4>2. files'[table[n]] = files[table[n]] /\ directories'[n] = directories[n]
        BY <2>2, <2>4, <3>3, <4>1 DEF Promised
      <4> QED
        BY <1>1, <3>1, <4>1, <4>2 DEF EntryOf, About
    <3> QED
      BY <3>1, <3>2, <3>3
  <2> QED
    BY <2>6, <2>7, <2>9, <2>12, <2>13 DEF IInv
<1> QED
  BY <1>4, <1>5 DEF List

(* An entry that is dropped was not one of a file that is promised.        *)
LEMMA ServeUnlistedReadKeeps ==
  ASSUME IInv, ServeUnlistedRead PROVE IInv'
<1> DEFINE n == Asked.number
<1>1. /\ sup = "serving" /\ Asked.op = "getdents" /\ ~Listed(n) /\ Continues
      /\ directories' = [directories EXCEPT ![n] = NoEntry]
      /\ UNCHANGED <<contents, request, queue, table, files, batch,
                     got, ended, spoiled, opens, reads, tricks>>
  BY DEF ServeUnlistedRead, history
<1>2. /\ pc' \in [Threads -> {"running", "waiting", "continued"}]
      /\ request' = [u \in Threads |-> request'[u]] /\ Calls'
      /\ sup' = "poll" /\ job' = Idle
  BY <1>1, ContinuesForms DEF Forms, IInv
<1>3. Idle \in [thread : Threads, number : Numbers \cup {0}, file : 0 .. Len(files)]
  BY IdleIsFormed DEF Forms, IInv
<1>4. n \in Numbers
  BY <1>1, CallFacts, FormFacts DEF Forms, IInv, TypeOK, Calls, Asked
<1> HIDE DEF n
<1>5. /\ directories' \in [Numbers -> Entries \cup {NoEntry}]
      /\ directories'[n] = NoEntry
      /\ \A m \in Numbers : m # n => directories'[m] = directories[m]
  BY <1>1, <1>4 DEF IInv, FormInv
<1>6. TypeOK'
  BY <1>1, <1>2, <1>3, <1>5 DEF IInv, TypeOK, Calls
<1>7. FormInv'
  BY <1>1, <1>2, <1>3, <1>5 DEF IInv, FormInv
<1>8. Promised' = Promised /\ Open' = Open
  BY <1>1 DEF Promised, Open
<1>9. NamesInv'
  BY <1>1, <1>2, <1>5 DEF IInv, NamesInv, OnlyItsOwnDirectory
<1>10. GotInv'
  BY <1>1, <1>2, <1>8 DEF IInv, GotInv
<1>11. NumberInv'
  <2>1. table[n] \notin Promised
    <3>1. table[n] \in Promised => EntryOf(table[n], n)
      BY <1>1, <1>4 DEF IInv, NumberInv, Listing
    <3>2. table[n] \in Promised => table[n] # 0
      BY FormFacts DEF Promised, Forms, IInv
    <3> QED
      BY <1>1, <3>1, <3>2 DEF EntryOf, Listed
  <2>2. \A m \in Numbers : table[m] \in Promised => directories'[m] = directories[m]
    BY <1>5, <2>1
  <2> QED
    BY <1>1, <1>2, <1>8, <2>2 DEF IInv, NumberInv, EntryOf, About, Listing
<1> QED
  BY <1>6, <1>7, <1>9, <1>10, <1>11 DEF IInv

(* The cursor moves by what is about to be answered.                       *)
LEMMA ServeReadKeeps ==
  ASSUME IInv, ServeRead PROVE IInv'
<1> DEFINE n     == Asked.number
           entry == directories[n]
           names == Records(entry.listing, entry.cursor, Asked.capacity)
           f     == table[n]
           moved == Advance(entry, Asked.capacity)
<1>1. /\ sup = "serving" /\ Asked.op = "getdents" /\ Listed(n)
      /\ UNCHANGED <<contents, queue, table, files, got, ended, spoiled, opens, reads, tricks>>
  BY DEF ServeRead, history
<1>2. n \in Numbers /\ Asked.capacity \in Nat
  BY <1>1, CallFacts, FormFacts DEF Forms, IInv, TypeOK, Calls, Asked
<1>3. CASE Polls /\ Resumes(job.thread) /\ UNCHANGED <<batch, directories>>
  <2>1. sup' = "poll" /\ job' = Idle
    BY <1>3 DEF Polls
  <2>2. /\ pc' \in [Threads -> {"running", "waiting", "continued"}]
        /\ request' = [u \in Threads |-> request'[u]] /\ Calls'
    BY <1>3, ResumesForms, FormFacts DEF Forms, IInv
  <2>3. Idle \in [thread : Threads, number : Numbers \cup {0}, file : 0 .. Len(files)]
    BY IdleIsFormed DEF Forms, IInv
  <2>4. TypeOK'
    BY <1>1, <1>3, <2>1, <2>2, <2>3 DEF IInv, TypeOK, Calls
  <2>5. FormInv'
    BY <1>1, <1>3, <2>1, <2>2, <2>3 DEF IInv, FormInv
  <2> QED
    BY <1>1, <1>3, <2>1, <2>4, <2>5, QuietKeeps DEF IInv
<1>4. CASE /\ names # <<>> \/ entry.cursor = Len(entry.listing)
           /\ sup' = "answering" /\ batch' = names
           /\ job' = [job EXCEPT !.file = f]
           /\ directories' = [directories EXCEPT ![n] = moved]
           /\ UNCHANGED <<pc, request>>
  <2>1. /\ f \in Open /\ files[f] \in OpenFiles /\ files[f].dir = entry.dir
        /\ entry \in Entries /\ entry # NoEntry
        /\ entry.listing \in Names /\ entry.cursor \in 0 .. Len(entry.listing)
    BY <1>1, <1>2, FormFacts DEF Listed, Forms, IInv, Entries
  <2>2. /\ names \in Names /\ Len(names) \in Nat
        /\ entry.cursor + Len(names) \in 0 .. Len(entry.listing)
        /\ SubSeq(entry.listing, 1, entry.cursor) \o names
             = SubSeq(entry.listing, 1, entry.cursor + Len(names))
        /\ Range(names) \subseteq Range(entry.listing)
    BY <1>2, <2>1, RecordsAreNext
  <2>3. moved \in Entries /\ moved # NoEntry
        /\ moved.dir = entry.dir /\ moved.listing = entry.listing
        /\ moved.cursor = entry.cursor + Len(names)
    <3>1. moved = [entry EXCEPT !.cursor = entry.cursor + Len(names)]
      BY DEF Advance
    <3>2. entry.cursor + Len(names) \in Nat
      BY <2>1, <2>2, LenProperties DEF Names
    <3> HIDE DEF moved, entry, names
    <3> QED
      BY <2>1, <3>1, <3>2 DEF Entries, NoEntry
  <2> HIDE DEF n, entry, names, f, moved
  <2>4. /\ directories' \in [Numbers -> Entries \cup {NoEntry}]
        /\ directories'[n] = moved
        /\ \A m \in Numbers : m # n => directories'[m] = directories[m]
    BY <1>2, <1>4, <2>3 DEF IInv, FormInv
  <2>5. /\ job' \in [thread : Threads, number : Numbers \cup {0}, file : 0 .. Len(files)]
        /\ job'.file = f
    <3>1. f \in 0 .. Len(files)
      BY <2>1, FormFacts DEF Forms, IInv
    <3> QED
      BY <1>4, <3>1 DEF IInv, FormInv
  <2>6. TypeOK'
    <3>1. \A m \in Numbers : directories'[m] # NoEntry =>
            /\ directories'[m].dir \in Dirs
            /\ directories'[m].cursor \in 0 .. Len(directories'[m].listing)
      BY <2>1, <2>2, <2>3, <2>4 DEF IInv, TypeOK, Entries
    <3>2. /\ job'.thread \in Threads /\ job'.number \in Numbers \cup {0}
          /\ job'.file \in 0 .. Len(files)
      BY <2>5
    <3>3. batch' \in Seq(AllNames)
      BY <1>4, <2>2 DEF Names
    <3> QED
      BY <1>1, <1>4, <3>1, <3>2, <3>3 DEF IInv, TypeOK
  <2>7. FormInv'
    BY <1>1, <1>4, <2>1, <2>4, <2>5 DEF IInv, FormInv, Open
  <2>8. Promised' = Promised /\ Open' = Open
    BY <1>1 DEF Promised, Open
  <2>9. NamesInv'
    <3>1. Range(entry.listing) \subseteq NamesOf(entry.dir)
      BY <1>2, <2>1 DEF IInv, NamesInv, entry
    <3>2. \A m \in Numbers : directories'[m] # NoEntry =>
            Range(directories'[m].listing) \subseteq NamesOf(directories'[m].dir)
      BY <2>3, <2>4, <3>1 DEF IInv, NamesInv
    <3>3. Range(batch') \subseteq NamesOf(files[f].dir)
      BY <1>4, <2>1, <2>2, <3>1
    <3> QED
      BY <1>1, <1>4, <2>5, <3>2, <3>3 DEF IInv, NamesInv, OnlyItsOwnDirectory
  <2>10. f \in Promised =>
           /\ \A m \in Numbers : table[m] = f => m = n
           /\ files[f].listing = entry.listing
           /\ got[f] = SubSeq(entry.listing, 1, entry.cursor)
    BY <1>1, <1>2 DEF IInv, NumberInv, Listing, EntryOf, About, f, entry
  <2>11. f \in Promised =>
           got[f] \o names = SubSeq(entry.listing, 1, entry.cursor + Len(names))
    BY <2>2, <2>10
  <2>12. GotInv'
    <3>1. f \in Promised => Upto(got[f] \o names, files[f].listing)
      BY <2>2, <2>10, <2>11 DEF Upto
    <3>2. f \in Promised /\ names = <<>> => got[f] = files[f].listing
      BY <1>4, <2>1, <2>10, SubSeqFull DEF Names
    <3> QED
      BY <1>1, <1>4, <2>5, <2>8, <3>1, <3>2 DEF IInv, GotInv
  <2>13. NumberInv'
    <3> SUFFICES ASSUME NEW m \in Numbers, table[m] \in Promised
                 PROVE  /\ \A k \in Numbers : table[k] = table[m] => k = m
                        /\ EntryOf(table[m], m)'
      BY <1>1, <1>4, <2>8 DEF NumberInv, Listing
    <3>1. (\A k \in Numbers : table[k] = table[m] => k = m) /\ EntryOf(table[m], m)
      BY <1>1 DEF IInv, NumberInv, Listing
    <3>2. CASE m = n
      BY <1>1, <1>4, <2>1, <2>3, <2>4, <2>5, <2>10, <2>11, <3>1, <3>2 DEF EntryOf, About, f
    <3>3. CASE m # n
      <4>1. table[m] # f
        BY <1>2, <3>1, <3>3 DEF f
      <4> QED
        BY <1>1, <1>4, <2>4, <2>5, <3>1, <3>3, <4>1 DEF EntryOf, About
    <3> QED
      BY <3>1, <3>2, <3>3
  <2> QED
    BY <2>6, <2>7, <2>9, <2>12, <2>13 DEF IInv
<1> QED
  BY <1>3, <1>4 DEF ServeRead

(* The reader gets the batch, and an empty batch ends its reading.         *)
LEMMA AnswerKeeps ==
  ASSUME IInv, Answer PROVE IInv'
<1> DEFINE f == job.file
<1>1. /\ sup = "answering" /\ sup' = "poll" /\ job' = Idle /\ batch' = NoBatch
      /\ Resumes(job.thread) /\ Gets(f, batch, batch = <<>>)
      /\ UNCHANGED <<contents, queue, table, files, directories, spoiled, opens, reads, tricks>>
  BY DEF Answer, Polls
<1>2. /\ pc' \in [Threads -> {"running", "waiting", "continued"}]
      /\ request' = [u \in Threads |-> request'[u]] /\ Calls'
  BY <1>1, ResumesForms, FormFacts DEF Forms, IInv
<1>3. Idle \in [thread : Threads, number : Numbers \cup {0}, file : 0 .. Len(files)]
  BY IdleIsFormed DEF Forms, IInv
<1>4. f \in Open /\ batch \in Names /\ Range(batch) \subseteq NamesOf(files[f].dir)
  BY <1>1 DEF IInv, FormInv, TypeOK, NamesInv, Names
<1>5. /\ got' \in Seq(Names) /\ Len(got') = Len(files) /\ DOMAIN got' = Open
      /\ got'[f] = got[f] \o batch /\ \A g \in Open : g # f => got'[g] = got[g]
      /\ ended' \subseteq ended \cup {f} /\ (batch # <<>> => ended' = ended)
      /\ \A g \in Open : Range(got'[g]) \subseteq NamesOf(files[g].dir)
  BY <1>1, <1>4, GetsFacts DEF Forms, IInv, NamesInv
<1>6. batch' \in Seq(AllNames)
  BY <1>1, EmptySeq DEF NoBatch
<1>7. TypeOK'
  <2>1. /\ job'.thread \in Threads /\ job'.number \in Numbers \cup {0}
        /\ job'.file \in 0 .. Len(files)
    BY <1>1, <1>3
  <2>2. DOMAIN got' = DOMAIN files' /\ ended' \cup spoiled \subseteq DOMAIN files'
    BY <1>1, <1>4, <1>5 DEF IInv, TypeOK, Open
  <2> QED
    BY <1>1, <1>2, <1>6, <2>1, <2>2 DEF IInv, TypeOK, Calls
<1>8. FormInv'
  BY <1>1, <1>2, <1>3, <1>5 DEF IInv, FormInv
<1>9. Promised' = Promised /\ Open' = Open
  BY <1>1 DEF Promised, Open
<1>10. NamesInv'
  BY <1>1, <1>5, <1>9 DEF IInv, NamesInv, OnlyItsOwnDirectory, Open
<1>11. GotInv'
  <2>1. f \in Promised =>
          /\ Upto(got[f] \o batch, files[f].listing)
          /\ batch = <<>> => got[f] = files[f].listing
          /\ f \in ended => got[f] = files[f].listing
    BY <1>1 DEF IInv, GotInv
  <2>2. got[f] \in Names /\ files[f].listing \in Names
    BY <1>4, FormFacts DEF Forms, IInv, OpenFiles
  <2>3. f \in Promised /\ got[f] = files[f].listing => batch = <<>>
    BY <1>4, <2>1, <2>2, NothingAfterAll
  <2>4. batch = <<>> => got[f] \o batch = got[f]
    BY <2>2, ConcatEmptySeq DEF Names
  <2>5. f \in Promised /\ f \in ended' => got'[f] = files[f].listing
    BY <1>5, <2>1, <2>3, <2>4
  <2>6. \A g \in Promised : g # f => got'[g] = got[g] /\ (g \in ended' => g \in ended)
    BY <1>5 DEF Promised
  <2>7. \A g \in Promised : /\ Upto(got'[g], files[g].listing)
                            /\ g \in ended' => got'[g] = files[g].listing
    BY <1>5, <2>1, <2>5, <2>6 DEF IInv, GotInv
  <2> QED
    BY <1>1, <1>9, <2>7 DEF GotInv
<1>12. NumberInv'
  <2>1. \A g \in Promised : About(g)' = About(g)
    BY <1>1, <1>5 DEF About, Promised
  <2>2. \A g \in Promised : \A n \in Numbers : EntryOf(g, n) => EntryOf(g, n)'
    BY <1>1, <2>1 DEF EntryOf
  <2> QED
    BY <1>1, <1>9, <2>2 DEF IInv, NumberInv, Listing
<1> QED
  BY <1>7, <1>8, <1>10, <1>11, <1>12 DEF IInv

(* A batch whose reader was interrupted is lost, and the open file         *)
(* spoiled.                                                                *)
LEMMA AnswerIsLostKeeps ==
  ASSUME IInv, AnswerIsLost PROVE IInv'
<1> DEFINE f == job.file
<1>1. /\ sup = "answering" /\ sup' = "poll" /\ job' = Idle /\ batch' = NoBatch
      /\ spoiled' = spoiled \cup {f} /\ tricks' \in 0 .. MaxTricks
      /\ UNCHANGED <<contents, table, files, directories, got, ended, opens, reads>>
  BY BoundsAssumption DEF AnswerIsLost, Polls, IInv, TypeOK
<1>2. /\ pc' \in [Threads -> {"running", "waiting", "continued"}]
      /\ request' = [u \in Threads |-> request'[u]] /\ Calls' /\ queue' \in Seq(Threads)
  <2>1. CASE Resumes(job.thread) /\ UNCHANGED queue
    <3>1. queue' \in Seq(Threads)
      BY <2>1 DEF IInv, TypeOK
    <3> QED
      BY <2>1, <3>1, ResumesForms, FormFacts DEF Forms, IInv
  <2>2. CASE queue' = Append(queue, job.thread) /\ UNCHANGED <<pc, request>>
    <3>1. queue' \in Seq(Threads)
      BY <2>2, AppendProperties DEF IInv, TypeOK
    <3> QED
      BY <2>2, <3>1 DEF IInv, FormInv, TypeOK, Calls
  <2> QED
    BY <2>1, <2>2 DEF AnswerIsLost
<1>3. Idle \in [thread : Threads, number : Numbers \cup {0}, file : 0 .. Len(files)]
  BY IdleIsFormed DEF Forms, IInv
<1>4. f \in Open /\ batch' \in Seq(AllNames)
  BY <1>1, EmptySeq DEF IInv, FormInv, NoBatch
<1>5. TypeOK'
  <2>1. /\ job'.thread \in Threads /\ job'.number \in Numbers \cup {0}
        /\ job'.file \in 0 .. Len(files)
    BY <1>1, <1>3
  <2>2. ended \cup spoiled' \subseteq DOMAIN files
    BY <1>1, <1>4 DEF IInv, TypeOK, Open
  <2> QED
    BY <1>1, <1>2, <1>4, <2>1, <2>2 DEF IInv, TypeOK, Calls
<1>6. FormInv'
  BY <1>1, <1>2, <1>3 DEF IInv, FormInv
<1>7. Promised' = Promised \ {f} /\ Open' = Open
  BY <1>1 DEF Promised, Open
<1>8. NamesInv' /\ GotInv'
  BY <1>1, <1>7 DEF IInv, NamesInv, OnlyItsOwnDirectory, GotInv
<1>9. NumberInv'
  <2>1. \A g \in Promised' : About(g)' = About(g)
    BY <1>1, <1>7 DEF About
  <2>2. \A g \in Promised' : \A n \in Numbers : EntryOf(g, n) => EntryOf(g, n)'
    BY <1>1, <2>1 DEF EntryOf
  <2> QED
    BY <1>1, <1>7, <2>2 DEF IInv, NumberInv, Listing
<1> QED
  BY <1>5, <1>6, <1>8, <1>9 DEF IInv

-------------------------------------------------------------------------------
(* Nothing is open and nothing is asked.                                   *)
LEMMA InitIInv == Init => IInv
<1> SUFFICES ASSUME Init PROVE IInv
  OBVIOUS
<1>1. files = <<>> /\ got = <<>> /\ Len(files) = 0 /\ Len(got) = 0 /\ Open = {} /\ DOMAIN got = {}
  BY EmptySeq DEF Init, Open
<1>2. TypeOK
  BY <1>1, IdleForm, ContentsAssumption, BoundsAssumption, EmptySeq
  DEF Init, TypeOK, Open, NoBatch
<1>3. FormInv
  BY <1>1, IdleForm, EmptySeq DEF Init, FormInv
<1>4. \A d \in Dirs : Range(contents[d]) \subseteq NamesOf(d)
  BY DEF Init, NamesOf
<1>5. NamesInv
  BY <1>1, <1>4 DEF Init, NamesInv, OnlyItsOwnDirectory, Open
<1>6. Promised = {}
  BY <1>1 DEF Promised
<1>7. GotInv /\ NumberInv
  BY <1>6 DEF GotInv, NumberInv
<1> QED
  BY <1>2, <1>3, <1>5, <1>7 DEF IInv

(* Every step keeps the invariant.                                         *)
LEMMA StepIInv == IInv /\ [Next]_vars => IInv'
<1> SUFFICES ASSUME IInv, [Next]_vars PROVE IInv'
  OBVIOUS
<1>1. CASE UNCHANGED vars
  <2>1. UNCHANGED <<contents, pc, request, queue, table, files, sup, job, batch, directories,
                    got, ended, spoiled, opens, reads, tricks>>
    BY <1>1 DEF vars, processVars, supVars, history
  <2>2. TypeOK' /\ FormInv'
    BY <2>1 DEF IInv, TypeOK, FormInv, Open
  <2> QED
    BY <2>1, <2>2, QuietKeeps DEF IInv
<1>2. CASE Supervisor
  BY <1>2, ReceiveKeeps, ServeHostOpenKeeps, ServeOpenKeeps, ListKeeps, ServeUnlistedReadKeeps,
     ServeReadKeeps, AnswerKeeps, AnswerIsLostKeeps DEF Supervisor
<1>3. ASSUME NEW t \in Threads, Thread(t) PROVE IInv'
  BY <1>3, OpenDirectoryKeeps, ReadDirectoryKeeps, CloseKeeps, RewindKeeps, Dup2Keeps,
     KernelOpensKeeps, KernelReadsKeeps DEF Thread
<1>4. CASE ExternalWrite
  BY <1>4, ExternalWriteKeeps
<1> QED
  BY <1>1, <1>2, <1>3, <1>4 DEF Next, Rest

(* Every state of the process and its supervisor is of these kinds.        *)
THEOREM Inductive == Spec => []IInv
<1>1. Init => IInv
  BY InitIInv
<1>2. IInv /\ [Next]_vars => IInv'
  BY StepIInv
<1> QED
  BY <1>1, <1>2, PTL DEF Spec

(* The numbers and cursors of the supervisor are those of files and        *)
(* listings.                                                               *)
THEOREM TypeCorrectness == Spec => []TypeOK
<1>1. IInv => TypeOK
  BY DEF IInv
<1> QED
  BY <1>1, Inductive, PTL

(* The threads that read a directory of the view get every entry once and  *)
(* in order, and all of them before the end (handle_getdents), whatever    *)
(* their numbers meant before.                                             *)
THEOREM EveryEntryIsRead == Spec => []EveryEntryOnce
<1>1. IInv => EveryEntryOnce
  <2> SUFFICES ASSUME IInv, NEW f \in DOMAIN files, files[f].projected, f \notin spoiled
               PROVE  /\ IsPrefix(got[f], files[f].listing)
                      /\ f \in ended => got[f] = files[f].listing
    BY DEF EveryEntryOnce
  <2>1. f \in Promised /\ f \in Open
    BY DEF Promised, Open
  <2>2. files[f].listing \in Names
    BY <2>1, FormFacts DEF Forms, IInv, OpenFiles
  <2>3. Upto(got[f], files[f].listing) /\ (f \in ended => got[f] = files[f].listing)
    BY <2>1 DEF IInv, GotInv
  <2> QED
    BY <2>2, <2>3, UptoIsPrefix
<1> QED
  BY <1>1, Inductive, PTL

(* Nobody gets the names of another directory (directory_fd_matches).      *)
THEOREM NamesStayAtHome == Spec => []OnlyItsOwnDirectory
<1>1. IInv => OnlyItsOwnDirectory
  BY DEF IInv, NamesInv
<1> QED
  BY <1>1, Inductive, PTL
=============================================================================
