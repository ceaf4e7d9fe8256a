--------------------------------- MODULE Fetch ---------------------------------
(***************************************************************************)
(* What an installation needs from a mirror: the image, which is checked    *)
(* against the mirror's list of MD5 sums when it has just been fetched, and *)
(* kernel and ramdisk, which are not.  wget writes straight to where the    *)
(* file is looked for; it is a process of its own and may survive flota.    *)
(*                                                                          *)
(* The digest is computed by two threads: a reader sends the file chunk by  *)
(* chunk over a channel that holds a few of them, and an empty chunk last.  *)
(* A file is the sequence of its chunks, and so is what has been hashed: a  *)
(* digest is as good as what it is of.                                      *)
(*                                                                          *)
(* Sources: src/util/md5sum.rs, src/util/mod.rs (download_file) and the     *)
(* downloads of src/distro/*/*/x86_64/mod.rs.                               *)
(***************************************************************************)
EXTENDS Naturals, Sequences

CONSTANTS
    Files,
    Needed,         \* the files of one installation, the image first
    Chunks,
    Remote,         \* what the mirror has under a file's name
    Empty,          \* the chunk without a byte in it
    Bound,          \* of the channel
    None,
    MaxFaults

ASSUME ConstantsAssumption ==
    /\ Needed \in Seq(Files) /\ Len(Needed) > 0
    /\ \A j \in DOMAIN Needed : Needed[j] = Needed[1] => j = 1
    /\ Remote \in [Files -> Seq(Chunks)]
    /\ Empty \notin Chunks /\ None \notin Seq(Chunks)
    /\ Bound \in Nat \ {0} /\ MaxFaults \in Nat

VARIABLES
    file,           \* the local file of that name, or None
    wget,           \* the files a wget is writing
    pc, n,          \* what flota is at, with which of the files it needs
    listed,         \* the sums have exactly one line for the image
    reader,         \* the thread that reads the image
    consumed,       \* the chunks it has sent and is done with
    channel,
    hashed,         \* the chunks the digest has taken in
    mine,           \* ghost: the files this process has fetched and accepted
    faults

digestVars == <<reader, consumed, channel, hashed>>
vars == <<file, wget, pc, n, listed, reader, consumed, channel, hashed, mine, faults>>

Image == Needed[1]
Cur == Needed[n]

TypeOK ==
    /\ file \in [Files -> Seq(Chunks) \cup {None}]
    /\ wget \subseteq {f \in Files : file[f] \in Seq(Chunks)}
    /\ pc \in {"down", "look", "fetch", "check", "digest", "compare", "use"}
    /\ n \in 1..(Len(Needed) + 1)
    /\ pc \in {"fetch", "check", "digest", "compare"} => n <= Len(Needed)
    /\ listed \in BOOLEAN
    /\ reader \in {"none", "reads", "ended", "failed"}
    /\ consumed \in Nat
    /\ channel \in Seq(Chunks \cup {Empty}) /\ Len(channel) <= Bound
    /\ hashed \in Seq(Chunks)
    /\ mine \subseteq Files
    /\ faults \in 0..MaxFaults

NoDigest == reader' = "none" /\ consumed' = 0 /\ channel' = <<>> /\ hashed' = <<>>

Init ==
    /\ file = [f \in Files |-> None] /\ wget = {}
    /\ pc = "down" /\ n = 1 /\ listed = FALSE
    /\ reader = "none" /\ consumed = 0 /\ channel = <<>> /\ hashed = <<>>
    /\ mine = {}
    /\ faults = 0

Fault == faults < MaxFaults /\ faults' = faults + 1

-----------------------------------------------------------------------------
(***************************************************************************)
(* download_iso_md5checked, download_vmlinuz and download_initrd, in every  *)
(* build_image.  Each of their errors is a panic.                           *)
(***************************************************************************)
Panic == pc' = "down" /\ n' = 1 /\ mine' = {} /\ NoDigest

Build ==
    /\ pc \in {"down", "use"}
    /\ pc' = "look" /\ n' = 1
    /\ UNCHANGED <<file, wget, listed, digestVars, mine, faults>>

\* A file that exists is taken for the one that is needed.
Found ==
    /\ pc = "look" /\ n <= Len(Needed) /\ file[Cur] # None
    /\ n' = n + 1
    /\ UNCHANGED <<file, wget, pc, listed, digestVars, mine, faults>>

\* Not the code: what is there is not looked at.
StartFetch_Anyway ==
    /\ pc = "look" /\ n <= Len(Needed)
    /\ listed' \in IF Cur = Image THEN BOOLEAN ELSE {listed}
    /\ file' = [file EXCEPT ![Cur] = <<>>] /\ wget' = wget \cup {Cur}
    /\ pc' = "fetch"
    /\ UNCHANGED <<n, digestVars, mine, faults>>

\* For the image the mirror's sums are fetched first, and searched for its
\* name.  wget -O begins with an empty file.
StartFetch ==
    /\ pc = "look" /\ n <= Len(Needed) /\ file[Cur] = None
    /\ listed' \in IF Cur = Image THEN BOOLEAN ELSE {listed}
    /\ file' = [file EXCEPT ![Cur] = <<>>] /\ wget' = wget \cup {Cur}
    /\ pc' = "fetch"
    /\ UNCHANGED <<n, digestVars, mine, faults>>

\* The transfer comes through whole; the bytes may still be the wrong ones.
WgetWrites(f) ==
    /\ f \in wget /\ Len(file[f]) < Len(Remote[f])
    /\ \/ file' = [file EXCEPT ![f] = Append(@, Remote[f][Len(@) + 1])] /\ UNCHANGED faults
       \/ \E c \in Chunks : /\ c # Remote[f][Len(file[f]) + 1]
                            /\ file' = [file EXCEPT ![f] = Append(@, c)]
                            /\ Fault
    /\ UNCHANGED <<wget, pc, n, listed, digestVars, mine>>

Awaited(f) == pc = "fetch" /\ f = Cur

Complete(f) == f \in wget /\ Len(file[f]) = Len(Remote[f])

Accept == mine' = mine \cup {Cur} /\ n' = n + 1 /\ pc' = "look"

\* "skip md5 checking", unless it is the image and its sum is known.
Fetched ==
    /\ pc = "fetch" /\ Complete(Cur)
    /\ wget' = wget \ {Cur}
    /\ \/ Cur = Image /\ listed /\ pc' = "check" /\ UNCHANGED <<n, mine>>
       \/ ~(Cur = Image /\ listed) /\ Accept
    /\ UNCHANGED <<file, listed, digestVars, faults>>

\* Not the code: the status of wget is not looked at.
FetchFails_Ignored ==
    /\ pc = "fetch" /\ Cur \in wget
    /\ Fault
    /\ wget' = wget \ {Cur}
    /\ Accept
    /\ UNCHANGED <<file, listed, digestVars>>

\* wget gives up, and leaves what it has got.
FetchFails ==
    /\ pc = "fetch" /\ Cur \in wget
    /\ Fault
    /\ wget' = wget \ {Cur}
    /\ Panic
    /\ UNCHANGED <<file, listed>>

\* A wget that nobody waits for any more.
OrphanEnds(f) ==
    /\ f \in wget /\ ~Awaited(f)
    /\ \/ Complete(f) /\ UNCHANGED faults
       \/ Fault
    /\ wget' = wget \ {f}
    /\ UNCHANGED <<file, pc, n, listed, digestVars, mine>>

-----------------------------------------------------------------------------
(***************************************************************************)
(* calc_md5 and compare_md5.                                                *)
(***************************************************************************)
StartDigest ==
    /\ pc = "check"
    /\ reader' = "reads" /\ consumed' = 0 /\ channel' = <<>> /\ hashed' = <<>>
    /\ pc' = "digest"
    /\ UNCHANGED <<file, wget, n, listed, mine, faults>>

\* What fill_buf returns next: nothing, at the end of the file.
NextChunk == IF consumed < Len(file[Cur]) THEN file[Cur][consumed + 1] ELSE Empty

\* Not the code: the reader goes on at the end of the file.
ReadChunk_NoBreak ==
    /\ reader = "reads" /\ Len(channel) < Bound
    /\ channel' = Append(channel, NextChunk)
    /\ consumed' = IF NextChunk = Empty THEN consumed ELSE consumed + 1
    /\ UNCHANGED <<file, wget, pc, n, listed, reader, hashed, mine, faults>>

\* Not the code: the channel takes whatever is sent.
ReadChunk_Unbounded ==
    /\ reader = "reads"
    /\ channel' = Append(channel, NextChunk)
    /\ IF NextChunk = Empty THEN reader' = "ended" /\ UNCHANGED consumed
       ELSE consumed' = consumed + 1 /\ UNCHANGED reader
    /\ UNCHANGED <<file, wget, pc, n, listed, hashed, mine, faults>>

\* read_file: the empty chunk is sent, too, and is the last one.
ReadChunk ==
    /\ reader = "reads" /\ Len(channel) < Bound
    /\ channel' = Append(channel, NextChunk)
    /\ IF NextChunk = Empty THEN reader' = "ended" /\ UNCHANGED consumed
       ELSE consumed' = consumed + 1 /\ UNCHANGED reader
    /\ UNCHANGED <<file, wget, pc, n, listed, hashed, mine, faults>>

\* Opening or reading fails: the thread panics, and its sender is dropped.
ReaderFails ==
    /\ reader = "reads"
    /\ Fault
    /\ reader' = "failed"
    /\ UNCHANGED <<file, wget, pc, n, listed, consumed, channel, hashed, mine>>

\* md5_input
HashChunk ==
    /\ pc = "digest" /\ channel # <<>>
    /\ hashed' = IF Head(channel) = Empty THEN hashed ELSE Append(hashed, Head(channel))
    /\ channel' = Tail(channel)
    /\ UNCHANGED <<file, wget, pc, n, listed, reader, consumed, mine, faults>>

\* Not the code: a reader that panicked is as good as one that ended.
Join_Unchecked ==
    /\ pc = "digest" /\ channel = <<>> /\ reader \in {"ended", "failed"}
    /\ pc' = "compare"
    /\ UNCHANGED <<file, wget, n, listed, digestVars, mine, faults>>

\* The iteration ends when the channel is empty and its sender is gone.
Join ==
    /\ pc = "digest" /\ channel = <<>> /\ reader = "ended"
    /\ pc' = "compare"
    /\ UNCHANGED <<file, wget, n, listed, digestVars, mine, faults>>

\* "failed to compare md5. maybe file reader aborted."
JoinFails ==
    /\ pc = "digest" /\ channel = <<>> /\ reader = "failed"
    /\ Panic
    /\ UNCHANGED <<file, wget, listed, faults>>

\* "md5 unmatch error": the file stays where it is.
Compare ==
    /\ pc = "compare"
    /\ \/ hashed = Remote[Cur] /\ Accept /\ UNCHANGED digestVars
       \/ hashed # Remote[Cur] /\ Panic
    /\ UNCHANGED <<file, wget, listed, faults>>

Install ==
    /\ pc = "look" /\ n > Len(Needed)
    /\ pc' = "use"
    /\ UNCHANGED <<file, wget, n, listed, digestVars, mine, faults>>

\* flota dies, with its threads, or the mirror's sums cannot be had; a wget may
\* live on.
Crash ==
    /\ pc # "down" /\ Fault
    /\ Panic
    /\ wget' \in {wget, {}}
    /\ UNCHANGED <<file, listed>>

Process == Build \/ Found \/ StartFetch \/ Fetched \/ StartDigest \/ Join \/ JoinFails
           \/ Compare \/ Install
Reader  == ReadChunk \/ ReaderFails
Wget(f) == WgetWrites(f) \/ OrphanEnds(f)

Next ==
    \/ Process \/ Reader \/ HashChunk
    \/ FetchFails \/ Crash
    \/ \E f \in Files : Wget(f)

Spec == Init /\ [][Next]_vars

\* Both threads are scheduled, and wget, whose timeouts and attempts are
\* limited, writes on or gives up.
Fairness ==
    /\ WF_vars(Process) /\ WF_vars(HashChunk) /\ WF_vars(ReadChunk)
    /\ \A f \in Files : WF_vars(WgetWrites(f))

FairSpec == Spec /\ Fairness

-----------------------------------------------------------------------------
\* The digest that is compared is of the whole file, in its order, however the
\* two threads ran and whatever became of the reader.
DigestIsOfFile == pc = "compare" => hashed = file[Cur]

\* What a process has fetched itself is of full length, and an image whose sum
\* was listed is the mirror's, byte for byte, for as long as it is used.
FetchedIsWhole ==
    \A f \in mine :
        /\ Len(file[f]) = Len(Remote[f])
        /\ f = Image /\ listed => file[f] = Remote[f]

\* A file that is there is never begun again: neither under an installation
\* that uses it, nor by a second process while an earlier wget still writes.
OnlyGrows ==
    [][\A f \in Files : file[f] # None =>
          /\ Len(file[f]) <= Len(file'[f])
          /\ \A j \in DOMAIN file[f] : file'[f][j] = file[f][j]]_vars

\* Reader and digest never wait for each other for good: every attempt to get
\* the files ends in an installation or in a panic.
AttemptsEnd == pc \notin {"use", "down"} ~> pc \in {"use", "down"}

\* src/distro/centos/release_6/x86_64/mod.rs:79 and :192: an image that goes
\* unchecked is announced, "skip md5 checking", and one that could not be had is a
\* panic, "failed to download".  One whose sum was listed is then the mirror's.
ImageIsChecked == pc = "use" /\ listed => file[Image] = Remote[Image]
=============================================================================
