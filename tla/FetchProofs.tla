------------------------------ MODULE FetchProofs ------------------------------
(***************************************************************************)
(* Proofs about Fetch: whatever is sent over the channel, in whatever order *)
(* reader and digester run, and wherever the process dies.                  *)
(***************************************************************************)
EXTENDS Fetch, TLAPS

-----------------------------------------------------------------------------
(***************************************************************************)
(* The inductive invariant.                                                 *)
(***************************************************************************)

\* What is being checked is the image, with its sum in hand, and nobody writes
\* to it.
Checking ==
    pc \in {"check", "digest", "compare"} =>
        Cur = Image /\ listed /\ Cur \notin wget /\ file[Cur] \in Seq(Chunks)

ReaderIsAwaited == reader = "reads" => pc = "digest"

\* The empty chunk has been sent and has not been taken.
EndIsOnTheWay == IF reader = "ended" /\ channel # <<>> THEN 1 ELSE 0

\* What has been hashed and what is in the channel are together what has been
\* sent: the file as far as it has been read, and then its end.
Stream ==
    pc = "digest" =>
        /\ consumed <= Len(file[Cur])
        /\ reader = "ended" => consumed = Len(file[Cur])
        /\ Len(hashed) + Len(channel) = consumed + EndIsOnTheWay
        /\ \A j \in 1..Len(hashed) : hashed[j] = file[Cur][j]
        /\ \A j \in 1..Len(channel) :
               channel[j] = IF Len(hashed) + j <= Len(file[Cur])
                            THEN file[Cur][Len(hashed) + j] ELSE Empty

\* Nobody writes to what has been accepted.
MineIsDone == mine \cap wget = {} /\ \A f \in mine : file[f] \in Seq(Chunks)

Inv ==
    /\ TypeOK /\ Checking /\ ReaderIsAwaited /\ Stream /\ DigestIsOfFile
    /\ MineIsDone /\ FetchedIsWhole

LEMMA NeededAreFiles ==
    ASSUME ConstantsAssumption
    PROVE  /\ Len(Needed) \in Nat \ {0}
           /\ \A j \in 1..Len(Needed) : Needed[j] \in Files
           /\ Image \in Files
<1>1. Needed \in Seq(Files) /\ Len(Needed) > 0
  BY DEF ConstantsAssumption
<1> QED  BY <1>1 DEF Image

LEMMA InitInv == ConstantsAssumption /\ Init => Inv
<1> SUFFICES ASSUME ConstantsAssumption, Init PROVE Inv
  OBVIOUS
<1>1. Len(Needed) \in Nat \ {0}
  BY NeededAreFiles
<1>2. TypeOK
  <2>1. <<>> \in Seq(Chunks) /\ <<>> \in Seq(Chunks \cup {Empty}) /\ Len(<<>>) = 0
    OBVIOUS
  <2>2. 1 \in 1..(Len(Needed) + 1)
    BY <1>1
  <2>3. /\ file \in [Files -> Seq(Chunks) \cup {None}]
        /\ wget \subseteq {f \in Files : file[f] \in Seq(Chunks)}
    BY DEF Init
  <2>4. channel \in Seq(Chunks \cup {Empty}) /\ Len(channel) <= Bound /\ hashed \in Seq(Chunks)
    BY <2>1 DEF Init, ConstantsAssumption
  <2>5. faults \in 0..MaxFaults /\ n \in 1..(Len(Needed) + 1) /\ consumed \in Nat
    BY <2>2 DEF Init, ConstantsAssumption
  <2> QED  BY <2>3, <2>4, <2>5 DEF Init, TypeOK
<1>3. Checking /\ ReaderIsAwaited /\ Stream /\ DigestIsOfFile /\ MineIsDone /\ FetchedIsWhole
  BY DEF Init, Checking, ReaderIsAwaited, Stream, DigestIsOfFile, MineIsDone, FetchedIsWhole
<1> QED  BY <1>2, <1>3 DEF Inv

-----------------------------------------------------------------------------
(***************************************************************************)
(* The steps.                                                               *)
(***************************************************************************)

LEMMA FaultCounts ==
    ASSUME ConstantsAssumption, faults \in 0..MaxFaults, Fault \/ UNCHANGED faults
    PROVE  faults' \in 0..MaxFaults
  BY DEF Fault, ConstantsAssumption

\* A panic leaves the files to the next process.
LEMMA PanicStep ==
    ASSUME ConstantsAssumption, Inv, Panic, UNCHANGED <<file, listed>>,
           wget' \subseteq wget, faults' \in 0..MaxFaults
    PROVE  Inv'
<1>1. Len(Needed) \in Nat \ {0}
  BY NeededAreFiles
<1>2. TypeOK'
  BY <1>1 DEF Inv, TypeOK, Panic, NoDigest, ConstantsAssumption
<1>3. (Checking /\ ReaderIsAwaited /\ Stream /\ DigestIsOfFile /\ MineIsDone /\ FetchedIsWhole)'
  BY DEF Inv, Panic, NoDigest, Checking, ReaderIsAwaited, Stream, DigestIsOfFile, MineIsDone,
         FetchedIsWhole
<1> QED  BY <1>2, <1>3 DEF Inv

LEMMA MainStep ==
    ASSUME ConstantsAssumption, Inv,
           Build \/ Found \/ Install \/ StartFetch \/ Fetched \/ StartDigest \/ Join
    PROVE  Inv'
<1> USE NeededAreFiles
<1>1. CASE Build
  BY <1>1 DEF Inv, TypeOK, Build, digestVars, Checking, ReaderIsAwaited, Stream, DigestIsOfFile,
              MineIsDone, FetchedIsWhole
<1>2. CASE Found
  BY <1>2 DEF Inv, TypeOK, Found, digestVars, Checking, ReaderIsAwaited, Stream, DigestIsOfFile,
              MineIsDone, FetchedIsWhole
<1>3. CASE Install
  BY <1>3 DEF Inv, TypeOK, Install, digestVars, Checking, ReaderIsAwaited, Stream,
              DigestIsOfFile, MineIsDone, FetchedIsWhole
<1>4. CASE StartFetch
  <2>1. Cur \in Files /\ None \notin Seq(Chunks)
    BY <1>4 DEF StartFetch, Inv, TypeOK, Cur, ConstantsAssumption
  <2>2. TypeOK'
    BY <1>4, <2>1 DEF Inv, TypeOK, StartFetch, digestVars
  <2>3. Cur \notin mine
    BY <1>4, <2>1 DEF Inv, StartFetch, MineIsDone
  <2>4. (MineIsDone /\ FetchedIsWhole)'
    BY <1>4, <2>1, <2>3 DEF Inv, TypeOK, StartFetch, MineIsDone, FetchedIsWhole
  <2>5. (Checking /\ ReaderIsAwaited /\ Stream /\ DigestIsOfFile)'
    BY <1>4 DEF Inv, StartFetch, digestVars, Checking, ReaderIsAwaited, Stream, DigestIsOfFile
  <2> QED  BY <2>2, <2>4, <2>5 DEF Inv
<1>5. CASE Fetched
  <2>1. Cur \in Files /\ Cur \in wget /\ file[Cur] \in Seq(Chunks)
        /\ Len(file[Cur]) = Len(Remote[Cur])
    BY <1>5 DEF Fetched, Complete, Inv, TypeOK, Cur
  <2>2. CASE Cur = Image /\ listed /\ pc' = "check" /\ UNCHANGED <<n, mine>>
    BY <1>5, <2>1, <2>2 DEF Inv, TypeOK, Fetched, digestVars, Checking, ReaderIsAwaited, Stream,
              DigestIsOfFile, MineIsDone, FetchedIsWhole, Cur
  <2>3. CASE ~(Cur = Image /\ listed) /\ Accept
    BY <1>5, <2>1, <2>3 DEF Inv, TypeOK, Fetched, Accept, digestVars, Checking, ReaderIsAwaited,
              Stream, DigestIsOfFile, MineIsDone, FetchedIsWhole
  <2> QED  BY <1>5, <2>2, <2>3 DEF Fetched
<1>6. CASE StartDigest
  <2>1. TypeOK'
    BY <1>6 DEF Inv, TypeOK, StartDigest, ConstantsAssumption
  <2>2. (Checking /\ ReaderIsAwaited /\ DigestIsOfFile /\ MineIsDone /\ FetchedIsWhole)'
    BY <1>6 DEF Inv, StartDigest, Checking, ReaderIsAwaited, DigestIsOfFile, MineIsDone,
                FetchedIsWhole, Cur
  <2>3. file[Cur] \in Seq(Chunks)
    BY <1>6 DEF Inv, StartDigest, Checking
  <2>4. Stream'
    BY <1>6, <2>3 DEF StartDigest, Stream, EndIsOnTheWay, Cur
  <2> QED  BY <2>1, <2>2, <2>4 DEF Inv
<1>7. CASE Join
  <2>1. TypeOK'
    BY <1>7 DEF Inv, TypeOK, Join, digestVars
  <2>2. file[Cur] \in Seq(Chunks) /\ hashed \in Seq(Chunks) /\ channel = <<>>
    BY <1>7 DEF Inv, TypeOK, Join, Checking
  <2>3. Len(hashed) = Len(file[Cur])
    BY <1>7, <2>2 DEF Inv, TypeOK, Join, Stream, EndIsOnTheWay
  <2>4. \A j \in 1..Len(hashed) : hashed[j] = file[Cur][j]
    BY <1>7 DEF Inv, Join, Stream
  <2>5. hashed = file[Cur]
    <3> DEFINE local == file[Cur]
    <3>1. hashed \in [1..Len(hashed) -> Chunks] /\ local \in [1..Len(hashed) -> Chunks]
      BY <2>2, <2>3
    <3>2. \A j \in 1..Len(hashed) : hashed[j] = local[j]
      BY <2>4
    <3> HIDE DEF local
    <3>3. hashed = local
      BY <3>1, <3>2
    <3> QED  BY <3>3 DEF local
  <2>6. (Checking /\ ReaderIsAwaited /\ Stream /\ DigestIsOfFile /\ MineIsDone /\ FetchedIsWhole)'
    BY <1>7, <2>5 DEF Inv, Join, digestVars, Checking, ReaderIsAwaited, Stream, DigestIsOfFile,
                      MineIsDone, FetchedIsWhole, Cur
  <2> QED  BY <2>1, <2>6 DEF Inv
<1> QED  BY <1>1, <1>2, <1>3, <1>4, <1>5, <1>6, <1>7

LEMMA CompareStep ==
    ASSUME ConstantsAssumption, Inv, Compare
    PROVE  Inv'
<1> USE NeededAreFiles
<1>1. CASE hashed = Remote[Cur] /\ Accept /\ UNCHANGED digestVars
  <2>1. Cur \in Files /\ Cur \notin wget /\ file[Cur] \in Seq(Chunks) /\ file[Cur] = Remote[Cur]
    BY <1>1 DEF Compare, Inv, TypeOK, Checking, DigestIsOfFile, Cur
  <2> QED
    BY <1>1, <2>1 DEF Inv, TypeOK, Compare, Accept, digestVars, Checking, ReaderIsAwaited,
              Stream, DigestIsOfFile, MineIsDone, FetchedIsWhole
<1>2. CASE hashed # Remote[Cur] /\ Panic
  BY <1>2, PanicStep DEF Compare, Inv, TypeOK
<1> QED  BY <1>1, <1>2 DEF Compare

LEMMA WgetStep ==
    ASSUME ConstantsAssumption, Inv, NEW f \in Files, WgetWrites(f) \/ OrphanEnds(f)
    PROVE  Inv'
<1> USE NeededAreFiles
<1>1. f \in wget /\ f \notin mine /\ file[f] \in Seq(Chunks) /\ Remote[f] \in Seq(Chunks)
  BY DEF Inv, TypeOK, MineIsDone, WgetWrites, OrphanEnds, ConstantsAssumption
<1>2. pc \in {"check", "digest", "compare"} => f # Cur
  BY <1>1 DEF Inv, Checking
<1>3. CASE WgetWrites(f)
  <2>1. \A c \in Chunks : Append(file[f], c) \in Seq(Chunks)
    BY <1>1
  <2>2. Remote[f][Len(file[f]) + 1] \in Chunks
    BY <1>1, <1>3 DEF WgetWrites
  <2>3. PICK c \in Chunks : file' = [file EXCEPT ![f] = Append(@, c)]
    BY <1>3, <2>2 DEF WgetWrites
  <2>4. faults' \in 0..MaxFaults
    <3>1. Fault \/ UNCHANGED faults
      BY <1>3 DEF WgetWrites
    <3> QED  BY <3>1, FaultCounts DEF Inv, TypeOK
  <2>5. file' \in [Files -> Seq(Chunks) \cup {None}] /\ file'[f] \in Seq(Chunks)
    BY <2>1, <2>3 DEF Inv, TypeOK
  <2>6. \A x \in Files \ {f} : file'[x] = file[x]
    BY <2>3 DEF Inv, TypeOK
  <2>7. TypeOK'
    BY <1>3, <2>4, <2>5, <2>6 DEF Inv, TypeOK, WgetWrites, digestVars
  <2>8. (MineIsDone /\ FetchedIsWhole)'
    BY <1>1, <1>3, <2>6 DEF Inv, TypeOK, WgetWrites, MineIsDone, FetchedIsWhole
  <2>9. pc \in {"check", "digest", "compare"} => file'[Cur] = file[Cur]
    BY <1>2, <2>6 DEF Inv, TypeOK, Cur
  <2>10. (Checking /\ ReaderIsAwaited /\ Stream /\ DigestIsOfFile)'
    BY <1>3, <2>9 DEF Inv, WgetWrites, digestVars, Checking, ReaderIsAwaited, Stream,
                      EndIsOnTheWay, DigestIsOfFile, Cur
  <2> QED  BY <2>7, <2>8, <2>10 DEF Inv
<1>4. CASE OrphanEnds(f)
  <2>1. TypeOK'
    <3>1. Fault \/ UNCHANGED faults
      BY <1>4 DEF OrphanEnds
    <3>2. faults' \in 0..MaxFaults
      BY <3>1, FaultCounts DEF Inv, TypeOK
    <3> QED  BY <1>4, <3>2 DEF Inv, TypeOK, OrphanEnds, digestVars
  <2>2. (Checking /\ ReaderIsAwaited /\ Stream /\ DigestIsOfFile /\ MineIsDone /\ FetchedIsWhole)'
    BY <1>4 DEF Inv, OrphanEnds, digestVars, Checking, ReaderIsAwaited, Stream, EndIsOnTheWay,
                DigestIsOfFile, MineIsDone, FetchedIsWhole, Cur
  <2> QED  BY <2>1, <2>2 DEF Inv
<1> QED  BY <1>3, <1>4

\* What is sent is what comes next.
LEMMA ReadStep ==
    ASSUME ConstantsAssumption, Inv, ReadChunk
    PROVE  Inv'
<1> DEFINE local == file[Cur]
<1>1. pc = "digest" /\ local \in Seq(Chunks) /\ Empty \notin Chunks
  BY DEF ReadChunk, Inv, ReaderIsAwaited, Checking, ConstantsAssumption
<1>2. /\ reader = "reads" /\ channel \in Seq(Chunks \cup {Empty}) /\ hashed \in Seq(Chunks)
      /\ consumed \in Nat /\ consumed <= Len(local) /\ Len(hashed) + Len(channel) = consumed
  BY <1>1 DEF ReadChunk, Inv, TypeOK, Stream, EndIsOnTheWay
<1>3. NextChunk = IF consumed < Len(local) THEN local[consumed + 1] ELSE Empty
  BY DEF NextChunk
<1>4. consumed < Len(local) => NextChunk \in Chunks
  BY <1>1, <1>2, <1>3
<1>5. NextChunk \in Chunks \cup {Empty} /\ (NextChunk = Empty <=> consumed = Len(local))
  BY <1>1, <1>2, <1>3, <1>4
<1>6. /\ channel' = Append(channel, NextChunk) /\ UNCHANGED <<file, wget, pc, n, listed, hashed>>
      /\ UNCHANGED <<mine, faults>>
      /\ IF NextChunk = Empty THEN reader' = "ended" /\ UNCHANGED consumed
         ELSE consumed' = consumed + 1 /\ UNCHANGED reader
  BY DEF ReadChunk
<1>7. /\ channel' \in Seq(Chunks \cup {Empty}) /\ Len(channel') = Len(channel) + 1
      /\ \A j \in 1..Len(channel) : channel'[j] = channel[j]
      /\ channel'[Len(channel) + 1] = NextChunk
  BY <1>2, <1>5, <1>6
<1>8. TypeOK'
  <2>1. Len(channel') <= Bound
    BY <1>2, <1>7 DEF ReadChunk, ConstantsAssumption
  <2>2. consumed' \in Nat /\ reader' \in {"reads", "ended"}
    BY <1>2, <1>6
  <2>3. /\ file \in [Files -> Seq(Chunks) \cup {None}]
        /\ wget \subseteq {f \in Files : file[f] \in Seq(Chunks)}
        /\ n \in 1..Len(Needed) /\ pc = "digest" /\ listed \in BOOLEAN
        /\ hashed \in Seq(Chunks) /\ mine \subseteq Files /\ faults \in 0..MaxFaults
    BY <1>1 DEF Inv, TypeOK
  <2>4. UNCHANGED <<file, wget, pc, n, listed, hashed, mine, faults>>
    BY <1>6
  <2> QED  BY <1>7, <2>1, <2>2, <2>3, <2>4 DEF TypeOK
<1>9. Stream'
  <2>1. local' = local /\ hashed' = hashed /\ pc' = "digest" /\ Cur' = Cur
    BY <1>1, <1>6 DEF Cur
  <2>2. consumed' <= Len(local) /\ (reader' = "ended" => consumed' = Len(local))
    BY <1>1, <1>2, <1>5, <1>6
  <2>3. channel' # <<>>
    BY <1>2, <1>7
  <2>4. EndIsOnTheWay' = IF NextChunk = Empty THEN 1 ELSE 0
    BY <1>2, <1>6, <2>3 DEF EndIsOnTheWay
  <2>5. Len(hashed) + Len(channel') = consumed' + EndIsOnTheWay'
    BY <1>2, <1>6, <1>7, <2>4
  <2>6. \A j \in 1..Len(hashed) : hashed[j] = local[j]
    BY <1>1 DEF Inv, Stream
  <2>7. \A j \in 1..Len(channel) :
            channel[j] = IF Len(hashed) + j <= Len(local) THEN local[Len(hashed) + j] ELSE Empty
    BY <1>1 DEF Inv, Stream
  <2>8. ASSUME NEW j \in 1..Len(channel')
        PROVE  channel'[j] = IF Len(hashed) + j <= Len(local)
                             THEN local[Len(hashed) + j] ELSE Empty
    <3>1. CASE j \in 1..Len(channel)
      BY <1>7, <2>7, <3>1
    <3>2. CASE j = Len(channel) + 1
      <4>1. Len(hashed) + j = consumed + 1 /\ channel'[j] = NextChunk
        BY <1>2, <1>7, <3>2
      <4> QED  BY <1>1, <1>2, <1>3, <4>1
    <3> QED  BY <1>2, <1>7, <3>1, <3>2
  <2> QED  BY <2>1, <2>2, <2>5, <2>6, <2>8 DEF Stream
<1>10. (Checking /\ ReaderIsAwaited /\ DigestIsOfFile /\ MineIsDone /\ FetchedIsWhole)'
  BY <1>1, <1>6 DEF Inv, Checking, ReaderIsAwaited, DigestIsOfFile, MineIsDone, FetchedIsWhole,
                    Cur
<1> QED  BY <1>8, <1>9, <1>10 DEF Inv

LEMMA OneLeft ==
    \A h, c, l \in Nat : c >= 1 /\ h + 1 > l /\ h + c = l + 1 => h = l /\ c = 1
  OBVIOUS

\* The empty chunk is the last one, and adds nothing.
LEMMA HashStep ==
    ASSUME ConstantsAssumption, Inv, HashChunk
    PROVE  Inv'
<1> DEFINE local == file[Cur]
<1>1. /\ pc = "digest" /\ local \in Seq(Chunks) /\ Empty \notin Chunks
      /\ channel \in Seq(Chunks \cup {Empty}) /\ hashed \in Seq(Chunks) /\ consumed \in Nat
      /\ channel # <<>>
  BY DEF HashChunk, Inv, TypeOK, Checking, ConstantsAssumption
<1>2. /\ consumed <= Len(local) /\ (reader = "ended" => consumed = Len(local))
      /\ Len(hashed) + Len(channel) = consumed + EndIsOnTheWay
      /\ \A j \in 1..Len(hashed) : hashed[j] = local[j]
      /\ \A j \in 1..Len(channel) :
             channel[j] = IF Len(hashed) + j <= Len(local) THEN local[Len(hashed) + j] ELSE Empty
  BY <1>1 DEF Inv, Stream
<1>3. /\ hashed' = IF Head(channel) = Empty THEN hashed ELSE Append(hashed, Head(channel))
      /\ channel' = Tail(channel)
      /\ UNCHANGED <<file, wget, pc, n, listed, reader, consumed, mine, faults>>
  BY DEF HashChunk
<1>4. /\ Head(channel) = channel[1] /\ Len(channel) >= 1 /\ Head(channel) \in Chunks \cup {Empty}
      /\ channel' \in Seq(Chunks \cup {Empty}) /\ Len(channel') = Len(channel) - 1
      /\ \A j \in 1..Len(channel') : channel'[j] = channel[j + 1]
  BY <1>1, <1>3
<1>5. EndIsOnTheWay = IF reader = "ended" THEN 1 ELSE 0
  BY <1>1 DEF EndIsOnTheWay
<1>6. local' = local /\ pc' = "digest" /\ Cur' = Cur
  BY <1>1, <1>3 DEF Cur
<1>7. (Checking /\ ReaderIsAwaited /\ DigestIsOfFile /\ MineIsDone /\ FetchedIsWhole)'
  BY <1>1, <1>3 DEF Inv, Checking, ReaderIsAwaited, DigestIsOfFile, MineIsDone, FetchedIsWhole,
                    Cur
<1>8. hashed' \in Seq(Chunks)
  BY <1>1, <1>3, <1>4
<1>9. TypeOK'
  <2>1. Len(channel') <= Bound
    BY <1>1, <1>4 DEF Inv, TypeOK, ConstantsAssumption
  <2> QED  BY <1>1, <1>3, <1>4, <1>8, <2>1 DEF Inv, TypeOK
<1>10. Stream'
  <2>1. CASE Len(hashed) + 1 <= Len(local)
    <3>1. Head(channel) = local[Len(hashed) + 1]
      BY <1>1, <1>2, <1>4, <2>1
    <3>2. Head(channel) # Empty
      BY <1>1, <2>1, <3>1
    <3>3. /\ Len(hashed') = Len(hashed) + 1 /\ hashed'[Len(hashed) + 1] = local[Len(hashed) + 1]
          /\ \A j \in 1..Len(hashed) : hashed'[j] = hashed[j]
      BY <1>1, <1>3, <1>4, <3>1, <3>2
    <3>4. \A j \in 1..Len(hashed') : hashed'[j] = local[j]
      <4> SUFFICES ASSUME NEW j \in 1..Len(hashed') PROVE hashed'[j] = local[j]
        OBVIOUS
      <4>1. Len(hashed) \in Nat
        BY <1>1
      <4>2. Len(hashed') = Len(hashed) + 1
        BY <3>3
      <4>3. j \in 1..Len(hashed) \/ j = Len(hashed) + 1
        <5>1. j \in 1..(Len(hashed) + 1)
          BY <4>2
        <5> HIDE DEF local
        <5> QED  BY <4>1, <5>1
      <4>4. \A l \in 1..Len(hashed) : hashed[l] = local[l]
        BY <1>2
      <4> HIDE DEF local
      <4> QED  BY <3>3, <4>3, <4>4
    <3>5. \A j \in 1..Len(channel') :
              channel'[j] = IF Len(hashed') + j <= Len(local)
                            THEN local[Len(hashed') + j] ELSE Empty
      BY <1>1, <1>2, <1>4, <3>3
    <3>6. EndIsOnTheWay' = EndIsOnTheWay
      <4>1. reader = "ended" => Len(channel') # 0
        <5>1. Len(hashed) \in Nat /\ Len(channel) \in Nat /\ Len(local) \in Nat
          BY <1>1
        <5>2. reader = "ended" => Len(hashed) + Len(channel) = Len(local) + 1
          BY <1>2, <1>5
        <5>3. Len(channel') = Len(channel) - 1 /\ Len(channel) \in Nat
          BY <1>1, <1>4
        <5>4. CASE reader = "ended"
          <6>1. Len(hashed) + Len(channel) = Len(local) + 1
            BY <5>2, <5>4
          <6>2. Len(channel) >= 2
            <7> HIDE DEF local
            <7> QED  BY <2>1, <5>1, <6>1
          <6>3. Len(channel') >= 1
            BY <5>3, <6>2
          <6> QED  BY <6>3
        <5> QED  BY <5>4
      <4>2. reader = "ended" => channel' # <<>>
        BY <4>1
      <4> QED  BY <1>3, <1>5, <4>2 DEF EndIsOnTheWay
    <3>7. Len(hashed') + Len(channel') = consumed + EndIsOnTheWay'
      BY <1>1, <1>2, <1>4, <3>3, <3>6
    <3> QED  BY <1>2, <1>3, <1>6, <3>4, <3>5, <3>7 DEF Stream
  <2>2. CASE Len(hashed) + 1 > Len(local)
    <3>1. Len(hashed) = Len(local) /\ Len(channel) = 1 /\ reader = "ended"
      <4>1. Len(hashed) \in Nat /\ Len(channel) \in Nat /\ Len(local) \in Nat
        BY <1>1
      <4>2. /\ consumed <= Len(local) /\ (reader = "ended" => consumed = Len(local))
            /\ Len(hashed) + Len(channel) = consumed + (IF reader = "ended" THEN 1 ELSE 0)
        BY <1>2, <1>5
      <4>3. Len(channel) >= 1
        BY <1>4
      <4>4. consumed \in Nat
        BY <1>1
      <4>5. reader = "ended"
        <5> HIDE DEF local
        <5> QED  BY <2>2, <4>1, <4>2, <4>3, <4>4
      <4>6. Len(hashed) + Len(channel) = Len(local) + 1
        BY <4>2, <4>5
      <4>7. Len(hashed) = Len(local) /\ Len(channel) = 1
        <5> HIDE DEF local
        <5> QED  BY <2>2, <4>1, <4>3, <4>6, OneLeft
      <4> QED  BY <4>5, <4>7
    <3>2. Head(channel) = Empty
      BY <1>1, <1>2, <1>4, <2>2
    <3>3. hashed' = hashed /\ channel' = <<>>
      <4>1. Len(channel') = 0 /\ channel' \in Seq(Chunks \cup {Empty})
        BY <1>4, <3>1
      <4>2. channel' = <<>>
        BY <4>1
      <4> QED  BY <1>3, <3>2, <4>2
    <3>4. EndIsOnTheWay' = 0
      BY <3>3 DEF EndIsOnTheWay
    <3>5. Len(hashed') + Len(channel') = consumed + EndIsOnTheWay'
      BY <1>1, <1>2, <3>1, <3>3, <3>4
    <3>6. \A j \in 1..Len(channel') :
              channel'[j] = IF Len(hashed') + j <= Len(local)
                            THEN local[Len(hashed') + j] ELSE Empty
      BY <3>3
    <3> QED  BY <1>2, <1>3, <1>6, <3>3, <3>5, <3>6 DEF Stream
  <2> QED  BY <1>1, <2>1, <2>2
<1> QED  BY <1>7, <1>9, <1>10 DEF Inv

\* What was sent before the reader failed is hashed all the same.
LEMMA ReaderFailsStep ==
    ASSUME ConstantsAssumption, Inv, ReaderFails
    PROVE  Inv'
<1>1. TypeOK'
  BY DEF Inv, TypeOK, ReaderFails, Fault, ConstantsAssumption
<1>2. EndIsOnTheWay = 0 /\ EndIsOnTheWay' = 0
  BY DEF ReaderFails, EndIsOnTheWay
<1>3. Stream'
  BY <1>2 DEF Inv, ReaderFails, Stream, Cur
<1>4. (Checking /\ ReaderIsAwaited /\ DigestIsOfFile /\ MineIsDone /\ FetchedIsWhole)'
  BY DEF Inv, ReaderFails, Checking, ReaderIsAwaited, DigestIsOfFile, MineIsDone, FetchedIsWhole,
         Cur
<1> QED  BY <1>1, <1>3, <1>4 DEF Inv

LEMMA InvStep == ConstantsAssumption /\ Inv /\ [Next]_vars => Inv'
<1> SUFFICES ASSUME ConstantsAssumption, Inv, [Next]_vars PROVE Inv'
  OBVIOUS
<1>1. CASE Process
  BY <1>1, MainStep, CompareStep, PanicStep DEF Process, JoinFails, Inv, TypeOK
<1>2. CASE Reader
  BY <1>2, ReadStep, ReaderFailsStep DEF Reader
<1>3. CASE HashChunk
  BY <1>3, HashStep
<1>4. CASE FetchFails \/ Crash
  <2>1. faults' \in 0..MaxFaults
    BY <1>4, FaultCounts DEF FetchFails, Crash, Inv, TypeOK
  <2> QED  BY <1>4, <2>1, PanicStep DEF FetchFails, Crash
<1>5. CASE \E f \in Files : Wget(f)
  BY <1>5, WgetStep DEF Wget
<1>6. CASE UNCHANGED vars
  BY <1>6 DEF vars, Inv, TypeOK, Checking, ReaderIsAwaited, Stream, EndIsOnTheWay,
              DigestIsOfFile, MineIsDone, FetchedIsWhole, Cur
<1> QED  BY <1>1, <1>2, <1>3, <1>4, <1>5, <1>6 DEF Next

LEMMA InvAlways == Spec => []Inv
<1>1. Init => Inv
  BY InitInv, ConstantsAssumption
<1>2. Inv /\ [Next]_vars => Inv'
  BY InvStep, ConstantsAssumption
<1> QED  BY <1>1, <1>2, PTL DEF Spec

-----------------------------------------------------------------------------
(***************************************************************************)
(* What follows.                                                            *)
(***************************************************************************)

\* Files, process and threads are as typed; the channel never holds more than
\* its bound.
THEOREM TypeCorrect == Spec => []TypeOK
<1>1. Inv => TypeOK
  BY DEF Inv
<1> QED  BY <1>1, InvAlways, PTL

\* For every file and every bound of the channel, and whichever of reader and
\* digester is ahead, what is compared is the digest of the whole file.
THEOREM DigestIsOfFileAlways == Spec => []DigestIsOfFile
<1>1. Inv => DigestIsOfFile
  BY DEF Inv
<1> QED  BY <1>1, InvAlways, PTL

\* What a process has fetched itself is whole, and checked if it can be,
\* wherever it and the processes before it have died.
THEOREM FetchedIsWholeAlways == Spec => []FetchedIsWhole
<1>1. Inv => FetchedIsWhole
  BY DEF Inv
<1> QED  BY <1>1, InvAlways, PTL

\* A file that is there is only ever written on to.
THEOREM OnlyGrowsAlways == Spec => OnlyGrows
<1> DEFINE Grows == \A f \in Files : file[f] # None =>
                        /\ Len(file[f]) <= Len(file'[f])
                        /\ \A j \in DOMAIN file[f] : file'[f][j] = file[f][j]
<1>1. Inv /\ [Next]_vars => [Grows]_vars
  <2> SUFFICES ASSUME Inv, Next PROVE Grows
    OBVIOUS
  <2> SUFFICES ASSUME NEW f \in Files, file[f] # None
               PROVE  /\ Len(file[f]) <= Len(file'[f])
                      /\ \A j \in DOMAIN file[f] : file'[f][j] = file[f][j]
    OBVIOUS
  <2>1. file[f] \in Seq(Chunks) /\ file \in [Files -> Seq(Chunks) \cup {None}]
    BY DEF Inv, TypeOK
  <2>2. CASE UNCHANGED file
    BY <2>1, <2>2
  <2>3. CASE StartFetch
    BY <2>1, <2>3 DEF StartFetch
  <2>4. CASE \E g \in Files : WgetWrites(g)
    <3>1. PICK g \in Files : \E c : file' = [file EXCEPT ![g] = Append(@, c)]
      BY <2>4 DEF WgetWrites
    <3>2. PICK c : file' = [file EXCEPT ![g] = Append(@, c)]
      BY <3>1
    <3>3. file'[f] = file[f] \/ file'[f] = Append(file[f], c)
      BY <2>1, <3>2
    <3> QED  BY <2>1, <3>3
  <2> QED
    BY <2>2, <2>3, <2>4 DEF Next, Process, Reader, Wget, Build, Found, Fetched, StartDigest, Join,
            JoinFails, Compare, Install, ReadChunk, ReaderFails, HashChunk, FetchFails, Crash,
            OrphanEnds
<1> QED  BY <1>1, InvAlways, PTL DEF OnlyGrows, Spec
=============================================================================
