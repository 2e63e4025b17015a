---- MODULE Devices_proofs ----
(***************************************************************************)
(* The disk and the windows of the terminal, for files of any length, any  *)
(* driver, windows of any size and any text.                               *)
(***************************************************************************)
EXTENDS Library, SequenceTheorems, TLAPS

----------------------------------------------------------------------------
(***************************************************************************)
(* A piece of a sequence loses its first element to the sequence before.   *)
(***************************************************************************)
LEMMA PieceType ==
    ASSUME NEW S, NEW s \in Seq(S), NEW m \in Nat, NEW n \in Nat, m <= n, n <= Len(s)
    PROVE  SubSeq(s, m + 1, n) \in Seq(S) /\ Len(SubSeq(s, m + 1, n)) = n - m
  OBVIOUS

LEMMA PiecesMeet ==
    ASSUME NEW S, NEW s \in Seq(S), NEW m \in Nat, NEW n \in Nat, m <= n, n <= Len(s)
    PROVE  SubSeq(s, 1, m) \o SubSeq(s, m + 1, n) = SubSeq(s, 1, n)
<1>1. 1 \in 1 .. Len(s) + 1 /\ m \in 1 - 1 .. Len(s) /\ n \in m .. Len(s)
  OBVIOUS
<1> QED
  BY <1>1, ConcatAdjacentSubSeq

LEMMA EmptyBehind == \A s \in Seq(Nat) : s \o <<>> = s
  BY ConcatEmptySeq

LEMMA FirstMoves ==
    ASSUME NEW S, NEW s \in Seq(S), NEW t \in Seq(S), NEW k \in Nat, k < Len(t)
    PROVE  Append(s, t[k + 1]) \o SubSeq(t, k + 2, Len(t)) = s \o SubSeq(t, k + 1, Len(t))
<1>1. t[k + 1] \in S /\ <<t[k + 1]>> \in Seq(S) /\ SubSeq(t, k + 2, Len(t)) \in Seq(S)
  OBVIOUS
<1>2. <<t[k + 1]>> = SubSeq(t, k + 1, k + 1)
  OBVIOUS
<1>3. SubSeq(t, k + 1, k + 1) \o SubSeq(t, (k + 1) + 1, Len(t)) = SubSeq(t, k + 1, Len(t))
  <2>1. k + 1 \in 1 .. Len(t) + 1 /\ k + 1 \in (k + 1) - 1 .. Len(t) /\ Len(t) \in k + 1 .. Len(t)
    OBVIOUS
  <2> QED
    BY <2>1, ConcatAdjacentSubSeq
<1>4. Append(s, t[k + 1]) = s \o <<t[k + 1]>>
  BY <1>1, AppendIsConcat
<1>5. (s \o <<t[k + 1]>>) \o SubSeq(t, k + 2, Len(t)) = s \o (<<t[k + 1]>> \o SubSeq(t, k + 2, Len(t)))
  <2> DEFINE one == <<t[k + 1]>>  rest == SubSeq(t, k + 2, Len(t))
  <2> HIDE DEF one, rest
  <2>1. one \in Seq(S) /\ rest \in Seq(S)
    BY <1>1 DEF one, rest
  <2>2. (s \o one) \o rest = s \o (one \o rest)
    BY <2>1, ConcatAssociative
  <2> QED
    BY <2>2 DEF one, rest
<1>6. (k + 1) + 1 = k + 2
  OBVIOUS
<1> QED
  BY <1>2, <1>3, <1>4, <1>5, <1>6

----------------------------------------------------------------------------
(***************************************************************************)
(* The disk: what it keeps of its streams, and that a byte handed out has  *)
(* been read and its file is open.                                         *)
(***************************************************************************)
Stream == [fname : DOMAIN Files, pos : Nat, fail : BOOLEAN]

DiskTyped ==
    /\ Drive!TypeOK
    /\ file_descriptors \in [Drive!Open -> Stream]
    /\ uploaded \in [Drive!Open -> Seq(Nat)]
    /\ state = "UploadingFile" => source \in Drive!Open /\ count < Len(buffer)

\* What the actions leave alone but for a few.
SameFiles == UNCHANGED <<next_id, file_descriptors, uploaded>>

LEMMA DiskConstants ==
    /\ FirstId \in Nat \ {0} /\ LastId \in Nat /\ FirstId <= LastId
    /\ DiskValues \subseteq Nat /\ MaxName \in Nat
    /\ \A name \in DOMAIN Files : Files[name] \in Seq(Nat)
    /\ Drive!Null = 0
  BY DiskAssumption DEF Drive!DiskAssumption, Drive!Null

LEMMA DiskInitTyped == Drive!Init => DiskTyped
<1> SUFFICES ASSUME Drive!Init PROVE DiskTyped
  OBVIOUS
<1>1. Drive!Open = {} /\ uploaded = <<>> /\ DOMAIN uploaded = {}
  BY DEF Drive!Init, Drive!Open
<1>2. Drive!TypeOK
  BY <1>1, DiskConstants DEF Drive!Init, Drive!TypeOK
<1> QED
  BY <1>1, <1>2 DEF Drive!Init, Drive!Open, DiskTyped

LEMMA ReadMoves ==
    ASSUME DiskTyped, current \in Drive!Open, NEW n \in Nat,
           file_descriptors' = [file_descriptors EXCEPT
                ![current].pos = @ + n, ![current].fail = @ \/ n < data_written]
    PROVE  /\ DOMAIN file_descriptors' = DOMAIN file_descriptors
           /\ file_descriptors' \in [DOMAIN file_descriptors' -> Stream]
           /\ \A id \in DOMAIN file_descriptors :
                /\ file_descriptors'[id].fname = file_descriptors[id].fname
                /\ file_descriptors'[id].pos =
                        IF id = current THEN file_descriptors[id].pos + n ELSE file_descriptors[id].pos
<1> DEFINE f == file_descriptors  g == file_descriptors'  D == DOMAIN file_descriptors
           p == f[current].pos + n  b == f[current].fail \/ n < data_written
<1>1. f \in [D -> Stream] /\ current \in D
  BY DEF DiskTyped, Drive!Open
<1>2. p \in Nat
  BY <1>1 DEF Stream
<1>3. b \in BOOLEAN
  OBVIOUS
<1>4. g = [f EXCEPT ![current].pos = p, ![current].fail = b]
  OBVIOUS
<1>5. /\ g \in [D -> Stream]
      /\ \A id \in D : g[id].fname = f[id].fname /\ g[id].pos = IF id = current THEN p ELSE f[id].pos
  <2> HIDE DEF f, g, D, p, b
  <2>1. f[current] \in Stream /\ [[f[current] EXCEPT !.pos = p] EXCEPT !.fail = b] \in Stream
    BY <1>1, <1>2, <1>3 DEF Stream
  <2> QED
    BY <1>1, <1>2, <1>3, <1>4, <2>1 DEF Stream
<1> QED
  BY <1>5

\* The bytes a read delivers: those from the position on, as far as the file goes.
LEMMA BytesOfRead ==
    ASSUME DiskTyped, NEW id \in Drive!Open
    PROVE  LET bytes == Drive!BytesRead(id)  d == file_descriptors[id]  c == Drive!Content(id)
           IN  /\ bytes \in Seq(Nat) /\ d.pos + Len(bytes) \in 0 .. Len(c)
               /\ c \in Seq(Nat) /\ d.pos \in Nat
               /\ bytes = SubSeq(c, d.pos + 1, d.pos + Len(bytes))
<1> DEFINE bytes == Drive!BytesRead(id)  d == file_descriptors[id]  c == Drive!Content(id)
<1>1. c \in Seq(Nat) /\ d.pos \in 0 .. Len(c) /\ d \in Stream /\ data_written \in Nat
  BY DiskConstants DEF DiskTyped, Drive!TypeOK, Drive!Open
<1>2. CASE d.fail
  <2>1. bytes = <<>>
    BY <1>2 DEF Drive!BytesRead
  <2>2. SubSeq(c, d.pos + 1, d.pos) = <<>>
    BY <1>1
  <2> QED
    BY <1>1, <2>1, <2>2
<1>3. CASE ~d.fail
  <2> DEFINE end == IF d.pos + data_written < Len(c) THEN d.pos + data_written ELSE Len(c)
  <2>1. bytes = SubSeq(c, d.pos + 1, end)
    BY <1>3 DEF Drive!BytesRead
  <2>2. end \in Nat /\ d.pos \in Nat /\ d.pos <= end /\ end <= Len(c)
    BY <1>1
  <2> HIDE DEF end, bytes, d, c
  <2>3. bytes \in Seq(Nat) /\ Len(bytes) = end - d.pos
    BY <1>1, <2>1, <2>2, PieceType
  <2>4. d.pos + Len(bytes) = end
    BY <2>2, <2>3
  <2>7. Len(c) \in Nat
    BY <1>1
  <2>5. end \in 0 .. Len(c)
    BY <2>2, <2>7
  <2>6. bytes \in Seq(Nat) /\ c \in Seq(Nat) /\ d.pos \in Nat
    BY <1>1, <2>3
  <2> QED
    BY <2>1, <2>4, <2>5, <2>6 DEF bytes, d, c
<1> QED
  BY <1>2, <1>3

LEMMA DiskNextTyped == DiskTyped /\ [Drive!Next]_Drive!vars => DiskTyped'
<1> SUFFICES ASSUME DiskTyped, [Drive!Next]_Drive!vars PROVE DiskTyped'
  OBVIOUS
<1> USE DEF Drive!Open
<1>0. /\ fname \in Seq(FnameChars) /\ Len(fname) <= MaxName
      /\ next_id \in FirstId .. LastId /\ DOMAIN file_descriptors \subseteq FirstId .. next_id - 1
      /\ \A id \in DOMAIN file_descriptors :
            Drive!Content(id) \in Seq(Nat) /\ file_descriptors[id].pos \in 0 .. Len(Drive!Content(id))
      /\ count \in Nat /\ buffer \in Seq(Nat)
      /\ data_written \in DiskValues /\ data_result \in Nat
      /\ current \in DOMAIN file_descriptors \cup {0} /\ DOMAIN uploaded = DOMAIN file_descriptors
      /\ file_descriptors \in [DOMAIN file_descriptors -> Stream]
      /\ uploaded \in [DOMAIN file_descriptors -> Seq(Nat)]
      /\ state = "UploadingFile" => source \in DOMAIN file_descriptors /\ count < Len(buffer)
  BY DiskConstants DEF DiskTyped, Drive!TypeOK
<1>s. /\ state \in {"Idle", "SettingFname", "ReadingFile", "UploadingFileSize", "UploadingFile", "Aborted"}
      /\ error \in {"NoError", "CannotOpenFile", "FileAlreadyOpen", "InvalidFileDescriptor"}
  BY DEF DiskTyped, Drive!TypeOK
<1>k. ASSUME SameFiles,
             state' \in {"Idle", "SettingFname", "ReadingFile", "UploadingFileSize", "UploadingFile", "Aborted"},
             error' \in {"NoError", "CannotOpenFile", "FileAlreadyOpen", "InvalidFileDescriptor"},
             fname' \in Seq(FnameChars) /\ Len(fname') <= MaxName,
             count' \in Nat /\ buffer' = buffer,
             data_written' \in DiskValues /\ data_result' \in Nat,
             current' \in DOMAIN file_descriptors \cup {0},
             state' = "UploadingFile" => state = "UploadingFile" /\ UNCHANGED <<count, source>>
      PROVE  DiskTyped'
  <2>1. \A id \in DOMAIN file_descriptors : Drive!Content(id)' = Drive!Content(id)
    BY <1>k DEF SameFiles, Drive!Content
  <2>2. Drive!TypeOK'
    BY <1>0, <1>k, <2>1, DiskConstants DEF SameFiles, Drive!TypeOK
  <2> QED
    BY <1>0, <1>k, <2>2 DEF SameFiles, DiskTyped
<1> USE DEF SameFiles
<1>1. ASSUME NEW accepted \in BOOLEAN, Drive!RunCycle(accepted) PROVE DiskTyped'
  BY <1>0, <1>s, <1>1, <1>k DEF Drive!RunCycle
<1>2. ASSUME Drive!Abort PROVE DiskTyped'
  BY <1>0, <1>s, <1>2, <1>k DEF Drive!Abort
<1>3. ASSUME NEW id \in FirstId .. LastId, Drive!SelectFile(id) PROVE DiskTyped'
  BY <1>0, <1>s, <1>3, <1>k, DiskConstants DEF Drive!SelectFile, Drive!device
<1>4. ASSUME Drive!ReadFileID \/ Drive!CmdWithoutFile \/ Drive!ReadSizeWithoutFile PROVE DiskTyped'
  BY <1>0, <1>s, <1>4, <1>k, DiskConstants
     DEF Drive!ReadFileID, Drive!CmdWithoutFile, Drive!ReadSizeWithoutFile, Drive!device
<1>5. ASSUME Drive!SetFname PROVE DiskTyped'
  BY <1>0, <1>s, <1>5, <1>k, DiskConstants DEF Drive!SetFname
<1>6. ASSUME Drive!OpenFile PROVE DiskTyped'
  <2>1. CASE fname \in DOMAIN Files
    <3> DEFINE fd == [id \in DOMAIN file_descriptors \cup {next_id} |->
                        IF id = next_id THEN [fname |-> fname, pos |-> 0, fail |-> FALSE]
                                        ELSE file_descriptors[id]]
    <3>1. /\ file_descriptors' = fd /\ next_id' = next_id + 1 /\ current' = next_id
          /\ uploaded' = [id \in DOMAIN file_descriptors \cup {next_id} |->
                            IF id = next_id THEN <<>> ELSE uploaded[id]]
          /\ next_id < LastId /\ state' = "Idle" /\ fname' = <<>> /\ error' = "NoError"
          /\ UNCHANGED <<count, buffer, data_written, data_result>>
      BY <1>6, <2>1 DEF Drive!OpenFile
    <3>2. [fname |-> fname, pos |-> 0, fail |-> FALSE] \in Stream
      BY <2>1 DEF Stream
    <3>3. fd \in [DOMAIN fd -> Stream] /\ DOMAIN fd = DOMAIN file_descriptors \cup {next_id}
      BY <1>0, <3>2
    <3>4. uploaded' \in [DOMAIN fd -> Seq(Nat)] /\ DOMAIN uploaded' = DOMAIN fd
      BY <1>0, <3>1, <3>3
    <3>5. \A id \in DOMAIN fd : Files[fd[id].fname] \in Seq(Nat) /\ fd[id].pos \in 0 .. Len(Files[fd[id].fname])
      BY <1>0, <2>1, DiskConstants DEF Drive!Content
    <3>6. DOMAIN fd \subseteq FirstId .. (next_id + 1) - 1 /\ next_id + 1 \in FirstId .. LastId
      BY <1>0, <3>1, <3>3, DiskConstants
    <3> HIDE DEF fd
    <3>7. Drive!TypeOK'
      BY <1>0, <3>1, <3>3, <3>4, <3>5, <3>6, DiskConstants DEF Drive!TypeOK, Drive!Content
    <3> QED
      BY <3>1, <3>3, <3>4, <3>7 DEF DiskTyped
  <2>2. CASE fname \notin DOMAIN Files
    <3>1. /\ next_id' = next_id + 1 /\ current' = 0 /\ next_id < LastId /\ state' = "Idle"
          /\ fname' = <<>> /\ error' = "CannotOpenFile"
          /\ UNCHANGED <<count, buffer, data_written, data_result, file_descriptors, uploaded>>
      BY <1>6, <2>2, DiskConstants DEF Drive!OpenFile
    <3>2. DOMAIN file_descriptors \subseteq FirstId .. (next_id + 1) - 1 /\ next_id + 1 \in FirstId .. LastId
      <4>1. DOMAIN file_descriptors \subseteq FirstId .. next_id - 1 /\ next_id \in FirstId .. LastId
        BY Zenon, <1>0
      <4>2. next_id < LastId
        BY Zenon, <3>1
      <4>3. FirstId .. next_id - 1 \subseteq FirstId .. (next_id + 1) - 1 /\ next_id + 1 \in FirstId .. LastId
        BY <4>1, <4>2, DiskConstants
      <4> QED
        BY Zenon, <4>1, <4>3
    <3>3. Drive!TypeOK'
      BY <1>0, <3>1, <3>2, DiskConstants DEF Drive!TypeOK, Drive!Content
    <3> QED
      BY <1>0, <3>1, <3>3 DEF DiskTyped
  <2> QED
    BY <2>1, <2>2
<1>7. ASSUME Drive!OpenFileAgain PROVE DiskTyped'
  BY <1>0, <1>s, <1>7, <1>k, DiskConstants DEF Drive!OpenFileAgain, Drive!device
<1>8. ASSUME Drive!CloseFile PROVE DiskTyped'
  <2>1. /\ file_descriptors' = [id \in DOMAIN file_descriptors \ {current} |-> file_descriptors[id]]
        /\ uploaded' = [id \in DOMAIN file_descriptors \ {current} |-> uploaded[id]]
        /\ current' = 0 /\ error' = "NoError" /\ state' = "Idle"
        /\ UNCHANGED <<fname, next_id, count, buffer, data_written, data_result>>
    BY <1>8, DiskConstants DEF Drive!CloseFile
  <2>2. /\ DOMAIN file_descriptors' = DOMAIN file_descriptors \ {current}
        /\ file_descriptors' \in [DOMAIN file_descriptors' -> Stream]
        /\ uploaded' \in [DOMAIN file_descriptors' -> Seq(Nat)]
        /\ \A id \in DOMAIN file_descriptors' : file_descriptors'[id] = file_descriptors[id]
    BY <1>0, <2>1
  <2>3. Drive!TypeOK'
    BY <1>0, <2>1, <2>2, DiskConstants DEF Drive!TypeOK, Drive!Content
  <2> QED
    BY <2>1, <2>2, <2>3 DEF DiskTyped
<1>9. ASSUME Drive!ReadFile PROVE DiskTyped'
  BY <1>0, <1>s, <1>9, <1>k DEF Drive!ReadFile
<1>10. ASSUME Drive!GetFileSize PROVE DiskTyped'
  <2>1. data_result' \in Nat
    BY <1>0, <1>10, DiskConstants DEF Drive!GetFileSize
  <2> QED
    BY <1>0, <1>s, <1>10, <1>k, <2>1 DEF Drive!GetFileSize
<1>11. ASSUME NEW v \in DiskValues, Drive!WriteSize(v) PROVE DiskTyped'
  BY <1>0, <1>s, <1>11, <1>k DEF Drive!WriteSize
<1>12. ASSUME NEW c \in FnameChars, Drive!WriteFnameChar(c) PROVE DiskTyped'
  <2>1. fname' \in Seq(FnameChars) /\ Len(fname') <= MaxName
    BY <1>0, <1>12, DiskConstants DEF Drive!WriteFnameChar
  <2> QED
    BY <1>0, <1>s, <1>12, <1>k, <2>1 DEF Drive!WriteFnameChar
<1>13. ASSUME Drive!WriteFnameEnd PROVE DiskTyped'
  BY <1>0, <1>s, <1>13, <1>k DEF Drive!WriteFnameEnd
<1>14. ASSUME Drive!ReadSize PROVE DiskTyped'
  <2> DEFINE bytes == Drive!BytesRead(current)
  <2>1. /\ current \in DOMAIN file_descriptors /\ buffer' = bytes /\ source' = current
        /\ file_descriptors' = [file_descriptors EXCEPT
                ![current].pos = @ + Len(bytes),
                ![current].fail = @ \/ Len(bytes) < data_written]
        /\ state' \in {"UploadingFile", "Idle"} /\ count' \in Nat
        /\ state' = "UploadingFile" => count' = 0 /\ bytes # <<>>
        /\ error' = "NoError"
        /\ UNCHANGED <<fname, next_id, data_written, data_result, current, uploaded>>
    BY <1>0, <1>14, DiskConstants DEF Drive!ReadSize, Drive!Filled
  <2>2. /\ bytes \in Seq(Nat)
        /\ file_descriptors[current].pos + Len(bytes) \in 0 .. Len(Drive!Content(current))
    BY <2>1, BytesOfRead
  <2> HIDE DEF bytes
  <2>3. /\ DOMAIN file_descriptors' = DOMAIN file_descriptors
        /\ file_descriptors' \in [DOMAIN file_descriptors' -> Stream]
        /\ \A id \in DOMAIN file_descriptors :
                /\ file_descriptors'[id].fname = file_descriptors[id].fname
                /\ file_descriptors'[id].pos =
                        IF id = current THEN file_descriptors[id].pos + Len(bytes) ELSE file_descriptors[id].pos
    <3>1. Len(bytes) \in Nat
      BY <2>2
    <3> QED
      BY Zenon, <2>1, <3>1, ReadMoves DEF Drive!Open
  <2>6. \A id \in DOMAIN file_descriptors' :
            /\ Drive!Content(id)' \in Seq(Nat)
            /\ file_descriptors'[id].pos \in 0 .. Len(Drive!Content(id)')
    BY <1>0, <2>2, <2>3 DEF Drive!Content
  <2>4. Drive!TypeOK'
    BY <1>0, <2>1, <2>2, <2>3, <2>6 DEF Drive!TypeOK, Drive!Content
  <2>5. state' = "UploadingFile" => source' \in DOMAIN file_descriptors' /\ count' < Len(buffer')
    BY <2>1, <2>2, <2>3
  <2> QED
    BY <1>0, <2>1, <2>3, <2>4, <2>5 DEF DiskTyped
<1>15. ASSUME Drive!ReadByte PROVE DiskTyped'
  <2>0. /\ count \in Nat /\ buffer \in Seq(Nat) /\ Len(buffer) \in Nat
        /\ uploaded \in [DOMAIN file_descriptors -> Seq(Nat)]
    BY <1>0
  <2>1. /\ source \in DOMAIN file_descriptors /\ count < Len(buffer) /\ count' = count + 1
        /\ uploaded' = [uploaded EXCEPT ![source] = Append(@, buffer[count + 1])]
        /\ state' = IF count' = Len(buffer) THEN "Idle" ELSE "UploadingFile"
        /\ UNCHANGED <<fname, next_id, buffer, data_written, data_result, error,
                       file_descriptors, current, source>>
    BY <1>0, <1>15 DEF Drive!ReadByte
  <2>2. uploaded' \in [DOMAIN file_descriptors -> Seq(Nat)]
    <3>1. buffer[count + 1] \in Nat /\ uploaded[source] \in Seq(Nat)
      BY <2>0, <2>1
    <3>2. Append(uploaded[source], buffer[count + 1]) \in Seq(Nat)
      BY <3>1
    <3> QED
      BY <1>0, <2>1, <3>2
  <2>4. state' \in {"UploadingFile", "Idle"} /\ count' \in Nat /\ Drive!Null = 0
    BY <2>0, <2>1, DiskConstants
  <2>3. Drive!TypeOK'
    BY <1>0, <1>s, <2>1, <2>2, <2>4 DEF Drive!TypeOK, Drive!Content
  <2>5. state' = "UploadingFile" => source' \in DOMAIN file_descriptors' /\ count' < Len(buffer')
    <3>1. count + 1 # Len(buffer) => count + 1 < Len(buffer)
      BY <1>0, <2>1
    <3> QED
      BY <2>1, <3>1
  <2> QED
    BY <1>0, <2>1, <2>2, <2>3, <2>5 DEF DiskTyped
<1>16. ASSUME UNCHANGED Drive!vars PROVE DiskTyped'
  BY <1>0, <1>s, <1>16, <1>k, DiskConstants DEF Drive!vars, Drive!device
<1> QED
  BY <1>1, <1>2, <1>3, <1>4, <1>5, <1>6, <1>7, <1>8, <1>9, <1>10, <1>11, <1>12, <1>13, <1>14, <1>15, <1>16
     DEF Drive!Next, Drive!OpenFileIdsUsedUp, Drive!CmdNotImplemented, Drive!WriteDataOutOfTurn,
         Drive!ReadDataOutOfTurn

\* The two halves of UploadsFollowFiles, by name.
Waiting(id) ==
    IF state = "UploadingFile" /\ source = id THEN SubSeq(buffer, count + 1, Len(buffer)) ELSE <<>>

Follows ==
    state # "Aborted" =>
        \A id \in Drive!Open :
            uploaded[id] \o Waiting(id) = SubSeq(Drive!Content(id), 1, file_descriptors[id].pos)

OneStream ==
    \A i, j \in Drive!Open : file_descriptors[i].fname = file_descriptors[j].fname => i = j

LEMMA UploadsInTwo == UploadsFollowFiles <=> Follows /\ OneStream
  BY DEF UploadsFollowFiles, Drive!UploadsFollowFiles, Follows, OneStream, Waiting

LEMMA DiskNextFollows ==
    DiskTyped /\ Follows /\ OneStream /\ [Drive!Next]_Drive!vars => Follows' /\ OneStream'
<1> SUFFICES ASSUME DiskTyped, Follows, OneStream, [Drive!Next]_Drive!vars
             PROVE  Follows' /\ OneStream'
  OBVIOUS
<1> USE DEF Drive!Open
<1>0. /\ file_descriptors \in [DOMAIN file_descriptors -> Stream]
      /\ uploaded \in [DOMAIN file_descriptors -> Seq(Nat)]
      /\ count \in Nat /\ buffer \in Seq(Nat) /\ Len(buffer) \in Nat
      /\ next_id \notin DOMAIN file_descriptors
      /\ current \in DOMAIN file_descriptors \cup {0}
      /\ state = "UploadingFile" => source \in DOMAIN file_descriptors /\ count < Len(buffer)
  BY DiskConstants DEF DiskTyped, Drive!TypeOK
\* Steps that leave streams and what waits alone, or end the simulator.
<1>k. ASSUME UNCHANGED <<file_descriptors, uploaded>>,
             state' = "Aborted" \/
                (/\ state # "Aborted"
                 /\ (state' = "UploadingFile") <=> (state = "UploadingFile")
                 /\ state' = "UploadingFile" => UNCHANGED <<count, buffer, source>>)
      PROVE  Follows' /\ OneStream'
  <2>1. \A id : Drive!Content(id)' = Drive!Content(id)
    BY <1>k DEF Drive!Content
  <2>2. OneStream'
    BY <1>k DEF OneStream
  <2>3. ASSUME state' # "Aborted" PROVE \A id : Waiting(id)' = Waiting(id)
    BY <1>k, <2>3 DEF Waiting
  <2> QED
    BY <1>k, <2>1, <2>2, <2>3 DEF Follows
<1>1. ASSUME NEW accepted \in BOOLEAN, Drive!RunCycle(accepted) PROVE Follows' /\ OneStream'
  BY <1>1, <1>k DEF Drive!RunCycle
<1>2. ASSUME Drive!Abort PROVE Follows' /\ OneStream'
  BY <1>2, <1>k DEF Drive!Abort
<1>3. ASSUME NEW id \in FirstId .. LastId, Drive!SelectFile(id) PROVE Follows' /\ OneStream'
  BY <1>3, <1>k DEF Drive!SelectFile, Drive!device, Drive!Alive
<1>4. ASSUME \/ Drive!ReadFileID \/ Drive!CmdWithoutFile \/ Drive!ReadSizeWithoutFile
             \/ Drive!SetFname \/ Drive!OpenFileAgain \/ Drive!ReadFile \/ Drive!GetFileSize
             \/ Drive!WriteFnameEnd
      PROVE  Follows' /\ OneStream'
  BY <1>4, <1>k
     DEF Drive!ReadFileID, Drive!CmdWithoutFile, Drive!ReadSizeWithoutFile, Drive!device, Drive!Alive,
         Drive!SetFname, Drive!OpenFileAgain, Drive!ReadFile, Drive!GetFileSize, Drive!WriteFnameEnd
<1>5. ASSUME NEW v \in DiskValues, Drive!WriteSize(v) PROVE Follows' /\ OneStream'
  BY <1>5, <1>k DEF Drive!WriteSize
<1>6. ASSUME NEW c \in FnameChars, Drive!WriteFnameChar(c) PROVE Follows' /\ OneStream'
  BY <1>6, <1>k DEF Drive!WriteFnameChar
<1>7. ASSUME Drive!OpenFile PROVE Follows' /\ OneStream'
  <2>1. CASE fname \in DOMAIN Files
    <3>1. /\ file_descriptors' = [id \in DOMAIN file_descriptors \cup {next_id} |->
                        IF id = next_id THEN [fname |-> fname, pos |-> 0, fail |-> FALSE]
                                        ELSE file_descriptors[id]]
          /\ uploaded' = [id \in DOMAIN file_descriptors \cup {next_id} |->
                            IF id = next_id THEN <<>> ELSE uploaded[id]]
          /\ state = "Idle" /\ state' = "Idle"
          /\ \A id \in DOMAIN file_descriptors : file_descriptors[id].fname # fname
      BY <1>7, <2>1 DEF Drive!OpenFile, Drive!IsOpen
    <3>2. OneStream'
      BY <1>0, <3>1 DEF OneStream
    <3>3. \A id : Waiting(id) = <<>> /\ Waiting(id)' = <<>>
      BY <3>1 DEF Waiting
    <3>4. ASSUME NEW id \in DOMAIN file_descriptors
          PROVE  uploaded'[id] \o Waiting(id)' = SubSeq(Drive!Content(id)', 1, file_descriptors'[id].pos)
      BY <1>0, <3>1, <3>3 DEF Follows, Drive!Content
    <3>5. ASSUME NEW id, id = next_id
          PROVE  uploaded'[id] \o Waiting(id)' = SubSeq(Drive!Content(id)', 1, file_descriptors'[id].pos)
      <4>1. uploaded'[id] = <<>> /\ file_descriptors'[id].pos = 0
        BY <3>1, <3>5
      <4>2. Drive!Content(id)' \in Seq(Nat)
        BY <2>1, <3>1, <3>5, DiskConstants DEF Drive!Content
      <4>3. SubSeq(Drive!Content(id)', 1, 0) = <<>>
        BY <4>2
      <4>4. <<>> \o <<>> = <<>>
        BY EmptyBehind, <<>> \in Seq(Nat)
      <4>5. uploaded'[id] \o Waiting(id)' = <<>>
        BY <3>3, <4>1, <4>4
      <4> QED
        BY <4>1, <4>3, <4>5
    <3> QED
      BY <3>1, <3>2, <3>4, <3>5 DEF Follows
  <2>2. CASE fname \notin DOMAIN Files
    BY <1>7, <2>2, <1>k DEF Drive!OpenFile
  <2> QED
    BY <2>1, <2>2
<1>8. ASSUME Drive!CloseFile PROVE Follows' /\ OneStream'
  <2>1. /\ file_descriptors' = [id \in DOMAIN file_descriptors \ {current} |-> file_descriptors[id]]
        /\ uploaded' = [id \in DOMAIN file_descriptors \ {current} |-> uploaded[id]]
        /\ state = "Idle" /\ state' = "Idle"
    BY <1>8 DEF Drive!CloseFile
  <2>2. \A id : Waiting(id)' = Waiting(id)
    BY <2>1 DEF Waiting
  <2> QED
    BY <2>1, <2>2 DEF Follows, OneStream, Drive!Content
<1>9. ASSUME Drive!ReadSize PROVE Follows' /\ OneStream'
  <2> DEFINE bytes == Drive!BytesRead(current)
  <2>1. /\ current \in DOMAIN file_descriptors /\ buffer' = bytes /\ source' = current
        /\ file_descriptors' = [file_descriptors EXCEPT
                ![current].pos = @ + Len(bytes),
                ![current].fail = @ \/ Len(bytes) < data_written]
        /\ state = "UploadingFileSize"
        /\ IF bytes # <<>> THEN state' = "UploadingFile" /\ count' = 0 ELSE state' = "Idle"
        /\ uploaded' = uploaded
    BY <1>0, <1>9, DiskConstants DEF Drive!ReadSize, Drive!Filled
  <2>2. /\ bytes \in Seq(Nat) /\ Drive!Content(current) \in Seq(Nat)
        /\ file_descriptors[current].pos \in Nat
        /\ file_descriptors[current].pos + Len(bytes) \in 0 .. Len(Drive!Content(current))
        /\ bytes = SubSeq(Drive!Content(current), file_descriptors[current].pos + 1,
                          file_descriptors[current].pos + Len(bytes))
    BY <2>1, BytesOfRead
  <2> HIDE DEF bytes
  <2>3. /\ DOMAIN file_descriptors' = DOMAIN file_descriptors
        /\ \A id \in DOMAIN file_descriptors :
                /\ file_descriptors'[id].fname = file_descriptors[id].fname
                /\ file_descriptors'[id].pos =
                        IF id = current THEN file_descriptors[id].pos + Len(bytes) ELSE file_descriptors[id].pos
    <3>1. Len(bytes) \in Nat
      BY <2>2
    <3> QED
      BY Zenon, <2>1, <3>1, ReadMoves DEF Drive!Open
  <2>4. OneStream'
    BY <2>3 DEF OneStream
  <2>5. \A id : Waiting(id) = <<>> /\ Waiting(id)' = IF id = current THEN bytes ELSE <<>>
    <3>1. SubSeq(bytes, 0 + 1, Len(bytes)) = bytes
      BY <2>2
    <3> QED
      BY <2>1, <3>1 DEF Waiting
  <2>6. ASSUME NEW id \in DOMAIN file_descriptors
        PROVE  uploaded[id] = SubSeq(Drive!Content(id), 1, file_descriptors[id].pos)
    <3>1. uploaded[id] \in Seq(Nat) /\ uploaded[id] \o <<>> = uploaded[id]
      BY <1>0, EmptyBehind
    <3> QED
      BY <2>1, <2>5, <3>1 DEF Follows
  <2>7. ASSUME NEW id \in DOMAIN file_descriptors
        PROVE  uploaded'[id] \o Waiting(id)' = SubSeq(Drive!Content(id)', 1, file_descriptors'[id].pos)
    <3>0. Drive!Content(id)' = Drive!Content(id)
      BY <2>3 DEF Drive!Content
    <3>1. CASE id = current
      <4> DEFINE c == Drive!Content(id)  m == file_descriptors[id].pos  n == m + Len(bytes)
      <4>1. /\ c \in Seq(Nat) /\ m \in Nat /\ n \in Nat /\ m <= n /\ n <= Len(c)
            /\ bytes = SubSeq(c, m + 1, n)
        BY <2>2, <3>1
      <4>2. uploaded'[id] = SubSeq(c, 1, m) /\ Waiting(id)' = bytes /\ file_descriptors'[id].pos = n
        BY <2>1, <2>3, <2>5, <2>6, <3>1
      <4> HIDE DEF c, m, n
      <4>3. SubSeq(c, 1, m) \o SubSeq(c, m + 1, n) = SubSeq(c, 1, n)
        BY <4>1, PiecesMeet
      <4>4. uploaded'[id] \o Waiting(id)' = SubSeq(c, 1, n)
        BY <4>1, <4>2, <4>3
      <4> QED
        BY <3>0, <4>2, <4>4 DEF c
    <3>2. CASE id # current
      <4>1. uploaded[id] \in Seq(Nat) /\ Waiting(id)' = <<>> /\ uploaded' = uploaded
        BY <1>0, <2>1, <2>5, <3>2
      <4>2. uploaded'[id] \o Waiting(id)' = uploaded[id]
        BY <4>1, EmptyBehind
      <4> QED
        BY <2>3, <2>6, <3>0, <3>2, <4>2
    <3> QED
      BY <3>1, <3>2
  <2> QED
    BY <2>3, <2>4, <2>7 DEF Follows
<1>10. ASSUME Drive!ReadByte PROVE Follows' /\ OneStream'
  <2>1. /\ source \in DOMAIN file_descriptors /\ count < Len(buffer) /\ count' = count + 1
        /\ uploaded' = [uploaded EXCEPT ![source] = Append(@, buffer[count + 1])]
        /\ state = "UploadingFile"
        /\ state' = IF count' = Len(buffer) THEN "Idle" ELSE "UploadingFile"
        /\ UNCHANGED <<buffer, file_descriptors, source>>
    BY <1>0, <1>10 DEF Drive!ReadByte
  <2>2. OneStream'
    BY <2>1 DEF OneStream
  <2>3. \A id : id # source => Waiting(id) = <<>> /\ Waiting(id)' = <<>>
    BY <2>1 DEF Waiting
  <2>6. ASSUME NEW id, id = source
        PROVE  uploaded'[id] \o Waiting(id)' = uploaded[id] \o Waiting(id)
    <3>1. Waiting(id) = SubSeq(buffer, count + 1, Len(buffer))
      BY <2>1, <2>6 DEF Waiting
    <3>2. SubSeq(buffer, count + 2, Len(buffer)) = Waiting(id)'
      <4>1. count' = Len(buffer) => SubSeq(buffer, count + 2, Len(buffer)) = <<>>
        BY <1>0, <2>1
      <4>2. count' + 1 = count + 2
        BY <1>0, <2>1
      <4> QED
        BY <2>1, <2>6, <4>1, <4>2 DEF Waiting
    <3>3. uploaded'[id] = Append(uploaded[id], buffer[count + 1]) /\ uploaded[id] \in Seq(Nat)
      BY <1>0, <2>1, <2>6
    <3>4. Append(uploaded[id], buffer[count + 1]) \o SubSeq(buffer, count + 2, Len(buffer))
            = uploaded[id] \o SubSeq(buffer, count + 1, Len(buffer))
      BY <1>0, <2>1, <3>3, FirstMoves
    <3> QED
      BY <3>1, <3>2, <3>3, <3>4
  <2>7. ASSUME NEW id \in DOMAIN file_descriptors
        PROVE  uploaded'[id] \o Waiting(id)' = SubSeq(Drive!Content(id)', 1, file_descriptors'[id].pos)
    <3>1. uploaded'[id] \o Waiting(id)' = uploaded[id] \o Waiting(id)
      BY <1>0, <2>1, <2>3, <2>6
    <3> QED
      BY <2>1, <3>1 DEF Follows, Drive!Content
  <2> QED
    BY <2>1, <2>2, <2>7 DEF Follows
<1>11. ASSUME UNCHANGED Drive!vars PROVE Follows' /\ OneStream'
  BY <1>11 DEF Follows, OneStream, Waiting, Drive!Content, Drive!vars, Drive!device
<1> QED
  BY <1>1, <1>2, <1>3, <1>4, <1>5, <1>6, <1>7, <1>8, <1>9, <1>10, <1>11
     DEF Drive!Next, Drive!OpenFileIdsUsedUp, Drive!CmdNotImplemented, Drive!WriteDataOutOfTurn,
         Drive!ReadDataOutOfTurn

\* What is handed out for a descriptor, and what waits in the buffer for it, is its file up
\* to where its stream stands, and no file has two streams: for any files and any driver
\* (disk.cpp:223).
THEOREM DiskDeliversFiles == Drive!Spec => []UploadsFollowFiles
<1>1. Drive!Init => DiskTyped /\ Follows /\ OneStream
  BY DiskInitTyped DEF Drive!Init, Drive!Open, Follows, OneStream
<1>2. DiskTyped /\ Follows /\ OneStream /\ [Drive!Next]_Drive!vars
        => DiskTyped' /\ Follows' /\ OneStream'
  BY DiskNextTyped, DiskNextFollows
<1>3. Follows /\ OneStream => UploadsFollowFiles
  BY UploadsInTwo
<1> QED
  BY <1>1, <1>2, <1>3, PTL DEF Drive!Spec

----------------------------------------------------------------------------
(***************************************************************************)
(* The windows.  What print does to one window and to its paper, operators *)
(* of the window alone; a window shows its paper if Shows.                 *)
(***************************************************************************)
Window == [buffer : [Video!Rows -> [Video!Cols -> Chars \cup {" "}]], x : 0 .. ncols, y : Video!Rows]

\* Lines of characters, at least one, none longer than the window is wide.
Paper(lines) ==
    /\ lines \in Seq(Seq(Chars)) /\ Len(lines) >= 1
    /\ \A i \in 1 .. Len(lines) : Len(lines[i]) <= ncols

Off(lines) == IF Len(lines) > nrows THEN Len(lines) - nrows ELSE 0

Cell(lines, i, col) ==
    IF i <= Len(lines) /\ col + 1 <= Len(lines[i]) THEN lines[i][col + 1] ELSE " "

Shows(w, lines) ==
    /\ w.y + 1 = Len(lines) - Off(lines)
    /\ w.x = Len(lines[Len(lines)])
    /\ \A row \in Video!Rows, col \in Video!Cols : w.buffer[row][col] = Cell(lines, Off(lines) + row + 1, col)

LEMMA VideoConstants ==
    /\ nrows \in Nat /\ nrows >= 1 /\ ncols \in Nat /\ ncols >= 1
    /\ Video!Rows = 0 .. nrows - 1 /\ Video!Cols = 0 .. ncols - 1
<1>1. nrows \in Nat \ {0} /\ ncols \in Nat \ {0}
  BY Zenon, VideoAssumption DEF Video!VideoAssumption
<1>2. Video!Rows = 0 .. nrows - 1 /\ Video!Cols = 0 .. ncols - 1
  BY Zenon DEF Video!Rows, Video!Cols
<1> QED
  BY <1>1, <1>2

\* An empty line more.
Grown(lines, more) ==
    /\ Paper(more) /\ Len(more) = Len(lines) + 1 /\ Len(more[Len(lines) + 1]) = 0
    /\ \A i \in 1 .. Len(lines) : more[i] = lines[i]

LEMMA AppendPaper ==
    ASSUME NEW lines, Paper(lines)
    PROVE  Grown(lines, Append(lines, <<>>))
<1> DEFINE empty == <<>>  more == Append(lines, empty)
<1>1. empty \in Seq(Chars) /\ Len(empty) = 0
  OBVIOUS
<1>2. lines \in Seq(Seq(Chars)) /\ Len(lines) \in Nat /\ Len(lines) >= 1
  BY DEF Paper
<1>3. \A i \in 1 .. Len(lines) : Len(lines[i]) <= ncols
  BY DEF Paper
<1> HIDE DEF empty
<1>4. /\ more \in Seq(Seq(Chars)) /\ Len(more) = Len(lines) + 1 /\ more[Len(lines) + 1] = empty
      /\ \A i \in 1 .. Len(lines) : more[i] = lines[i]
  BY <1>1, <1>2
<1> HIDE DEF more
<1>5. ASSUME NEW i \in 1 .. Len(more) PROVE Len(more[i]) <= ncols
  <2>1. CASE i \in 1 .. Len(lines)
    BY <1>3, <1>4, <2>1
  <2>2. CASE i = Len(lines) + 1
    BY <1>1, <1>4, <2>2, VideoConstants
  <2> QED
    BY <1>2, <1>4, <2>1, <2>2
<1>6. Paper(more)
  BY <1>2, <1>4, <1>5 DEF Paper
<1>7. Len(more[Len(lines) + 1]) = 0
  BY <1>1, <1>4
<1>8. Grown(lines, more)
  BY <1>4, <1>6, <1>7 DEF Grown
<1> QED
  BY <1>8 DEF more, empty

LEMMA SetPaper ==
    ASSUME NEW lines, Paper(lines), NEW line \in Seq(Chars), Len(line) <= ncols
    PROVE  LET set == [lines EXCEPT ![Len(lines)] = line]
           IN  /\ Paper(set) /\ Len(set) = Len(lines) /\ set[Len(lines)] = line
               /\ \A i \in 1 .. Len(lines) : i # Len(lines) => set[i] = lines[i]
<1>1. lines \in Seq(Seq(Chars)) /\ Len(lines) \in Nat /\ Len(lines) \in 1 .. Len(lines)
  BY DEF Paper
<1> DEFINE set == [lines EXCEPT ![Len(lines)] = line]
<1>2. /\ set \in Seq(Seq(Chars)) /\ Len(set) = Len(lines) /\ set[Len(lines)] = line
      /\ \A i \in 1 .. Len(lines) : i # Len(lines) => set[i] = lines[i]
  BY <1>1
<1> HIDE DEF set
<1>3. Paper(set)
  BY <1>1, <1>2 DEF Paper
<1> QED
  BY <1>2, <1>3 DEF set

LEMMA CellKept ==
    ASSUME NEW lines, NEW more, NEW i, NEW col, i <= Len(lines), i <= Len(more), more[i] = lines[i]
    PROVE  Cell(more, i, col) = Cell(lines, i, col)
  BY DEF Cell

LEMMA CellBlank ==
    ASSUME NEW lines, NEW i, NEW col \in Nat, Len(lines[i]) = 0
    PROVE  Cell(lines, i, col) = " "
<1>1. ~(col + 1 <= Len(lines[i]))
  BY SMT
<1> QED
  BY Zenon, <1>1 DEF Cell

LEMMA CellBelow ==
    ASSUME NEW lines, NEW i, NEW col, ~(i <= Len(lines))
    PROVE  Cell(lines, i, col) = " "
  BY DEF Cell

\* An empty line more leaves every cell as it was.
LEMMA CellAppended ==
    ASSUME NEW lines, NEW more, Paper(lines), Grown(lines, more), NEW i \in Nat, i >= 1, NEW col \in Nat
    PROVE  Cell(more, i, col) = Cell(lines, i, col)
<1> DEFINE n == Len(lines)
<1>1. n \in Nat
  BY DEF Paper
<1>2. Len(more) = n + 1
  BY DEF Grown
<1>3. Len(more[n + 1]) = 0
  BY DEF Grown
<1>4. \A j \in 1 .. n : more[j] = lines[j]
  BY DEF Grown
<1> HIDE DEF n
<1>5. CASE i <= n
  <2>1. i \in 1 .. n /\ i <= n + 1
    BY <1>1, <1>5
  <2>2. more[i] = lines[i]
    BY <1>4, <2>1
  <2>3. i <= Len(lines) /\ i <= Len(more)
    BY <1>2, <1>5, <2>1 DEF n
  <2> QED
    BY <2>2, <2>3 DEF Cell
<1>6. CASE ~(i <= n)
  <2>1. Cell(lines, i, col) = " "
    BY <1>6, CellBelow DEF n
  <2>2. CASE i = n + 1
    <3>1. Cell(more, n + 1, col) = " "
      BY Zenon, <1>3, CellBlank
    <3> QED
      BY Zenon, <2>1, <2>2, <3>1
  <2>3. CASE i # n + 1
    <3>1. ~(i <= n + 1)
      BY <1>1, <1>6, <2>3
    <3>2. Cell(more, i, col) = " "
      BY Zenon, <1>2, <3>1, CellBelow
    <3> QED
      BY Zenon, <2>1, <3>2
  <2> QED
    BY Zenon, <2>2, <2>3
<1> QED
  BY Zenon, <1>5, <1>6

Matrix == [Video!Rows -> [Video!Cols -> Chars \cup {" "}]]

LEMMA RolledMatrix ==
    ASSUME NEW b \in Matrix
    PROVE  /\ Video!Rolled(b) \in Matrix
           /\ \A row \in Video!Rows, col \in Video!Cols :
                Video!Rolled(b)[row][col] = IF row < nrows - 1 THEN b[row + 1][col] ELSE " "
<1>1. nrows \in Nat /\ Video!Rows = 0 .. nrows - 1
  BY VideoConstants
<1> DEFINE blank == [col \in Video!Cols |-> " "]
<1>2. blank \in [Video!Cols -> Chars \cup {" "}] /\ \A col \in Video!Cols : blank[col] = " "
  OBVIOUS
<1>3. \A row \in Video!Rows : row < nrows - 1 => row + 1 \in Video!Rows
  BY <1>1
<1>4. Video!Rolled(b) = [row \in Video!Rows |-> IF row < nrows - 1 THEN b[row + 1] ELSE blank]
  BY DEF Video!Rolled
<1> HIDE DEF blank
<1>5. \A row \in Video!Rows : Video!Rolled(b)[row] = IF row < nrows - 1 THEN b[row + 1] ELSE blank
  BY Zenon, <1>4
<1>6. Video!Rolled(b) \in Matrix
  BY <1>2, <1>3, <1>4 DEF Matrix
<1>7. ASSUME NEW row \in Video!Rows, NEW col \in Video!Cols
      PROVE  Video!Rolled(b)[row][col] = IF row < nrows - 1 THEN b[row + 1][col] ELSE " "
  <2>1. CASE row < nrows - 1
    BY Zenon, <1>5, <2>1
  <2>2. CASE ~(row < nrows - 1)
    BY Zenon, <1>2, <1>5, <2>2
  <2> QED
    BY <2>1, <2>2
<1> QED
  BY <1>6, <1>7

\* A window shows its paper if its matrix does and the cursor is right.
LEMMA ShowsBy ==
    ASSUME NEW w, NEW lines, NEW off, off = Off(lines),
           w.y + 1 = Len(lines) - off, w.x = Len(lines[Len(lines)]),
           \A row \in Video!Rows, col \in Video!Cols : w.buffer[row][col] = Cell(lines, off + row + 1, col)
    PROVE  Shows(w, lines)
  BY Zenon DEF Shows

LEMMA WindowRecord ==
    ASSUME NEW b \in Matrix, NEW p \in 0 .. ncols, NEW q \in Video!Rows,
           NEW w, w = [buffer |-> b, x |-> p, y |-> q]
    PROVE  w \in Window /\ w.buffer = b /\ w.x = p /\ w.y = q
  BY DEF Window, Matrix

\* The next line, rolled into sight or not.
LEMMA NextLineShows ==
    ASSUME NEW w \in Window, NEW lines, NEW more, Paper(lines), Grown(lines, more), Shows(w, lines)
    PROVE  Video!NextLine(w) \in Window /\ Shows(Video!NextLine(w), more)
<1> DEFINE n == Len(lines)  next == Video!NextLine(w)
           off == Off(lines)  off2 == Off(more)
<1>0. nrows \in Nat /\ nrows >= 1 /\ ncols \in Nat /\ Video!Rows = 0 .. nrows - 1 /\ Video!Cols = 0 .. ncols - 1
  BY VideoConstants
<1>1. n \in Nat /\ n >= 1
  BY DEF Paper
<1>2. Len(more) = n + 1
  BY DEF Grown
<1>3. Len(more[n + 1]) = 0
  BY DEF Grown
<1>4. w.buffer \in Matrix /\ w.y \in 0 .. nrows - 1
  BY <1>0 DEF Window, Matrix
<1>5. w.y + 1 = n - off
  BY DEF Shows
<1>6. \A row \in Video!Rows, col \in Video!Cols : w.buffer[row][col] = Cell(lines, off + row + 1, col)
  BY DEF Shows
<1>7. off = IF n > nrows THEN n - nrows ELSE 0
  BY DEF Off
<1>8. off2 = IF n + 1 > nrows THEN n + 1 - nrows ELSE 0
  <2>1. off2 = IF Len(more) > nrows THEN Len(more) - nrows ELSE 0
    BY DEF Off
  <2> HIDE DEF off2, n
  <2> QED
    BY <1>0, <1>1, <1>2, <2>1
<1>9. next = IF w.y + 1 >= nrows THEN [buffer |-> Video!Rolled(w.buffer), x |-> 0, y |-> w.y]
             ELSE [w EXCEPT !.x = 0, !.y = w.y + 1]
  BY DEF Video!NextLine
<1>10. \A i \in Nat, col \in Nat : i >= 1 => Cell(more, i, col) = Cell(lines, i, col)
  BY CellAppended
<1>11. \A col \in Nat : Cell(more, n + 1, col) = " "
  BY <1>3, CellBlank
<1> HIDE DEF n, next, off, off2
<1>12. /\ next \in Window /\ next.y + 1 = n + 1 - off2 /\ next.x = 0
       /\ \A row \in Video!Rows, col \in Video!Cols : next.buffer[row][col] = Cell(more, off2 + row + 1, col)
  <2>1. CASE w.y + 1 >= nrows
    <3>1. w.y = nrows - 1 /\ off = n - nrows /\ off2 = off + 1 /\ off \in Nat /\ off2 \in Nat
      BY <1>0, <1>1, <1>4, <1>5, <1>7, <1>8, <2>1
    <3>2. next = [buffer |-> Video!Rolled(w.buffer), x |-> 0, y |-> w.y]
      BY <1>9, <2>1
    <3>3. /\ Video!Rolled(w.buffer) \in Matrix
          /\ \A row \in Video!Rows, col \in Video!Cols :
                next.buffer[row][col] = IF row < nrows - 1 THEN w.buffer[row + 1][col] ELSE " "
      BY <1>4, <3>2, RolledMatrix
    <3>4. next \in Window /\ next.y = w.y /\ next.x = 0
      <4>1. 0 \in 0 .. ncols /\ w.y \in Video!Rows
        BY <1>0, <1>4
      <4> DEFINE b == Video!Rolled(w.buffer)
      <4>2. b \in Matrix /\ next = [buffer |-> b, x |-> 0, y |-> w.y]
        BY Zenon, <3>2, <3>3
      <4> HIDE DEF b
      <4> QED
        BY <4>1, <4>2, WindowRecord
    <3>5. ASSUME NEW row \in Video!Rows, NEW col \in Video!Cols
          PROVE  next.buffer[row][col] = Cell(more, off2 + row + 1, col)
      <4>0. row \in Nat /\ col \in Nat /\ row <= nrows - 1
        BY <1>0
      <4>1. CASE row < nrows - 1
        <5>0. row + 1 \in Video!Rows
          BY <1>0, <4>0, <4>1
        <5>1. next.buffer[row][col] = w.buffer[row + 1][col]
          BY Zenon, <3>3, <4>1
        <5>2. w.buffer[row + 1][col] = Cell(lines, off + (row + 1) + 1, col)
          BY Zenon, <1>6, <5>0
        <5>3. off + (row + 1) + 1 = off2 + row + 1 /\ off2 + row + 1 \in Nat /\ off2 + row + 1 >= 1
          BY <3>1, <4>0
        <5>4. Cell(more, off2 + row + 1, col) = Cell(lines, off2 + row + 1, col)
          BY <1>10, <4>0, <5>3
        <5> QED
          BY <5>1, <5>2, <5>3, <5>4
      <4>2. CASE row = nrows - 1
        <5>1. off2 + row + 1 = n + 1
          BY <1>0, <1>1, <3>1, <4>2
        <5>2. ~(row < nrows - 1)
          BY <1>0, <4>2
        <5>3. next.buffer[row][col] = " "
          BY Zenon, <3>3, <5>2
        <5> QED
          BY Zenon, <1>11, <4>0, <5>1, <5>3
      <4> QED
        BY <1>0, <4>0, <4>1, <4>2
    <3> QED
      BY <1>1, <1>4, <1>5, <3>1, <3>4, <3>5
  <2>2. CASE ~(w.y + 1 >= nrows)
    <3>1. off = 0 /\ off2 = 0 /\ w.y + 1 = n
      BY <1>0, <1>1, <1>4, <1>5, <1>7, <1>8, <2>2
    <3>2. next = [w EXCEPT !.x = 0, !.y = w.y + 1]
      BY <1>9, <2>2
    <3>3. w.y + 1 \in Video!Rows /\ 0 \in 0 .. ncols
      BY <1>0, <1>4, <2>2
    <3>4. next \in Window /\ next.buffer = w.buffer /\ next.x = 0 /\ next.y = w.y + 1
      BY <3>2, <3>3 DEF Window
    <3>5. ASSUME NEW row \in Video!Rows, NEW col \in Video!Cols
          PROVE  next.buffer[row][col] = Cell(more, off2 + row + 1, col)
      <4>1. 0 + row + 1 \in Nat /\ 0 + row + 1 >= 1 /\ col \in Nat
        BY <1>0
      <4>2. next.buffer[row][col] = Cell(lines, 0 + row + 1, col)
        BY <1>6, <3>1, <3>4
      <4> QED
        BY <1>10, <3>1, <4>1, <4>2
    <3> QED
      BY <1>1, <3>1, <3>4, <3>5
  <2> QED
    BY <2>1, <2>2
<1>13. next.y + 1 = n + 1 - off2 /\ next.x = 0
  BY Zenon, <1>12
<1>14. next.y + 1 = Len(more) - off2 /\ next.x = Len(more[Len(more)])
  <2>1. Len(more[Len(more)]) = 0
    BY Zenon, <1>2, <1>3
  <2>2. Len(more) - off2 = n + 1 - off2
    BY <1>0, <1>1, <1>2, <1>8
  <2> QED
    BY Zenon, <1>13, <2>1, <2>2
<1> QED
  BY <1>12, <1>14, ShowsBy DEF next, off2

\* Where the cursor's row stands on the paper.
LEMMA CursorRow ==
    ASSUME NEW w \in Window, NEW lines, Paper(lines), Shows(w, lines)
    PROVE  /\ Len(lines) \in Nat /\ Len(lines) >= 1 /\ Off(lines) \in Nat
           /\ Off(lines) + w.y + 1 = Len(lines)
           /\ \A row \in Video!Rows : row # w.y => Off(lines) + row + 1 # Len(lines)
<1> DEFINE n == Len(lines)  off == Off(lines)
<1>1. n \in Nat /\ n >= 1
  BY DEF Paper
<1>2. w.y \in Video!Rows
  BY DEF Window
<1>3. w.y + 1 = n - off
  BY DEF Shows
<1>4. off = IF n > nrows THEN n - nrows ELSE 0
  BY DEF Off
<1> HIDE DEF n, off
<1>5. off \in Nat
  BY <1>1, <1>4, VideoConstants
<1>6. off + w.y + 1 = n
  BY <1>1, <1>2, <1>3, <1>5, VideoConstants
<1>7. ASSUME NEW row \in Video!Rows, row # w.y PROVE off + row + 1 # n
  BY <1>1, <1>2, <1>5, <1>6, <1>7, VideoConstants
<1> QED
  BY <1>1, <1>5, <1>6, <1>7 DEF n, off

\* A change of the last line that the window makes in the cursor's row.
LEMMA LastLineShows ==
    ASSUME NEW w \in Window, NEW lines, Paper(lines), Shows(w, lines),
           NEW v, NEW set, Len(set) = Len(lines),
           \A i \in 1 .. Len(lines) : i # Len(lines) => set[i] = lines[i],
           v.y = w.y, v.x = Len(set[Len(lines)]),
           \A row \in Video!Rows, col \in Video!Cols : row # w.y => v.buffer[row][col] = w.buffer[row][col],
           \A col \in Video!Cols : v.buffer[w.y][col] = Cell(set, Len(lines), col)
    PROVE  Shows(v, set)
<1> DEFINE n == Len(lines)  off == Off(lines)
<1>1. n \in Nat /\ n >= 1 /\ off \in Nat /\ off + w.y + 1 = n /\ w.y \in Video!Rows
  BY CursorRow DEF Window
<1>2. off = Off(set)
  BY Zenon DEF Off
<1>3. \A row \in Video!Rows, col \in Video!Cols : w.buffer[row][col] = Cell(lines, off + row + 1, col)
  BY DEF Shows
<1>4. w.y + 1 = Len(set) - off
  BY Zenon DEF Shows
<1>5. v.y + 1 = Len(set) - off /\ v.x = Len(set[Len(set)])
  BY Zenon, <1>4
<1>6. \A row \in Video!Rows : row # w.y => off + row + 1 # n
  BY CursorRow
<1>7. \A i \in 1 .. n : i # n => set[i] = lines[i]
  OBVIOUS
<1>8. Len(set) = n
  OBVIOUS
<1>9. ASSUME NEW row \in Video!Rows, NEW col \in Video!Cols
      PROVE  v.buffer[row][col] = Cell(set, off + row + 1, col)
  <2>1. CASE row = w.y
    BY Zenon, <1>1, <2>1
  <2>2. CASE row # w.y
    <3> DEFINE i == off + row + 1
    <3>1. i \in Nat /\ i >= 1 /\ i # n
      BY <1>1, <1>6, <2>2, VideoConstants
    <3>2. v.buffer[row][col] = Cell(lines, i, col)
      BY Zenon, <1>3, <2>2
    <3> HIDE DEF i, n
    <3>3. CASE i <= n
      <4>1. set[i] = lines[i]
        BY <1>1, <1>7, <3>1, <3>3
      <4>2. Cell(set, i, col) = Cell(lines, i, col)
        BY <1>8, <3>3, <4>1 DEF Cell, n
      <4> QED
        BY Zenon, <3>2, <4>2 DEF i
    <3>4. CASE ~(i <= n)
      <4>0. ~(i <= Len(set)) /\ ~(i <= Len(lines))
        BY <1>8, <3>4 DEF n
      <4>1. Cell(set, i, col) = " "
        BY <4>0 DEF Cell
      <4>2. Cell(lines, i, col) = " "
        BY <4>0 DEF Cell
      <4> QED
        BY Zenon, <3>2, <4>1, <4>2 DEF i
    <3> QED
      BY <3>3, <3>4
  <2> QED
    BY <2>1, <2>2
<1> QED
  <2> HIDE DEF off
  <2> QED
    BY <1>2, <1>5, <1>9, ShowsBy

\* What clearing the cursor's row from a column on does.
LEMMA ClearedWindow ==
    ASSUME NEW w \in Window, NEW from
    PROVE  LET cleared == Video!Cleared(w, from)
           IN  /\ cleared \in Window /\ cleared.x = w.x /\ cleared.y = w.y
               /\ \A row \in Video!Rows, col \in Video!Cols :
                    cleared.buffer[row][col] = IF row = w.y /\ col >= from THEN " " ELSE w.buffer[row][col]
<1> DEFINE line == [col \in Video!Cols |-> IF col >= from THEN " " ELSE w.buffer[w.y][col]]
           b == [w.buffer EXCEPT ![w.y] = line]
           cleared == Video!Cleared(w, from)
<1>1. w.buffer \in Matrix /\ w.y \in Video!Rows /\ w.x \in 0 .. ncols
      /\ w = [buffer |-> w.buffer, x |-> w.x, y |-> w.y]
  BY DEF Window, Matrix
<1>2. line \in [Video!Cols -> Chars \cup {" "}]
  BY <1>1 DEF Matrix
<1>3. \A col \in Video!Cols : line[col] = IF col >= from THEN " " ELSE w.buffer[w.y][col]
  OBVIOUS
<1>4. cleared = [w EXCEPT !.buffer = b]
  BY <1>1 DEF Video!Cleared
<1> HIDE DEF line
<1>5. b \in Matrix /\ \A row \in Video!Rows : b[row] = IF row = w.y THEN line ELSE w.buffer[row]
  BY <1>1, <1>2 DEF Matrix
<1> HIDE DEF b, cleared
<1>6. cleared = [buffer |-> b, x |-> w.x, y |-> w.y]
  BY <1>1, <1>4
<1>7. cleared \in Window /\ cleared.buffer = b /\ cleared.x = w.x /\ cleared.y = w.y
  BY <1>1, <1>5, <1>6, WindowRecord
<1>8. ASSUME NEW row \in Video!Rows, NEW col \in Video!Cols
      PROVE  cleared.buffer[row][col] = IF row = w.y /\ col >= from THEN " " ELSE w.buffer[row][col]
  <2>1. CASE row = w.y
    BY Zenon, <1>3, <1>5, <1>7, <2>1
  <2>2. CASE row # w.y
    BY Zenon, <1>5, <1>7, <2>2
  <2> QED
    BY <2>1, <2>2
<1> QED
  BY <1>7, <1>8 DEF cleared

\* Behind the cursor there is nothing to clear.
LEMMA ClearedShows ==
    ASSUME NEW w \in Window, NEW lines, Paper(lines), Shows(w, lines)
    PROVE  Video!Cleared(w, w.x) \in Window /\ Shows(Video!Cleared(w, w.x), lines)
<1> DEFINE n == Len(lines)  v == Video!Cleared(w, w.x)
<1>1. n \in Nat /\ n >= 1 /\ Off(lines) + w.y + 1 = n /\ w.y \in Video!Rows /\ w.x \in Nat
  <2>1. n \in Nat /\ n >= 1 /\ Off(lines) + w.y + 1 = n
    BY Zenon, CursorRow
  <2>2. w.y \in Video!Rows /\ w.x \in 0 .. ncols
    BY DEF Window
  <2>3. w.x \in Nat
    BY <2>2, VideoConstants
  <2> QED
    BY <2>1, <2>2, <2>3
<1>2. v \in Window /\ v.x = w.x /\ v.y = w.y
  BY ClearedWindow
<1>3. \A row \in Video!Rows, col \in Video!Cols :
         v.buffer[row][col] = IF row = w.y /\ col >= w.x THEN " " ELSE w.buffer[row][col]
  BY ClearedWindow
<1>4. w.x = Len(lines[n])
  BY DEF Shows
<1>5. \A col \in Video!Cols : w.buffer[w.y][col] = Cell(lines, n, col)
  BY Zenon, <1>1 DEF Shows
<1> HIDE DEF v, n
<1>6. ASSUME NEW col \in Video!Cols PROVE v.buffer[w.y][col] = Cell(lines, n, col)
  <2>1. CASE col >= w.x
    <3>1. col \in Nat
      BY VideoConstants
    <3>2. ~(col + 1 <= Len(lines[n]))
      BY <1>1, <1>4, <2>1, <3>1
    <3>3. Cell(lines, n, col) = " "
      BY Zenon, <3>2 DEF Cell
    <3> QED
      BY Zenon, <1>1, <1>3, <2>1, <3>3
  <2>2. CASE ~(col >= w.x)
    BY Zenon, <1>1, <1>3, <1>5, <2>2
  <2> QED
    BY <2>1, <2>2
<1>7. \A row \in Video!Rows, col \in Video!Cols : row # w.y => v.buffer[row][col] = w.buffer[row][col]
  BY Zenon, <1>3
<1>8. Shows(v, lines)
  <2>1. \A i \in 1 .. Len(lines) : i # Len(lines) => lines[i] = lines[i]
    OBVIOUS
  <2>2. v.x = Len(lines[Len(lines)]) /\ v.y = w.y /\ Len(lines) = Len(lines)
    BY Zenon, <1>2, <1>4 DEF n
  <2>3. \A col \in Video!Cols : v.buffer[w.y][col] = Cell(lines, Len(lines), col)
    BY Zenon, <1>6 DEF n
  <2> QED
    BY <1>7, <2>1, <2>2, <2>3, LastLineShows
<1> QED
  BY <1>2, <1>8 DEF v

\* A return empties the last line.
LEMMA ReturnShows ==
    ASSUME NEW w \in Window, NEW lines, Paper(lines), Shows(w, lines),
           NEW set, Len(set) = Len(lines), Len(set[Len(lines)]) = 0,
           \A i \in 1 .. Len(lines) : i # Len(lines) => set[i] = lines[i]
    PROVE  LET v == Video!Cleared([w EXCEPT !.x = 0], 0)
           IN  v \in Window /\ Shows(v, set)
<1> DEFINE u == [w EXCEPT !.x = 0]  from == 0  v == Video!Cleared(u, from)
<1>1. u \in Window /\ u.buffer = w.buffer /\ u.x = 0 /\ u.y = w.y /\ w.y \in Video!Rows
  <2>1. 0 \in 0 .. ncols
    BY VideoConstants
  <2> QED
    BY <2>1 DEF Window
<1> HIDE DEF u, from
<1>2. v \in Window /\ v.x = 0 /\ v.y = w.y
  BY <1>1, ClearedWindow
<1>3. \A row \in Video!Rows, col \in Video!Cols :
         v.buffer[row][col] = IF row = w.y /\ col >= from THEN " " ELSE w.buffer[row][col]
  <2>1. ASSUME NEW row \in Video!Rows, NEW col \in Video!Cols
        PROVE  v.buffer[row][col] = IF row = u.y /\ col >= from THEN " " ELSE u.buffer[row][col]
    <3>1. u \in Window
      BY <1>1
    <3> QED
      BY <3>1, ClearedWindow
  <2> HIDE DEF v
  <2> QED
    BY Zenon, <1>1, <2>1
<1> HIDE DEF v
<1>4. ASSUME NEW col \in Video!Cols PROVE v.buffer[w.y][col] = Cell(set, Len(lines), col)
  <2>1. col \in Nat /\ col >= from
    BY VideoConstants DEF from
  <2>2. v.buffer[w.y][col] = " "
    BY Zenon, <1>1, <1>3, <2>1
  <2>3. Cell(set, Len(lines), col) = " "
    BY Zenon, <2>1, CellBlank
  <2> QED
    BY Zenon, <2>2, <2>3
<1>5. \A row \in Video!Rows, col \in Video!Cols : row # w.y => v.buffer[row][col] = w.buffer[row][col]
  BY Zenon, <1>3
<1>6. v.x = Len(set[Len(lines)])
  BY Zenon, <1>2
<1>7. Shows(v, set)
  BY <1>2, <1>4, <1>5, <1>6, LastLineShows
<1> QED
  BY <1>2, <1>7 DEF u, from, v

\* A character goes behind the last line, where the cursor is.
LEMMA CharacterShows ==
    ASSUME NEW w \in Window, NEW lines, Paper(lines), Shows(w, lines), w.x < ncols, NEW c \in Chars,
           NEW set, Len(set) = Len(lines), set[Len(lines)] = Append(lines[Len(lines)], c),
           \A i \in 1 .. Len(lines) : i # Len(lines) => set[i] = lines[i]
    PROVE  LET v == [w EXCEPT !.buffer[w.y][w.x] = c, !.x = w.x + 1]
           IN  v \in Window /\ Shows(v, set)
<1> DEFINE n == Len(lines)  line == lines[n]  longer == Append(line, c)
           row1 == [w.buffer[w.y] EXCEPT ![w.x] = c]
           b == [w.buffer EXCEPT ![w.y] = row1]
           v == [w EXCEPT !.buffer[w.y][w.x] = c, !.x = w.x + 1]
<1>1. w.buffer \in Matrix /\ w.y \in Video!Rows /\ w.x \in 0 .. ncols
      /\ w = [buffer |-> w.buffer, x |-> w.x, y |-> w.y]
  BY DEF Window, Matrix
<1>2. w.x \in Nat /\ w.x \in Video!Cols /\ w.x + 1 \in 0 .. ncols
  BY <1>1, VideoConstants
<1>3. row1 \in [Video!Cols -> Chars \cup {" "}]
  BY <1>1 DEF Matrix
<1>4. \A col \in Video!Cols : row1[col] = IF col = w.x THEN c ELSE w.buffer[w.y][col]
  BY <1>1 DEF Matrix
<1>5. v = [buffer |-> b, x |-> w.x + 1, y |-> w.y]
  <2>1. v = [w EXCEPT !.buffer = b, !.x = w.x + 1]
    BY Zenon
  <2> HIDE DEF v, b
  <2> QED
    BY <2>1 DEF Window
<1> HIDE DEF row1
<1>6. b \in Matrix /\ \A row \in Video!Rows : b[row] = IF row = w.y THEN row1 ELSE w.buffer[row]
  BY <1>1, <1>3 DEF Matrix
<1> HIDE DEF b, v
<1>7. v \in Window /\ v.buffer = b /\ v.x = w.x + 1 /\ v.y = w.y
  BY <1>1, <1>2, <1>5, <1>6, WindowRecord
<1>8. n \in Nat /\ n >= 1 /\ Off(lines) + w.y + 1 = n
  BY Zenon, CursorRow
<1>9. w.x = Len(line)
  BY DEF Shows
<1>10. \A col \in Video!Cols : w.buffer[w.y][col] = Cell(lines, n, col)
  BY Zenon, <1>1, <1>8 DEF Shows
<1>11. line \in Seq(Chars)
  <2>1. lines \in Seq(Seq(Chars))
    BY DEF Paper
  <2> QED
    BY <1>8, <2>1
<1>12. /\ Len(longer) = w.x + 1 /\ longer[w.x + 1] = c
       /\ \A j \in 1 .. w.x : longer[j] = line[j]
  <2> HIDE DEF line
  <2> QED
    BY <1>9, <1>11
<1>13. set[n] = longer /\ Len(set) = n
  OBVIOUS
<1> HIDE DEF n, line, longer
<1>14. ASSUME NEW col \in Video!Cols PROVE v.buffer[w.y][col] = Cell(set, n, col)
  <2>1. col \in Nat /\ n <= n
    BY <1>8, VideoConstants
  <2>2. v.buffer[w.y][col] = IF col = w.x THEN c ELSE w.buffer[w.y][col]
    BY Zenon, <1>1, <1>4, <1>6, <1>7
  <2>3. Cell(set, n, col) = IF col + 1 <= w.x + 1 THEN longer[col + 1] ELSE " "
    BY <1>12, <1>13, <2>1 DEF Cell
  <2>4. Cell(lines, n, col) = IF col + 1 <= w.x THEN line[col + 1] ELSE " "
    BY <1>9, <2>1 DEF Cell, n, line
  <2>5. CASE col < w.x
    <3>1. col + 1 \in 1 .. w.x /\ col + 1 <= w.x /\ col + 1 <= w.x + 1 /\ col # w.x
      BY <1>2, <2>1, <2>5
    <3>2. longer[col + 1] = line[col + 1]
      BY Zenon, <1>12, <3>1
    <3> QED
      BY Zenon, <1>10, <2>2, <2>3, <2>4, <3>1, <3>2
  <2>6. CASE col = w.x
    <3>1. col + 1 <= w.x + 1
      BY <1>2, <2>6
    <3> QED
      BY Zenon, <1>12, <2>2, <2>3, <2>6, <3>1
  <2>7. CASE col > w.x
    <3>1. ~(col + 1 <= w.x) /\ ~(col + 1 <= w.x + 1) /\ col # w.x
      BY <1>2, <2>1, <2>7
    <3> QED
      BY Zenon, <1>10, <2>2, <2>3, <2>4, <3>1
  <2> QED
    BY <1>2, <2>1, <2>5, <2>6, <2>7
<1>15. \A row \in Video!Rows, col \in Video!Cols : row # w.y => v.buffer[row][col] = w.buffer[row][col]
  BY Zenon, <1>6, <1>7
<1>16. v.x = Len(set[n])
  BY Zenon, <1>7, <1>12, <1>13
<1>17. Shows(v, set)
  BY <1>7, <1>14, <1>15, <1>16, LastLineShows DEF n
<1> QED
  BY <1>7, <1>17 DEF v

\* One character, printed to a window and put on its paper.
LEMMA PrintedShows ==
    ASSUME NEW old \in Window, NEW p, Paper(p), Shows(old, p), NEW c \in Chars \cup {"newline", "return"}
    PROVE  /\ Video!Printed(old, c) \in Window
           /\ Paper(Video!OnPaper(p, c))
           /\ Shows(Video!Printed(old, c), Video!OnPaper(p, c))
<1> DEFINE s == IF old.x >= ncols THEN Video!NextLine(old) ELSE old
           more == Append(p, <<>>)
           lines == IF Len(Video!Last(p)) = ncols THEN more ELSE p
           n == Len(lines)
<1>1. old.x = Len(p[Len(p)]) /\ old.x \in 0 .. ncols
  BY DEF Shows, Window
<1>2. Video!Last(p) = p[Len(p)]
  BY DEF Video!Last
<1>3. Grown(p, more)
  BY AppendPaper
<1> HIDE DEF more
<1>4. s \in Window /\ Paper(lines) /\ Shows(s, lines) /\ (s.x < ncols)
  <2>1. CASE old.x >= ncols
    <3>1. Len(Video!Last(p)) = ncols
      BY <1>1, <1>2, <2>1, VideoConstants
    <3>2. s = Video!NextLine(old) /\ lines = more
      BY <2>1, <3>1
    <3>3. s \in Window /\ Shows(s, more)
      BY <1>3, <3>2, NextLineShows
    <3>4. Paper(more) /\ Len(more) = Len(p) + 1 /\ Len(more[Len(p) + 1]) = 0
      BY Zenon, <1>3 DEF Grown
    <3>5. s.x = 0
      BY Zenon, <3>3, <3>4 DEF Shows
    <3> HIDE DEF s, lines
    <3> QED
      BY <3>2, <3>3, <3>4, <3>5, VideoConstants
  <2>2. CASE ~(old.x >= ncols)
    <3>1. Len(Video!Last(p)) # ncols /\ old.x < ncols
      BY <1>1, <1>2, <2>2, VideoConstants
    <3>2. s = old /\ lines = p
      BY <2>2, <3>1
    <3> HIDE DEF s, lines
    <3> QED
      BY <3>1, <3>2
  <2> QED
    BY <2>1, <2>2
<1>5. /\ Video!Printed(old, c) =
            CASE c = "newline" -> Video!NextLine(Video!Cleared(s, s.x))
              [] c = "return" -> Video!Cleared([s EXCEPT !.x = 0], 0)
              [] OTHER -> [s EXCEPT !.buffer[s.y][s.x] = c, !.x = s.x + 1]
      /\ Video!OnPaper(p, c) =
            CASE c = "newline" -> Append(lines, <<>>)
              [] c = "return" -> [lines EXCEPT ![n] = <<>>]
              [] OTHER -> [lines EXCEPT ![n] = Append(lines[n], c)]
  BY DEF Video!Printed, Video!OnPaper, more
<1> HIDE DEF s, lines
<1>6. CASE c = "newline"
  <2> DEFINE longer == Append(lines, <<>>)  v == Video!Cleared(s, s.x)
  <2>1. Video!Printed(old, c) = Video!NextLine(v) /\ Video!OnPaper(p, c) = longer
    BY <1>5, <1>6
  <2>2. Grown(lines, longer)
    BY <1>4, AppendPaper
  <2>3. v \in Window /\ Shows(v, lines)
    BY <1>4, ClearedShows
  <2> HIDE DEF longer, v
  <2>4. Paper(longer)
    BY <2>2 DEF Grown
  <2>5. Video!NextLine(v) \in Window /\ Shows(Video!NextLine(v), longer)
    BY <1>4, <2>2, <2>3, NextLineShows
  <2> QED
    BY <2>1, <2>4, <2>5
<1>7. CASE c = "return"
  <2> DEFINE empty == <<>>  set == [lines EXCEPT ![n] = empty]
             v == Video!Cleared([s EXCEPT !.x = 0], 0)
  <2>0. c # "newline"
    BY <1>7
  <2>1. Video!Printed(old, c) = v /\ Video!OnPaper(p, c) = set
    BY <1>5, <1>7, <2>0
  <2>2. empty \in Seq(Chars) /\ Len(empty) = 0 /\ Len(empty) <= ncols
    BY VideoConstants
  <2> HIDE DEF empty, v
  <2>3. /\ Paper(set) /\ Len(set) = Len(lines) /\ set[Len(lines)] = empty
        /\ \A i \in 1 .. Len(lines) : i # Len(lines) => set[i] = lines[i]
    BY <1>4, <2>2, SetPaper
  <2> HIDE DEF set, n
  <2>4. v \in Window /\ Shows(v, set)
    BY <1>4, <2>2, <2>3, ReturnShows DEF v
  <2> QED
    BY <2>1, <2>3, <2>4
<1>8. CASE c # "newline" /\ c # "return"
  <2> DEFINE line == lines[n]  longer == Append(line, c)  set == [lines EXCEPT ![n] = longer]
             v == [s EXCEPT !.buffer[s.y][s.x] = c, !.x = s.x + 1]
  <2>1. Video!Printed(old, c) = v /\ Video!OnPaper(p, c) = set
    BY <1>5, <1>8
  <2>2. c \in Chars
    BY <1>8
  <2>3. line \in Seq(Chars) /\ Len(line) < ncols
    <3>1. lines \in Seq(Seq(Chars)) /\ n >= 1
      BY <1>4 DEF Paper
    <3>2. Len(line) = s.x
      BY <1>4 DEF Shows
    <3> QED
      BY <1>4, <3>1, <3>2
  <2> HIDE DEF line
  <2>4. longer \in Seq(Chars) /\ Len(longer) <= ncols
    BY <2>2, <2>3, VideoConstants
  <2> HIDE DEF longer, v
  <2>5. /\ Paper(set) /\ Len(set) = Len(lines) /\ set[Len(lines)] = longer
        /\ \A i \in 1 .. Len(lines) : i # Len(lines) => set[i] = lines[i]
    BY <1>4, <2>4, SetPaper
  <2>6. set[Len(lines)] = Append(lines[Len(lines)], c)
    BY Zenon, <2>5 DEF longer, line
  <2> HIDE DEF set, n
  <2>7. v \in Window /\ Shows(v, set)
    BY <1>4, <2>2, <2>5, <2>6, CharacterShows DEF v
  <2> QED
    BY <2>1, <2>5, <2>7
<1> QED
  BY <1>6, <1>7, <1>8

----------------------------------------------------------------------------
WindowOf(v) == [buffer |-> screen[v], x |-> x[v], y |-> y[v]]

\* The inductive invariant: every window shows its paper.
WindowsShow ==
    /\ screen = [v \in Videos |-> screen[v]] /\ x = [v \in Videos |-> x[v]]
    /\ y = [v \in Videos |-> y[v]] /\ paper = [v \in Videos |-> paper[v]]
    /\ \A v \in Videos : WindowOf(v) \in Window /\ Paper(paper[v]) /\ Shows(WindowOf(v), paper[v])
    /\ current_video \in Videos

LEMMA InitShows == Video!Init => WindowsShow
<1> SUFFICES ASSUME Video!Init PROVE WindowsShow
  OBVIOUS
<1> DEFINE empty == <<>>  first == <<empty>>
           w == [buffer |-> Video!Blank, x |-> 0, y |-> 0]
<1>1. /\ screen = [v \in Videos |-> Video!Blank] /\ x = [v \in Videos |-> 0]
      /\ y = [v \in Videos |-> 0] /\ paper = [v \in Videos |-> first] /\ current_video \in Videos
  BY Zenon DEF Video!Init
<1>2. empty \in Seq(Chars) /\ Len(empty) = 0
  OBVIOUS
<1> HIDE DEF empty
<1>3. first \in Seq(Seq(Chars)) /\ Len(first) = 1 /\ first[1] = empty
  BY <1>2
<1> HIDE DEF first
<1>4. Paper(first)
  BY <1>2, <1>3, VideoConstants DEF Paper
<1>5. Video!Blank \in Matrix /\ \A row \in Video!Rows, col \in Video!Cols : Video!Blank[row][col] = " "
  BY DEF Video!Blank, Matrix
<1>6. w \in Window /\ w.buffer = Video!Blank /\ w.x = 0 /\ w.y = 0
  <2>1. 0 \in 0 .. ncols /\ 0 \in Video!Rows
    BY VideoConstants
  <2> DEFINE b == Video!Blank
  <2>2. b \in Matrix /\ w = [buffer |-> b, x |-> 0, y |-> 0]
    BY <1>5
  <2> HIDE DEF b, w
  <2>3. w \in Window /\ w.buffer = b /\ w.x = 0 /\ w.y = 0
    BY <2>1, <2>2, WindowRecord
  <2> QED
    BY <2>3 DEF b
<1> HIDE DEF w
<1>7. Off(first) = 0
  BY <1>3, VideoConstants DEF Off
<1>8. w.y + 1 = Len(first) - 0 /\ w.x = Len(first[Len(first)])
  BY <1>2, <1>3, <1>6
<1>9. ASSUME NEW row \in Video!Rows, NEW col \in Video!Cols
      PROVE  w.buffer[row][col] = Cell(first, 0 + row + 1, col)
  <2>1. row \in Nat /\ col \in Nat
    BY VideoConstants
  <2>2. CASE row = 0
    <3>0. 0 + row + 1 = 1
      BY <2>2
    <3>1. Cell(first, 1, col) = " "
      BY Zenon, <1>2, <1>3, <2>1, CellBlank
    <3>2. w.buffer[row][col] = " "
      BY Zenon, <1>5, <1>6
    <3> QED
      BY Zenon, <3>0, <3>1, <3>2
  <2>3. CASE row # 0
    <3>1. ~(0 + row + 1 <= Len(first))
      BY <1>3, <2>1, <2>3
    <3>2. Cell(first, 0 + row + 1, col) = " "
      BY <3>1 DEF Cell
    <3> QED
      BY Zenon, <1>5, <1>6, <3>2
  <2> QED
    BY <2>2, <2>3
<1>10. Shows(w, first)
  BY <1>7, <1>8, <1>9, ShowsBy
<1>11. \A v \in Videos : WindowOf(v) = w /\ paper[v] = first
  BY <1>1 DEF WindowOf, w
<1> QED
  BY <1>1, <1>4, <1>6, <1>10, <1>11 DEF WindowsShow

LEMMA NextShows == WindowsShow /\ [Video!Next]_Video!vars => WindowsShow'
<1> SUFFICES ASSUME WindowsShow, [Video!Next]_Video!vars PROVE WindowsShow'
  OBVIOUS
<1>1. ASSUME NEW u \in Videos, NEW c \in Chars \cup {"newline", "return"}, Video!PrintChar(u, c)
      PROVE  WindowsShow'
  <2> DEFINE s == Video!Printed(WindowOf(u), c)  lines == Video!OnPaper(paper[u], c)
  <2>1. /\ screen' = [screen EXCEPT ![u] = s.buffer] /\ x' = [x EXCEPT ![u] = s.x]
        /\ y' = [y EXCEPT ![u] = s.y] /\ paper' = [paper EXCEPT ![u] = lines]
        /\ current_video' = current_video
    BY <1>1 DEF Video!PrintChar, WindowOf
  <2>2. s \in Window /\ Paper(lines) /\ Shows(s, lines)
    BY <1>1, PrintedShows DEF WindowsShow
  <2>3. s = [buffer |-> s.buffer, x |-> s.x, y |-> s.y]
    BY <2>2 DEF Window
  <2> HIDE DEF s, lines
  <2>4. /\ screen' = [v \in Videos |-> screen'[v]] /\ x' = [v \in Videos |-> x'[v]]
        /\ y' = [v \in Videos |-> y'[v]] /\ paper' = [v \in Videos |-> paper'[v]]
    BY <2>1 DEF WindowsShow
  <2>5. ASSUME NEW v \in Videos
        PROVE  /\ WindowOf(v)' = IF v = u THEN s ELSE WindowOf(v)
               /\ paper'[v] = IF v = u THEN lines ELSE paper[v]
    BY <1>1, <2>1, <2>3 DEF WindowsShow, WindowOf
  <2>6. ASSUME NEW v \in Videos
        PROVE  WindowOf(v)' \in Window /\ Paper(paper'[v]) /\ Shows(WindowOf(v)', paper'[v])
    BY <2>2, <2>5 DEF WindowsShow
  <2> QED
    BY <2>1, <2>4, <2>6 DEF WindowsShow
<1>2. ASSUME NEW u \in Videos, Video!TerminalSet(u) PROVE WindowsShow'
  BY <1>2 DEF WindowsShow, WindowOf, Video!TerminalSet
<1>3. ASSUME NEW c \in Chars \cup {"newline", "return"}, Video!TerminalUpload(c) PROVE WindowsShow'
  BY <1>1, <1>3 DEF WindowsShow, Video!TerminalUpload
<1>4. ASSUME UNCHANGED Video!vars PROVE WindowsShow'
  BY <1>4 DEF WindowsShow, WindowOf, Video!vars
<1> QED
  BY <1>1, <1>2, <1>3, <1>4 DEF Video!Next

\* A window shows the last lines of everything that was printed to it, its cursor behind the
\* last character: for windows of any size and any number of them (terminal.cpp:42).
THEOREM WindowsShowTheirTail == Video!Spec => []ScreenShowsTail
<1>1. WindowsShow => ScreenShowsTail
  <2> SUFFICES ASSUME WindowsShow, NEW v \in Videos
               PROVE  /\ y[v] + 1 = Len(paper[v]) - Off(paper[v])
                      /\ x[v] = Len(paper[v][Len(paper[v])])
                      /\ \A row \in Video!Rows, col \in Video!Cols :
                            screen[v][row][col] = Cell(paper[v], Off(paper[v]) + row + 1, col)
    BY Zenon DEF ScreenShowsTail, Video!ScreenShowsTail, Video!Last, Off, Cell
  <2>1. Shows(WindowOf(v), paper[v])
    BY DEF WindowsShow
  <2> QED
    BY <2>1 DEF Shows, WindowOf
<1> QED
  BY <1>1, InitShows, NextShows, PTL DEF Video!Spec

====
