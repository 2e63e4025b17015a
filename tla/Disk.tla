---- MODULE Disk ----
(***************************************************************************)
(* The disk device: commands and data over its I/O ports, a table of open  *)
(* files, and a read that waits for its interrupt before the bytes are     *)
(* fetched one by one.  The operating system may write to any port at any  *)
(* time; a port used in the wrong state ends the simulator.                *)
(***************************************************************************)
EXTENDS Integers, Sequences, FiniteSets, SequencesExt

CONSTANTS
    Chars,             \* of file names
    MaxName,           \* bound: length of a name
    Files,             \* the files of the host: name to bytes
    Values,            \* words written to DiskData, and what lies in a fresh word
    FirstId,           \* next_id at the start
    LastId,            \* the largest 16-bit number
    InterruptCycles    \* Config::disk_interrupt_cycles

DiskAssumption ==
    /\ MaxName \in Nat /\ Values \subseteq Nat /\ InterruptCycles \in Nat
    /\ \A name \in DOMAIN Files : Files[name] \in Seq(Nat)
    /\ FirstId \in Nat \ {0} /\ LastId \in Nat /\ FirstId <= LastId

VARIABLES
    state, fname, next_id, count, buffer, data_written, data_result, error,
    file_descriptors,  \* by id: the name, and the position and failbit of the stream
    current,           \* current_file_descriptor, an id or Null
    source,            \* the descriptor the buffer was read from
    uploaded           \* by id: the bytes given out since it was opened

device == <<state, fname, next_id, count, buffer, data_written, data_result, file_descriptors>>
vars == <<device, error, current, source, uploaded>>

Null == 0
Open == DOMAIN file_descriptors
Content(id) == Files[file_descriptors[id].fname]
Alive == state # "Aborted"

Init ==
    /\ state = "Idle" /\ fname = <<>> /\ next_id = FirstId /\ count = 0 /\ buffer = <<>>
    /\ data_written \in Values /\ data_result \in Values     \* not initialized
    /\ error = "NoError" /\ file_descriptors = <<>> /\ current = Null
    /\ source = Null /\ uploaded = <<>>

\* mylib_assert, mylib_throw_assert_msg
Abort ==
    /\ state' = "Aborted"
    /\ UNCHANGED <<fname, next_id, count, buffer, data_written, data_result, error,
                   file_descriptors, current, source, uploaded>>

----
\* run_cycle: the interrupt is offered until the CPU takes it.
RunCycle(accepted) ==
    /\ state = "ReadingFile"
    /\ IF count < InterruptCycles
       THEN count' = count + 1 /\ UNCHANGED state
       ELSE accepted /\ count' = 0 /\ state' = "UploadingFileSize"
    /\ UNCHANGED <<fname, next_id, buffer, data_written, data_result, error,
                   file_descriptors, current, source, uploaded>>

\* DiskFileID, written and read
SelectFile(id) ==
    /\ Alive
    /\ current' = IF id \in Open THEN id ELSE Null
    /\ error' = IF id \in Open THEN "NoError" ELSE "InvalidFileDescriptor"
    /\ UNCHANGED <<device, source, uploaded>>

ReadFileID ==
    /\ Alive
    /\ error' = IF current = Null THEN "InvalidFileDescriptor" ELSE "NoError"
    /\ UNCHANGED <<device, current, source, uploaded>>

----
\* process_cmd ignores a command while another is under way.
SetFname ==
    /\ state = "Idle" /\ state' = "SettingFname" /\ fname' = <<>>
    /\ UNCHANGED <<next_id, count, buffer, data_written, data_result, error,
                   file_descriptors, current, source, uploaded>>

IsOpen(name) == \E id \in Open : file_descriptors[id].fname = name

OpenFile ==
    /\ state = "Idle" /\ ~IsOpen(fname) /\ next_id < LastId
    /\ next_id' = next_id + 1
    /\ fname' = <<>>                        \* moved from
    /\ IF fname \in DOMAIN Files
       THEN /\ file_descriptors' = [id \in Open \cup {next_id} |->
                    IF id = next_id THEN [fname |-> fname, pos |-> 0, fail |-> FALSE]
                                    ELSE file_descriptors[id]]
            /\ uploaded' = [id \in Open \cup {next_id} |-> IF id = next_id THEN <<>> ELSE uploaded[id]]
            /\ current' = next_id /\ error' = "NoError"
       ELSE current' = Null /\ error' = "CannotOpenFile" /\ UNCHANGED <<file_descriptors, uploaded>>
    /\ UNCHANGED <<state, count, buffer, data_written, data_result, source>>

OpenFileAgain ==
    /\ state = "Idle" /\ IsOpen(fname)
    /\ current' = Null /\ error' = "FileAlreadyOpen"
    /\ UNCHANGED <<device, source, uploaded>>

OpenFileIdsUsedUp ==
    /\ state = "Idle" /\ ~IsOpen(fname) /\ next_id = LastId
    /\ Abort

CloseFile ==
    /\ state = "Idle" /\ current # Null
    /\ file_descriptors' = [id \in Open \ {current} |-> file_descriptors[id]]
    /\ uploaded' = [id \in Open \ {current} |-> uploaded[id]]
    /\ current' = Null /\ error' = "NoError"
    /\ source' = IF source = current THEN Null ELSE source
    /\ UNCHANGED <<state, fname, next_id, count, buffer, data_written, data_result>>

ReadFile ==
    /\ state = "Idle" /\ current # Null
    /\ state' = "ReadingFile" /\ count' = 0 /\ error' = "NoError"
    /\ UNCHANGED <<fname, next_id, buffer, data_written, data_result,
                   file_descriptors, current, source, uploaded>>

\* After a short read tellg fails: -1, in 16 bits.
GetFileSize ==
    /\ state = "Idle" /\ current # Null
    /\ data_result' = IF file_descriptors[current].fail THEN LastId ELSE Len(Content(current))
    /\ error' = "NoError"
    /\ UNCHANGED <<state, fname, next_id, count, buffer, data_written,
                   file_descriptors, current, source, uploaded>>

\* CloseFile, ReadFile and GetFileSize without a file.
CmdWithoutFile ==
    /\ state = "Idle" /\ current = Null
    /\ error' = "InvalidFileDescriptor"
    /\ UNCHANGED <<device, current, source, uploaded>>

\* WriteFile and SeekFilePos have a number and no code.
CmdNotImplemented == state = "Idle" /\ Abort

----
\* process_data_write
WriteSize(v) ==
    /\ state = "Idle" /\ data_written' = v
    /\ UNCHANGED <<state, fname, next_id, count, buffer, data_result, error,
                   file_descriptors, current, source, uploaded>>

WriteFnameChar(c) ==
    /\ state = "SettingFname" /\ Len(fname) < MaxName
    /\ fname' = Append(fname, c)
    /\ UNCHANGED <<state, next_id, count, buffer, data_written, data_result, error,
                   file_descriptors, current, source, uploaded>>

WriteFnameEnd ==
    /\ state = "SettingFname" /\ state' = "Idle"
    /\ UNCHANGED <<fname, next_id, count, buffer, data_written, data_result, error,
                   file_descriptors, current, source, uploaded>>

WriteDataOutOfTurn ==
    /\ state \in {"ReadingFile", "UploadingFileSize", "UploadingFile"}
    /\ Abort

\* file.read: what is left of the file, and nothing once a read fell short.
BytesRead(id) ==
    LET d == file_descriptors[id]
        size == Len(Content(id))
    IN  IF d.fail THEN <<>>
        ELSE SubSeq(Content(id), d.pos + 1, IF d.pos + data_written < size THEN d.pos + data_written ELSE size)

\* Mutant: the buffer keeps the size that was asked for.
FilledWhole(bytes) == bytes \o [k \in 1 .. (data_written - Len(bytes)) |-> 0]

\* buffer.resize(amount_read)
Filled(bytes) == bytes

\* process_data_read: the size, when the file is really read.
ReadSize ==
    /\ state = "UploadingFileSize" /\ current # Null
    /\ LET bytes == BytesRead(current)
       IN  /\ buffer' = Filled(bytes)
           /\ file_descriptors' = [file_descriptors EXCEPT
                    ![current].pos = @ + Len(bytes),
                    ![current].fail = @ \/ Len(bytes) < data_written]
    /\ IF buffer' # <<>>
       THEN state' = "UploadingFile" /\ count' = 0
       ELSE state' = "Idle" /\ UNCHANGED count
    /\ source' = current /\ error' = "NoError"
    /\ UNCHANGED <<fname, next_id, data_written, data_result, current, uploaded>>

ReadSizeWithoutFile ==
    /\ state = "UploadingFileSize" /\ current = Null
    /\ error' = "InvalidFileDescriptor"
    /\ UNCHANGED <<device, current, source, uploaded>>

ReadByte ==
    /\ state = "UploadingFile"
    /\ count' = count + 1
    /\ uploaded' = [uploaded EXCEPT ![source] = Append(@, buffer[count + 1])]
    /\ state' = IF count' = Len(buffer) THEN "Idle" ELSE state
    /\ UNCHANGED <<fname, next_id, buffer, data_written, data_result, error,
                   file_descriptors, current, source>>

\* In state Idle a read gives data_result and changes nothing.
ReadDataOutOfTurn == state \in {"SettingFname", "ReadingFile"} /\ Abort

Next ==
    \/ \E accepted \in BOOLEAN : RunCycle(accepted)
    \/ \E id \in FirstId .. LastId : SelectFile(id)
    \/ ReadFileID \/ SetFname \/ OpenFile \/ OpenFileAgain \/ OpenFileIdsUsedUp
    \/ CloseFile \/ ReadFile \/ GetFileSize \/ CmdWithoutFile \/ CmdNotImplemented
    \/ \E v \in Values : WriteSize(v)
    \/ \E c \in Chars : WriteFnameChar(c)
    \/ WriteFnameEnd \/ WriteDataOutOfTurn
    \/ ReadSize \/ ReadSizeWithoutFile \/ ReadByte \/ ReadDataOutOfTurn

Spec == Init /\ [][Next]_vars

----
TypeOK ==
    /\ state \in {"Idle", "SettingFname", "ReadingFile", "UploadingFileSize", "UploadingFile", "Aborted"}
    /\ fname \in Seq(Chars) /\ Len(fname) <= MaxName
    /\ next_id \in FirstId .. LastId /\ Open \subseteq FirstId .. next_id - 1
    /\ \A id \in Open : Content(id) \in Seq(Nat) /\ file_descriptors[id].pos \in 0 .. Len(Content(id))
    /\ count \in Nat /\ buffer \in Seq(Nat)
    /\ data_written \in Values /\ data_result \in Nat
    /\ error \in {"NoError", "CannotOpenFile", "FileAlreadyOpen", "InvalidFileDescriptor"}
    /\ current \in Open \cup {Null} /\ DOMAIN uploaded = Open

\* What was given out for a descriptor since it was opened (disk.cpp:223), and
\* what still waits in the buffer for it, is its file up to the position of the
\* stream: over several reads, short ones, other files selected or closed in
\* between and commands sent too early, no byte is lost, repeated or taken
\* from another file.  And no file is open twice, with two positions.
UploadsFollowFiles ==
    /\ \A id \in Open :
        LET waiting == IF state = "UploadingFile" /\ source = id
                       THEN SubSeq(buffer, count + 1, Len(buffer)) ELSE <<>>
        IN  state # "Aborted" =>
                uploaded[id] \o waiting = SubSeq(Content(id), 1, file_descriptors[id].pos)
    /\ \A i, j \in Open : file_descriptors[i].fname = file_descriptors[j].fname => i = j

====
