---- MODULE MCLibrary ----
(***************************************************************************)
(* The components that share nothing with the rest of the system, nor with *)
(* each other: a behaviour is about one of them, which part names, and the *)
(* others stay as they are initially.                                      *)
(***************************************************************************)
EXTENDS Library, TLC

CONSTANTS Parts, Sizes, BitValues

VARIABLES part, nbits, storage, bits

Bit == INSTANCE BitSet WITH Values <- BitValues

ASSUME BitSetAssumption == Bit!BitSetAssumption

poolVars == <<free_chunks, blocks, memory, top, regions, objects>>
eventVars == <<subscribers, points, iterator, called, overwritten>>
timerVars == <<now, timers, heap, timer_points, timer_promise, coroutine, limit, firing>>
interpVars == <<interpolators, events, promise, index, finishing, advanced, present, removed>>
diskVars == <<state, fname, next_id, count, buffer, data_written, data_result, error,
              file_descriptors, current, source, uploaded>>
bitVars == <<nbits, storage, bits>>
videoVars == <<screen, x, y, current_video, paper>>

MCFiles == (<<"a">> :> <<5, 6, 7>>) @@ (<<"b">> :> <<8>>)
MCBitValues == {-1, 1, 10, 300}

MCInit ==
    /\ part \in Parts
    /\ Pool!Init /\ Event!Init /\ Timer!Init /\ Interp!Init /\ Drive!Init /\ Bit!Init /\ Video!Init
    /\ part # "disk" => data_written = 0 /\ data_result = 0
    /\ part # "bits" => nbits = 5
    /\ part # "video" => current_video = 1

MCNext ==
    \/ part = "pool" /\ Pool!Next
       /\ UNCHANGED <<part, eventVars, timerVars, interpVars, diskVars, bitVars, videoVars>>
    \/ part = "event" /\ Event!Next
       /\ UNCHANGED <<part, poolVars, timerVars, interpVars, diskVars, bitVars, videoVars>>
    \/ part = "timer" /\ Timer!Next
       /\ UNCHANGED <<part, poolVars, eventVars, interpVars, diskVars, bitVars, videoVars>>
    \/ part = "interpolation" /\ Interp!Next
       /\ UNCHANGED <<part, poolVars, eventVars, timerVars, diskVars, bitVars, videoVars>>
    \/ part = "disk" /\ Drive!Next
       /\ UNCHANGED <<part, poolVars, eventVars, timerVars, interpVars, bitVars, videoVars>>
    \/ part = "bits" /\ Bit!Next
       /\ UNCHANGED <<part, poolVars, eventVars, timerVars, interpVars, diskVars, videoVars>>
    \/ part = "video" /\ Video!Next
       /\ UNCHANGED <<part, poolVars, eventVars, timerVars, interpVars, diskVars, bitVars>>

MCSpec ==
    MCInit /\ [][MCNext]_<<part, poolVars, eventVars, timerVars, interpVars,
                           diskVars, bitVars, videoVars>>

\* Every state of every component is well typed.
TypesOK ==
    /\ Pool!TypeOK /\ Event!TypeOK /\ Timer!TypeOK /\ Interp!TypeOK
    /\ Drive!TypeOK /\ Bit!TypeOK /\ Video!TypeOK

\* bit.h: the storage holds the bits the operations should leave, and no other.
ImplementsBits == Bit!ImplementsBits

====
