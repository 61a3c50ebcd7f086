---------------------------- MODULE EventProtocol ----------------------------
(***************************************************************************)
(* What dvdnav_get_next_block promises the application about the order of  *)
(* its events (src/src/dvdnav/dvdnav_events.h), without saying how it is   *)
(* kept: whatever the virtual machine does between two calls, the stream   *)
(* data the application demuxes belong to a VTS, a cell, streams and a     *)
(* highlight it was told of, and a palette and stream announcement is      *)
(* never older than the cell it is for.                                    *)
(***************************************************************************)
CONSTANTS Unknown, Data      \* Data: the kinds of event that carry stream data

VARIABLES now,     \* what plays: file, play, spu, audio, button of the VM
          known,   \* what the application was told of it, and the palette
          event    \* the last event returned

eventVars == <<now, known, event>>

Init == /\ known = [file |-> Unknown, play |-> Unknown, clut |-> Unknown,
                    spu |-> Unknown, audio |-> Unknown, button |-> Unknown]
        /\ event.kind \notin Data

(* The application was told of everything that holds after the step. *)
UpToDate == /\ known.file = now'.file /\ known.play = now'.play
            /\ known.clut = now'.play
            /\ known.spu = now'.spu /\ known.audio = now'.audio
            /\ known.button = now'.button

(* A VTS change says nothing yet of the cell, and a cell change nothing of *)
(* its palette and streams.                                                *)
TellFile == known' = [known EXCEPT !.file = now'.file, !.play = Unknown, !.clut = Unknown,
                                   !.spu = Unknown, !.audio = Unknown]
TellPlay == /\ known.file = now'.file
            /\ known' = [known EXCEPT !.play = now'.play, !.clut = Unknown,
                                      !.spu = Unknown, !.audio = Unknown]

(* Palette and streams are told for the cell the application knows of. *)
TellDetail(k, value) == /\ known.file = now'.file /\ known.play = now'.play
                        /\ known' = [known EXCEPT ![k] = value]
TellButton == known' = [known EXCEPT !.button = now'.button]

Tell == \/ TellFile \/ TellPlay \/ TellButton
        \/ TellDetail("clut", now'.play)
        \/ TellDetail("spu", now'.spu) \/ TellDetail("audio", now'.audio)

(* The VM, calls of the application, and events that announce nothing. *)
Quiet   == UNCHANGED known /\ (event'.kind \in Data => UNCHANGED event)
Deliver == UpToDate /\ UNCHANGED known /\ event'.kind \in Data

Next == (Tell /\ event'.kind \notin Data) \/ Quiet \/ Deliver
Spec == Init /\ [][Next]_eventVars
=============================================================================
