----------------------------- MODULE MCRequests ------------------------------
(***************************************************************************)
(* What the control channel's requests reach, each while the rendering      *)
(* thread or the guest goes on: one of them in a behaviour, as subject      *)
(* says, for none of them reads another's state.                            *)
(***************************************************************************)
EXTENDS FrameRecorder, VertexChanges, PresentPacing, FrameCapture, InputDriver, StageWarp,
        ItemGrant, ControllerChoice, GuestReads

CONSTANT Subjects
VARIABLE subject

MCDraws == {<<"list", 2>>, <<"assembly", 1>>}
\* One client of the control channel is as another, and one button as another.
ClientsAlike == Permutations(Askers \cup Givers) \cup Permutations(GrantButtons)
MCNames == <<"Link", "Lunk", "Lonk", "the player's own">>

vars == <<subject, recorderVars, changeVars, pacingVars, captureVars, inputVars, warpVars,
          grantVars, choiceVars, readVars>>

Init ==
  /\ subject \in Subjects
  /\ RecorderInit /\ ChangesInit /\ CaptureInit /\ InputInit /\ WarpInit /\ GrantInit /\ ChoiceInit
  /\ PacingInit /\ (subject = "pacing" \/ shown.fed = "displayed")
  /\ IF subject = "reads" THEN ReadsInit
     ELSE guest = [stack |-> [f \in Frames |-> Unmapped], mapped |-> {}, logs |-> <<>>] /\ answer = [of |-> "none"]

Moves(of, next) == subject = of /\ next /\ UNCHANGED subject

Next ==
  \/ /\ Moves("recorder", RecorderNext)
     /\ UNCHANGED <<changeVars, pacingVars, captureVars, inputVars, warpVars, grantVars, choiceVars, readVars>>
  \/ /\ Moves("changes", ChangesNext)
     /\ UNCHANGED <<recorderVars, pacingVars, captureVars, inputVars, warpVars, grantVars, choiceVars, readVars>>
  \/ /\ Moves("pacing", PacingNext)
     /\ UNCHANGED <<recorderVars, changeVars, captureVars, inputVars, warpVars, grantVars, choiceVars, readVars>>
  \/ /\ Moves("capture", CaptureNext)
     /\ UNCHANGED <<recorderVars, changeVars, pacingVars, inputVars, warpVars, grantVars, choiceVars, readVars>>
  \/ /\ Moves("input", InputNext)
     /\ UNCHANGED <<recorderVars, changeVars, pacingVars, captureVars, warpVars, grantVars, choiceVars, readVars>>
  \/ /\ Moves("warp", WarpNext)
     /\ UNCHANGED <<recorderVars, changeVars, pacingVars, captureVars, inputVars, grantVars, choiceVars, readVars>>
  \/ /\ Moves("item", GrantNext)
     /\ UNCHANGED <<recorderVars, changeVars, pacingVars, captureVars, inputVars, warpVars, choiceVars, readVars>>
  \/ /\ Moves("choice", ChoiceNext)
     /\ UNCHANGED <<recorderVars, changeVars, pacingVars, captureVars, inputVars, warpVars, grantVars, readVars>>
  \/ /\ Moves("reads", ReadsNext)
     /\ UNCHANGED <<recorderVars, changeVars, pacingVars, captureVars, inputVars, warpVars, grantVars, choiceVars>>

Spec == Init /\ [][Next]_vars
-----------------------------------------------------------------------------
\* What a tool reads of the title's frames is what was drawn, shown and presented: frames
\* recorded, snapshots taken, bytes compared, intervals measured and images captured.
ToolsReadTheFrames ==
  /\ RecordingsAreFrames /\ SnapshotIsConsecutive /\ FramingIsWhole /\ ShapesAreLast
  /\ MeasuresSinceRestart /\ SummaryIsOfKept
  /\ ImagesAnswerTheirRequest

\* What a tool is answered from the guest's memory is what is there.
AnswersAreTheGuests == ChainIsBackChain /\ BytesAreTheRange /\ NameIsFree

\* What a request writes into the running title is never acted on half written: a stage
\* request, an item, a block of code; one that fails leaves nothing the title trips over.
GuestSeesItWhole == StageSeenIsWhole /\ ButtonsHaveTheirItem /\ GivenIsGiven /\ DisplayIsWhole

\* The pad: presses last the reads they were asked for, and a player handed back stays so.
PadIsAsAsked == PressesAreSeen /\ HandedBack
=============================================================================
