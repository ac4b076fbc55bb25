------------------------------ MODULE CameraCuts ------------------------------
(***************************************************************************)
(* title::CameraCuts, and the camera's blend that asks it.  The title's     *)
(* camera shows shots one after the other; halfway between the last view of *)
(* one and the first of the next is "a view neither shot has".              *)
(***************************************************************************)
EXTENDS TitlePaints

VARIABLES
  view,       \* guest memory: the view, whether a cutscene's camera is active, the
              \* event camera's playing and its per-cut counter being at one
  paragraph,  \* m_demoParagraph
  viewSeen,   \* DrawInterpolation's m_cameras
  viewDrawn,  \* what the draw phase showed: nothing, the view or a midpoint
  \* History: the last tick's view, whether this tick's starts a shot, and whether
  \* the last tick's camera draw was read, and this one's.
  viewWas, newShot, viewRead

viewVars == <<view, paragraph, viewSeen, viewDrawn, viewWas, newShot, viewRead>>

NoView == [tick |-> Never, at |-> 0]

ViewInit ==
  /\ view = [at |-> Somewhere, demo |-> FALSE, event |-> FALSE, first |-> FALSE]
  /\ paragraph = FALSE /\ viewSeen = NoView /\ viewDrawn = {}
  /\ viewWas = view.at /\ newShot = FALSE /\ viewRead = [was |-> FALSE, now |-> FALSE]

\* onSetVariableValue: a variable set through the adaptor of the active cutscene's
\* camera; other adaptors set theirs.
SetsVariable(adaptors, demo) == demo /\ "camera" \in adaptors

\* A tick of the camera.  A cutscene's shot sets variables on its camera; an event's
\* zeroes the counter, which is one in that tick alone, and counts on in a cutscene
\* too; other views have no shots.
ViewExecute(at, demo, adaptors, event, first) ==
  /\ Execute
  /\ view' = [at |-> at, demo |-> demo, event |-> event, first |-> first]
  /\ paragraph' = (paragraph \/ SetsVariable(adaptors, demo))
  /\ viewWas' = view.at
  /\ newShot' = (SetsVariable(adaptors, demo) \/ (event /\ first))
  /\ viewRead' = [was |-> viewRead.now, now |-> FALSE]
  /\ UNCHANGED <<viewSeen, viewDrawn>>

\* Mutant: the cutscene's paragraphs are not asked.
EventShotAlone == view.event /\ view.first

\* startsShot: a paragraph of a cutscene still running, or an event's first tick.
StartsShot == (paragraph /\ view.demo) \/ (view.event /\ view.first)

\* Mutant: a paragraph is not consumed by the draw that sees it.
ParagraphStays(seen) == paragraph

\* exchange(false), of a draw that asks.
ParagraphAfter(seen) == paragraph /\ ~seen

ViewDrawBegins ==
  /\ BeginDraw /\ viewDrawn' = {}
  /\ UNCHANGED <<view, paragraph, viewSeen, viewWas, newShot, viewRead>>

\* onCameraDraw and blendCamera, of a gated tick.
CameraDraw(readable) ==
  /\ InDraw /\ viewDrawn = {}
  /\ LET seen == inTick /\ readable IN
     /\ viewDrawn' = {IF seen /\ Continues(viewSeen) /\ ~StartsShot
                        THEN Mid(viewSeen.at, view.at) ELSE view.at}
     /\ viewSeen' = IF seen THEN [tick |-> tick, at |-> view.at] ELSE viewSeen
     /\ paragraph' = ParagraphAfter(seen)
     /\ viewRead' = IF seen THEN [viewRead EXCEPT !.now = TRUE] ELSE viewRead
  /\ UNCHANGED <<schedule, view, viewWas, newShot>>

\* onAfterDraw: a camera this gated tick did not draw is forgotten.
ViewDrawEnds ==
  /\ EndDraw
  /\ viewSeen' = IF inTick /\ viewSeen.tick < tick THEN NoView ELSE viewSeen
  /\ UNCHANGED <<view, paragraph, viewDrawn, viewWas, newShot, viewRead>>

ViewNext ==
  \/ Unheard /\ UNCHANGED viewVars
  \/ \E at \in Places, demo, event, first \in BOOLEAN, adaptors \in {{"camera"}, {"other"}} :
       ViewExecute(at, demo, adaptors, event, first)
  \/ ViewDrawBegins \/ ViewDrawEnds
  \/ \E readable \in BOOLEAN : CameraDraw(readable)

\* "A blend across a cut draws a view neither shot has": no picture is halfway to a
\* view that starts a cutscene's or an event's shot, whatever could not be read or
\* was not drawn in the ticks before it.
NoViewAcrossACut == newShot /\ InTickDraw => viewDrawn \subseteq {view.at}

\* Nor is a shot shown unblended because of an earlier cut: a tick that goes on with
\* the shot of a tick whose camera was read as its own is, is halfway.
ShotGoesOn ==
  switches = 0 /\ InTickDraw /\ ~newShot /\ viewRead.was /\ viewRead.now =>
    viewDrawn = {Mid(viewWas, view.at)}
=============================================================================
