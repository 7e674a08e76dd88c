------------------------------ MODULE ClientUI ------------------------------
(***************************************************************************)
(* The terminal interface of the client: four modes, a bar to change       *)
(* between them, the panels of the main mode, and the prompt before        *)
(* quitting.  Each mode is a function that handles keys until the mode     *)
(* changes; masterLoop() then redraws and calls the function of the new    *)
(* mode.  The modes share the globals currentMode, insideWindow and        *)
(* bottomBarSelected, and find their windows by name in a tree that every  *)
(* redraw() takes down and builds anew.                                    *)
(*                                                                         *)
(* deleteAllSubWindows() increments an iterator it has just erased, and so *)
(* does the destructor of the window that cleanup() deletes on the way     *)
(* out. What follows is undefined: the walk may miss some panels, which    *)
(* then stay as they are, with their sub-windows, or end in a crash.       *)
(*                                                                         *)
(* One key is one step.  Geometry, texts and colours are left out, and so  *)
(* are the windows that no key touches.                                    *)
(***************************************************************************)
EXTENDS Naturals

Modes == {"MAIN", "PLUGINS", "CONFIGURATION", "MANAGEMENT"}

\* The windows that keys address by name, in the panel that holds each.
Panel == [ServerListTitle   |-> "LeftPanel",
          ServerOutputTitle |-> "CenterPanel",
          CommandPrompt     |-> "CenterPanel",
          PlayerListTitle   |-> "RightPanel"]
Named == DOMAIN Panel
Panels == {Panel[w] : w \in Named}

\* What currentSelection 1, 2, 3 and 4 stand for.
Title == <<"ServerListTitle", "ServerOutputTitle", "PlayerListTitle", "BottomBar">>

VARIABLES
    at,                 \* "keys", "prompt", "exited" or "crashed"
    currentMode,
    insideWindow,
    bottomBarSelected,
    currentSelection,   \* of the function of the current mode
    windows,            \* the named windows in the tree
    highlight,          \* those of them, and "BottomBar", shown in reverse
    answer,             \* quitPrompt(): "Yes" is the highlighted button
    dangling            \* quitPrompt(): its window pointers are of freed windows

modeVars == <<currentMode, insideWindow, bottomBarSelected, currentSelection>>
screenVars == <<windows, highlight>>
promptVars == <<answer, dangling>>
vars == <<at, modeVars, screenVars, promptVars>>

-----------------------------------------------------------------------------
(* Drawing.                                                                *)

MainModeWindows == Named
PluginsModeWindows == {"ServerListTitle"}

\* createWindows(), for a mode.  The bottom bar is always there.
CreatedFor(mode) ==
    CASE mode = "MAIN"    -> MainModeWindows
      [] mode = "PLUGINS" -> PluginsModeWindows
      [] OTHER            -> {}

\* redraw(), in a mode.  A panel that deleteAllSubWindows() misses keeps its
\* windows and their attributes: insert() does not replace them, and the texts
\* only add to the attributes.
Redraw(mode) ==
    \E missed \in SUBSET Panels :
        LET kept == {w \in windows : Panel[w] \in missed}
        IN  /\ windows' = kept \cup CreatedFor(mode)
            /\ highlight' = highlight \cap kept

\* redraw() or a use of freed windows goes wrong.
Crash ==
    /\ at' = "crashed"
    /\ UNCHANGED <<modeVars, screenVars, promptVars>>

\* cleanup(), whose ~WindowWrapper() walks the tree in the same broken way, and exit().
Exit ==
    /\ at' \in {"exited", "crashed"}
    /\ UNCHANGED <<modeVars, screenVars, promptVars>>

-----------------------------------------------------------------------------
(* Keys that the modes share.                                              *)

\* Mutant: masterLoop() leaves the windows of the last mode on the screen.
EnterModeUndrawn(mode) ==
    /\ currentMode' = mode
    /\ UNCHANGED <<at, promptVars, screenVars>>
    /\ currentSelection' = IF mode = "MAIN" /\ ~bottomBarSelected THEN 0 ELSE 4
    /\ IF mode = "MAIN"
       THEN UNCHANGED <<insideWindow, bottomBarSelected>>
       ELSE insideWindow' = TRUE /\ bottomBarSelected' = TRUE

\* Mutant: mainMode() starts at the first panel each time.
EnterModeAnew(mode) ==
    /\ currentMode' = mode
    /\ UNCHANGED <<at, promptVars>>
    /\ Redraw(mode)
    /\ currentSelection' = IF mode = "MAIN" THEN 0 ELSE 4
    /\ IF mode = "MAIN"
       THEN UNCHANGED <<insideWindow, bottomBarSelected>>
       ELSE insideWindow' = TRUE /\ bottomBarSelected' = TRUE

\* The function of one mode returns, masterLoop() redraws and calls that of
\* another, which sets its locals.
EnterMode(mode) ==
    /\ currentMode' = mode
    /\ UNCHANGED <<at, promptVars>>
    /\ Redraw(mode)
    /\ currentSelection' = IF mode = "MAIN" /\ ~bottomBarSelected THEN 0 ELSE 4
    /\ IF mode = "MAIN"
       THEN UNCHANGED <<insideWindow, bottomBarSelected>>
       ELSE insideWindow' = TRUE /\ bottomBarSelected' = TRUE

RightOf == [MAIN |-> "PLUGINS", PLUGINS |-> "CONFIGURATION",
            CONFIGURATION |-> "MANAGEMENT", MANAGEMENT |-> "MAIN"]

\* KEY_LEFT and KEY_RIGHT, when they change the mode.
SwitchMode ==
    /\ insideWindow
    /\ \/ EnterMode(RightOf[currentMode])
       \/ \E mode \in Modes : RightOf[mode] = currentMode /\ EnterMode(mode)
       \/ Crash

KeyResize ==
    /\ \/ Redraw(currentMode) /\ UNCHANGED at
       \/ at' = "crashed" /\ UNCHANGED screenVars
    /\ UNCHANGED <<modeVars, promptVars>>

\* The highlights once the user has left the window of the current selection.
LeftWindow ==
    IF currentSelection = 0 THEN highlight
    ELSE (highlight \cup {Title[currentSelection]})
         \ (IF currentSelection = 2 THEN {"CommandPrompt"} ELSE {})

\* Mutant: leaving the server output leaves its command prompt lit.
KeyQuitLit ==
    IF insideWindow
    THEN /\ insideWindow' = FALSE
         /\ highlight' = IF currentSelection = 0 THEN highlight
                         ELSE highlight \cup {Title[currentSelection]}
         /\ UNCHANGED <<at, currentMode, bottomBarSelected, currentSelection, windows,
                        promptVars>>
    ELSE /\ at' = "prompt" /\ answer' = TRUE /\ dangling' = FALSE
         /\ UNCHANGED <<modeVars, screenVars>>

\* 'q': leaves the window, and then the program.
KeyQuit ==
    IF insideWindow
    THEN /\ insideWindow' = FALSE
         /\ highlight' = LeftWindow
         /\ UNCHANGED <<at, currentMode, bottomBarSelected, currentSelection, windows,
                        promptVars>>
    ELSE /\ at' = "prompt" /\ answer' = TRUE /\ dangling' = FALSE
         /\ UNCHANGED <<modeVars, screenVars>>

\* Enter, also where nothing is selected yet.
KeyEnter ==
    /\ insideWindow' = TRUE
    /\ highlight' = CASE currentSelection = 2 -> highlight \cup {"CommandPrompt"}
                      [] currentSelection = 4 -> highlight \ {"BottomBar"}
                      [] OTHER                -> highlight
    /\ UNCHANGED <<at, currentMode, bottomBarSelected, currentSelection, windows, promptVars>>

-----------------------------------------------------------------------------
(* The functions of the modes.                                             *)

\* Mutant: the selection runs past the bar.
KeyTabPast ==
    LET next == currentSelection + 1
    IN  /\ insideWindow' = FALSE
        /\ currentSelection' = next
        /\ highlight' = (IF insideWindow THEN LeftWindow ELSE highlight)
        /\ UNCHANGED <<at, currentMode, bottomBarSelected, windows, promptVars>>

\* Tab leaves the window, and moves on to the next panel or to the bar.
KeyTab ==
    LET next == (currentSelection % 4) + 1
        last == IF next = 1 THEN 4 ELSE next - 1
    IN  /\ insideWindow' = FALSE
        /\ currentSelection' = next
        /\ highlight' = ((IF insideWindow THEN LeftWindow ELSE highlight) \cup {Title[next]})
                        \ {Title[last]}
        /\ UNCHANGED <<at, currentMode, bottomBarSelected, windows, promptVars>>

mainMode ==
    /\ at = "keys" /\ currentMode = "MAIN"
    /\ \/ KeyResize \/ KeyTab \/ KeyEnter \/ KeyQuit
       \/ currentSelection = 4 /\ SwitchMode

\* The functions of the other modes, which only have the bar.
BarKeys ==
    \/ KeyResize \/ KeyEnter \/ KeyQuit
    \/ bottomBarSelected /\ SwitchMode

pluginsMode == at = "keys" /\ currentMode = "PLUGINS" /\ BarKeys
configurationMode == at = "keys" /\ currentMode = "CONFIGURATION" /\ BarKeys
managementMode == at = "keys" /\ currentMode = "MANAGEMENT" /\ BarKeys

-----------------------------------------------------------------------------
(* quitPrompt().  A resize makes new windows in variables of an inner scope:
   the outer ones go on naming windows that are deleted.                    *)

PromptYes == at = "prompt" /\ Exit

\* Back to the mode that asked.
PromptBack ==
    \/ /\ at' = "keys"
       /\ Redraw(currentMode)
       /\ UNCHANGED <<modeVars, promptVars>>
    \/ Crash

PromptNo == at = "prompt" /\ PromptBack

PromptToggle ==
    /\ at = "prompt"
    /\ \/ /\ answer' = ~answer
          /\ UNCHANGED <<at, modeVars, screenVars, dangling>>
       \/ dangling /\ Crash

\* Enter quits when "No" is highlighted.
PromptEnter ==
    /\ at = "prompt"
    /\ IF answer THEN PromptBack ELSE Exit

PromptResize ==
    /\ at = "prompt"
    /\ \/ /\ Redraw(currentMode)
          /\ dangling' = TRUE
          /\ UNCHANGED <<at, modeVars, answer>>
       \/ Crash

\* sigintHandler(), at any time.
Interrupt == at \in {"keys", "prompt"} /\ Exit

-----------------------------------------------------------------------------

Init ==
    /\ at = "keys"
    /\ currentMode = "MAIN"
    /\ insideWindow = FALSE /\ bottomBarSelected = FALSE
    /\ currentSelection = 0
    /\ windows = MainModeWindows
    /\ highlight = {}
    /\ answer = TRUE /\ dangling = FALSE

Next ==
    \/ mainMode \/ pluginsMode \/ configurationMode \/ managementMode
    \/ PromptYes \/ PromptNo \/ PromptToggle \/ PromptEnter \/ PromptResize
    \/ Interrupt

Spec == Init /\ [][Next]_vars

-----------------------------------------------------------------------------
(* Properties.                                                             *)

\* Every variable has its type.
TypeOK ==
    /\ at \in {"keys", "prompt", "exited", "crashed"}
    /\ currentMode \in Modes
    /\ insideWindow \in BOOLEAN /\ bottomBarSelected \in BOOLEAN
    /\ currentSelection \in 0..4
    /\ windows \subseteq Named
    /\ highlight \subseteq Named \cup {"BottomBar"}
    /\ answer \in BOOLEAN /\ dangling \in BOOLEAN

\* The windows that the next key may address: sub() of a name that is not in the
\* tree is a null pointer, and the keys use it unchecked.
Addressed ==
    IF currentMode = "MAIN" THEN Named ELSE {Title[currentSelection]} \cap Named

\* Whatever panels deleteAllSubWindows() misses, and whatever mode was drawn
\* last, a key finds every window it addresses by name.
WindowsExist == at \in {"keys", "prompt"} => Addressed \subseteq windows

\* However the user came here, nothing is shown as selected but the current
\* selection, and the command prompt only while the user is in it.
HighlightsSelection ==
    \A w \in highlight :
        \/ currentSelection > 0 /\ w = Title[currentSelection]
        \/ w = "CommandPrompt" /\ insideWindow /\ currentSelection = 2

\* The user who changes the mode stays inside the bar, in the new mode too, and
\* can change it again with the next key: the locals that mainMode() lost when
\* it returned are made up for by the globals that the other modes left.
StaysInBar ==
    [][currentMode' # currentMode
         => /\ insideWindow /\ currentSelection = 4
            /\ insideWindow' /\ currentSelection' = 4 /\ bottomBarSelected']_vars
=============================================================================
