--------------------------- MODULE ClientUIProofs ---------------------------
(***************************************************************************)
(* Theorems about ClientUI.  The invariant joins its properties with       *)
(* Places: outside the main mode there is only the bar, and the main mode  *)
(* has all its windows, whatever deleteAllSubWindows() has missed before.  *)
(***************************************************************************)
EXTENDS ClientUI, TLAPS

Places ==
    /\ currentMode # "MAIN" => currentSelection = 4 /\ bottomBarSelected
    /\ currentMode = "MAIN" => windows = Named

Inv == TypeOK /\ Places /\ HighlightsSelection

-----------------------------------------------------------------------------
(* Windows and keys *)

LEMMA Windows ==
    /\ Named = {"ServerListTitle", "ServerOutputTitle", "PlayerListTitle", "CommandPrompt"}
    /\ \A mode \in Modes : CreatedFor(mode) \subseteq Named
    /\ CreatedFor("MAIN") = Named
<1>1. Named = {"ServerListTitle", "ServerOutputTitle", "PlayerListTitle", "CommandPrompt"}
  BY DEF Named, Panel
<1> QED
  BY <1>1 DEF CreatedFor, MainModeWindows, PluginsModeWindows

LEMMA Titles ==
    /\ Title[1] = "ServerListTitle" /\ Title[2] = "ServerOutputTitle"
    /\ Title[3] = "PlayerListTitle" /\ Title[4] = "BottomBar"
BY DEF Title

\* Drawing the screen adds no highlight, keeps none of the bar's, and shows what
\* the mode needs.
LEMMA Redrawn ==
    ASSUME TypeOK, NEW mode \in Modes, Redraw(mode)
    PROVE  /\ windows' \subseteq Named /\ highlight' \subseteq highlight \cap Named
           /\ mode = "MAIN" => windows' = Named
<1>1. PICK missed \in SUBSET Panels :
        LET kept == {w \in windows : Panel[w] \in missed}
        IN  windows' = kept \cup CreatedFor(mode) /\ highlight' = highlight \cap kept
  BY DEF Redraw
<1> QED
  BY <1>1, Windows DEF TypeOK

\* The modes to the left and to the right are others.
LEMMA Around ==
    \A mode \in Modes : RightOf[mode] \in Modes /\ RightOf[mode] # mode
BY DEF Modes, RightOf

-----------------------------------------------------------------------------
(* One step *)

\* The next mode has the bar selected, and the user in it.
LEMMA ModeEntered ==
    ASSUME Inv, insideWindow, currentSelection = 4,
           NEW mode \in Modes, mode # currentMode, EnterMode(mode)
    PROVE  /\ Inv' /\ currentMode' = mode
           /\ insideWindow' /\ currentSelection' = 4 /\ bottomBarSelected'
<1>1. /\ windows' \subseteq Named /\ highlight' \subseteq highlight \cap Named
      /\ mode = "MAIN" => windows' = Named
  BY Redrawn DEF EnterMode, Inv
<1>2. /\ currentMode' = mode /\ UNCHANGED <<at, answer, dangling>>
      /\ insideWindow' /\ currentSelection' = 4 /\ bottomBarSelected'
  <2>1. CASE mode = "MAIN"
    BY <2>1 DEF EnterMode, promptVars, Inv, Places
  <2>2. CASE mode # "MAIN"
    BY <2>2 DEF EnterMode, promptVars
  <2> QED
    BY <2>1, <2>2
<1>3. highlight \subseteq {"BottomBar"}
  BY Titles DEF Inv, HighlightsSelection
<1>4. highlight' = {}
  BY <1>1, <1>3, Windows
<1> QED
  BY <1>1, <1>2, <1>4 DEF Inv, TypeOK, Places, HighlightsSelection

\* The mode changes only from inside the bar.
LEMMA Switched ==
    ASSUME Inv, SwitchMode, currentSelection = 4
    PROVE  /\ Inv'
           /\ currentMode' # currentMode =>
                /\ insideWindow /\ currentSelection = 4
                /\ insideWindow' /\ currentSelection' = 4 /\ bottomBarSelected'
<1>1. currentMode \in Modes /\ insideWindow
  BY DEF Inv, TypeOK, SwitchMode
<1>2. CASE EnterMode(RightOf[currentMode])
  BY <1>1, <1>2, Around, ModeEntered
<1>3. ASSUME NEW mode \in Modes, RightOf[mode] = currentMode, EnterMode(mode)
      PROVE  /\ Inv' /\ insideWindow' /\ currentSelection' = 4 /\ bottomBarSelected'
  BY <1>1, <1>3, Around, ModeEntered
<1>4. CASE Crash
  BY <1>4 DEF Crash, modeVars, screenVars, promptVars, Inv, TypeOK, Places,
     HighlightsSelection
<1> QED
  BY <1>1, <1>2, <1>3, <1>4 DEF SwitchMode

\* All that does not change the mode, nor the selection.
LEMMA Stays ==
    ASSUME Inv, UNCHANGED modeVars, at' \in {"keys", "prompt", "exited", "crashed"},
           answer' \in BOOLEAN, dangling' \in BOOLEAN,
           UNCHANGED screenVars \/ Redraw(currentMode)
    PROVE  Inv'
<1>1. /\ windows' \subseteq Named /\ highlight' \subseteq highlight
      /\ currentMode = "MAIN" => windows' = Named
  BY Redrawn DEF Inv, TypeOK, Places, screenVars
<1> QED
  BY <1>1 DEF Inv, TypeOK, Places, HighlightsSelection, modeVars

\* Leaving a window leaves its title highlighted, and nothing else.
LEMMA LeftHighlight ==
    ASSUME Inv
    PROVE  /\ LeftWindow \subseteq Named \cup {"BottomBar"}
           /\ \A w \in LeftWindow : currentSelection > 0 /\ w = Title[currentSelection]
<1>1. currentSelection \in 0..4 /\ highlight \subseteq Named \cup {"BottomBar"}
  BY DEF Inv, TypeOK
<1>2. CASE currentSelection = 0
  BY <1>1, <1>2 DEF LeftWindow, Inv, HighlightsSelection
<1>3. CASE currentSelection = 2
  BY <1>1, <1>3, Titles, Windows DEF LeftWindow, Inv, HighlightsSelection
<1>4. CASE currentSelection \in {1, 3, 4}
  <2>1. LeftWindow = highlight \cup {Title[currentSelection]}
    BY <1>4 DEF LeftWindow
  <2>2. Title[currentSelection] \in Named \cup {"BottomBar"}
    BY <1>4, Titles, Windows
  <2>3. \A w \in highlight : w = Title[currentSelection]
    BY <1>4 DEF Inv, HighlightsSelection
  <2> QED
    BY <1>1, <1>4, <2>1, <2>2, <2>3
<1> QED
  BY <1>1, <1>2, <1>3, <1>4

LEMMA QuitKeeps == ASSUME Inv, KeyQuit, at = "keys" PROVE Inv'
<1>1. CASE insideWindow
  <2>1. /\ insideWindow' = FALSE /\ highlight' = LeftWindow
        /\ UNCHANGED <<at, currentMode, bottomBarSelected, currentSelection, windows,
                       answer, dangling>>
    BY <1>1 DEF KeyQuit, promptVars
  <2> QED
    BY <2>1, LeftHighlight DEF Inv, TypeOK, Places, HighlightsSelection
<1>2. CASE ~ insideWindow
  BY <1>2, Stays DEF KeyQuit
<1> QED
  BY <1>1, <1>2

LEMMA EnterKeeps == ASSUME Inv, KeyEnter PROVE Inv'
<1>1. /\ insideWindow' = TRUE
      /\ UNCHANGED <<at, currentMode, bottomBarSelected, currentSelection, windows,
                     answer, dangling>>
  BY DEF KeyEnter, promptVars
<1>2. highlight' \subseteq highlight \cup {"CommandPrompt"}
  BY DEF KeyEnter
<1>3. \A w \in highlight' : w \notin highlight => w = "CommandPrompt" /\ currentSelection = 2
  BY DEF KeyEnter
<1> QED
  BY <1>1, <1>2, <1>3, Windows DEF Inv, TypeOK, Places, HighlightsSelection

LEMMA TabKeeps == ASSUME Inv, KeyTab, currentMode = "MAIN" PROVE Inv'
<1> DEFINE next == (currentSelection % 4) + 1
           last == IF next = 1 THEN 4 ELSE next - 1
           lit == IF insideWindow THEN LeftWindow ELSE highlight
<1>1. /\ insideWindow' = FALSE /\ currentSelection' = next
      /\ highlight' = (lit \cup {Title[next]}) \ {Title[last]}
      /\ UNCHANGED <<at, currentMode, bottomBarSelected, windows, answer, dangling>>
  BY DEF KeyTab, promptVars
<1>2. currentSelection \in 0..4
  BY DEF Inv, TypeOK
<1>3. /\ next \in 1..4 /\ last \in 1..4
      /\ currentSelection > 0 => last = currentSelection
  BY <1>2
<1>4. lit \subseteq Named \cup {"BottomBar"}
  BY LeftHighlight DEF Inv, TypeOK
<1>5. \A w \in lit : currentSelection > 0 /\ w = Title[currentSelection]
  BY LeftHighlight DEF Inv, HighlightsSelection
<1> HIDE DEF next, last, lit
<1>6. \A w \in highlight' : w = Title[next]
  BY <1>1, <1>3, <1>5
<1>7. Title[next] \in Named \cup {"BottomBar"}
  BY <1>3, Titles, Windows
<1> QED
  <2>1. TypeOK'
    <3>1. currentSelection' \in 0..4 /\ highlight' \subseteq Named \cup {"BottomBar"}
      BY <1>1, <1>3, <1>6, <1>7
    <3> QED
      BY <1>1, <3>1, Zenon DEF Inv, TypeOK
  <2>2. Places'
    BY <1>1 DEF Inv, Places
  <2>3. HighlightsSelection'
    BY <1>1, <1>3, <1>6 DEF HighlightsSelection
  <2> QED
    BY <2>1, <2>2, <2>3 DEF Inv

LEMMA InvInit == Init => Inv
<1> SUFFICES ASSUME Init PROVE Inv
  OBVIOUS
<1>1. MainModeWindows = Named
  BY DEF MainModeWindows
<1> QED
  <2>1. TypeOK
    <3>1. currentSelection \in 0..4 /\ currentMode \in Modes
      BY DEF Init, Modes
    <3>2. windows \subseteq Named /\ highlight \subseteq Named \cup {"BottomBar"}
      BY <1>1 DEF Init
    <3> QED
      BY <3>1, <3>2, Zenon DEF Init, TypeOK
  <2>2. Places /\ HighlightsSelection
    BY <1>1 DEF Init, Places, HighlightsSelection
  <2> QED
    BY <2>1, <2>2 DEF Inv

\* Every step keeps the invariant, and changes the mode as StaysInBar says.
LEMMA InvStep ==
    ASSUME Inv, [Next]_vars
    PROVE  /\ Inv'
           /\ currentMode' # currentMode =>
                /\ insideWindow /\ currentSelection = 4
                /\ insideWindow' /\ currentSelection' = 4 /\ bottomBarSelected'
<1> USE DEF Crash, Exit
<1>1. CASE UNCHANGED vars
  BY <1>1 DEF vars, modeVars, screenVars, promptVars, Inv, TypeOK, Places,
     HighlightsSelection
<1>2. CASE KeyResize
  BY <1>2, Stays DEF KeyResize, modeVars, screenVars, promptVars, Inv, TypeOK
<1>3. CASE KeyQuit /\ at = "keys"
  BY <1>3, QuitKeeps DEF KeyQuit, modeVars
<1>4. CASE KeyEnter
  BY <1>4, EnterKeeps DEF KeyEnter
<1>5. CASE mainMode
  <2>1. CASE KeyTab
    BY <1>5, <2>1, TabKeeps DEF mainMode, KeyTab
  <2>2. CASE currentSelection = 4 /\ SwitchMode
    BY <2>2, Switched
  <2> QED
    BY <1>2, <1>3, <1>4, <1>5, <2>1, <2>2 DEF mainMode
<1>6. CASE pluginsMode \/ configurationMode \/ managementMode
  <2>1. BarKeys /\ at = "keys" /\ currentMode # "MAIN"
    BY <1>6 DEF pluginsMode, configurationMode, managementMode
  <2>2. CASE SwitchMode
    BY <2>1, <2>2, Switched DEF Inv, Places
  <2> QED
    BY <1>2, <1>3, <1>4, <2>1, <2>2 DEF BarKeys
<1>7. CASE PromptYes \/ PromptNo \/ PromptToggle \/ PromptEnter \/ PromptResize \/ Interrupt
  <2>1. /\ UNCHANGED modeVars /\ at' \in {"keys", "prompt", "exited", "crashed"}
        /\ answer' \in BOOLEAN /\ dangling' \in BOOLEAN
        /\ UNCHANGED screenVars \/ Redraw(currentMode)
    BY <1>7 DEF PromptYes, PromptNo, PromptToggle, PromptEnter, PromptResize, PromptBack,
       Interrupt, promptVars, Inv, TypeOK
  <2> QED
    BY <2>1, Stays DEF modeVars
<1> QED
  BY <1>1, <1>5, <1>6, <1>7 DEF Next

-----------------------------------------------------------------------------

LEMMA Invariant == Spec => []Inv
<1>1. Inv /\ [Next]_vars => Inv'
  BY InvStep
<1> QED
  BY <1>1, InvInit, PTL DEF Spec

\* The variables of the terminal interface keep to their domains.
THEOREM UITypes == Spec => []TypeOK
<1>1. Inv => TypeOK
  BY DEF Inv
<1> QED
  BY <1>1, Invariant, PTL

\* Every window that a key addresses by name is in the tree, whatever panels a
\* redraw has missed.
THEOREM KeysFindTheirWindows == Spec => []WindowsExist
<1>1. Inv => WindowsExist
  BY Titles, Windows DEF Inv, Places, WindowsExist, Addressed
<1> QED
  BY <1>1, Invariant, PTL

\* Nothing is highlighted but the current selection, and the prompt the user is in.
THEOREM OnlySelectionShines == Spec => []HighlightsSelection
<1>1. Inv => HighlightsSelection
  BY DEF Inv
<1> QED
  BY <1>1, Invariant, PTL

\* Whoever changes the mode is in the bar before and after.
THEOREM BarStays == Spec => StaysInBar
<1> DEFINE Bar == currentMode' # currentMode
                    => /\ insideWindow /\ currentSelection = 4
                       /\ insideWindow' /\ currentSelection' = 4 /\ bottomBarSelected'
<1>1. Inv /\ [Next]_vars => Bar
  BY InvStep
<1>2. Inv /\ [Next]_vars => [Bar]_vars
  BY <1>1
<1> HIDE DEF Bar
<1>3. Spec => [][Bar]_vars
  BY <1>2, Invariant, PTL DEF Spec
<1> QED
  BY <1>3 DEF Bar, StaysInBar
=============================================================================
