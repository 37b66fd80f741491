------------------------------ MODULE InputSwitch ------------------------------
(***************************************************************************)
(* Switching between keyboard and gamepad without a restart                *)
(* (Modules/AdModuleInputSwitch.cpp).  A handler that is asked first about *)
(* every input event notes the device it came from and tells the menus     *)
(* by message; the Pipboy's RefreshCursor, replaced, makes the cursor and  *)
(* the input contexts fit the device of that moment.                       *)
(*                                                                         *)
(* The game's main thread delivers events and messages one at a time; the  *)
(* scripts' threads ask for mapped keys.  External, as the replaced code   *)
(* uses it: the queue of menu messages, the number of cursors registered,  *)
(* the instances of an input context on the stack, the overlay's wish that *)
(* keyboard and mouse be ignored.  The cursor's place on the screen is     *)
(* left out.                                                               *)
(***************************************************************************)
EXTENDS Integers, Sequences

CONSTANT MaxMessages    \* bound: messages under way to the Pipboy

ASSUME MessagesAssumption == MaxMessages \in Nat

InputDevices == {"none", "kbm", "gamepad"}
Contexts == {"ThumbNav", "LThumbCursor"}
Unmapped == "unmapped"

VARIABLES
    handlerIn,      \* the handler is among MenuControls' handlers
    activeDevice,   \* _active.device
    lookingDevice,  \* _active.looking
    buttonCodes,    \* the device the game's button pictures are for
    ignored,        \* ControlMap's keyboard and mouse are ignored
    overlayOpen,    \* the overlay menu is visible
    toPipboy,       \* messages under way to the Pipboy
    pipboyOpen,
    usesCursor,     \* its flag kUsesCursor
    assigns,        \* its flag kAssignCursorToRenderer
    page,           \* whether its page is the map
    modal,          \* it shows a modal message
    cursors,        \* RegisterCursor less UnregisterCursor
    onStack,        \* instances of each context on ControlMap's stack
    askedKey        \* the last answer of GetMappedKey

activeVars == <<handlerIn, activeDevice, lookingDevice, buttonCodes>>
overlayVars == <<ignored, overlayOpen>>
pipboyVars == <<pipboyOpen, usesCursor, assigns, page, modal>>
gameInput == <<cursors, onStack>>
inputVars == <<activeVars, overlayVars, toPipboy, pipboyVars, gameInput, askedKey>>

InputTypeOK ==
    /\ {handlerIn, ignored, overlayOpen, pipboyOpen, usesCursor, assigns, modal} \subseteq BOOLEAN
    /\ {activeDevice, lookingDevice, buttonCodes} \subseteq InputDevices
    /\ toPipboy \in Seq({"update"}) /\ Len(toPipboy) <= MaxMessages
    /\ page \in {"map", "other"}
    /\ cursors \in Nat /\ onStack \in [Contexts -> Nat]
    /\ askedKey \in {"none", "key", "button", "pad"}

InputStart ==
    /\ handlerIn = FALSE /\ activeDevice = "none" /\ lookingDevice = "none"
    /\ buttonCodes = "none" /\ ignored \in BOOLEAN /\ overlayOpen = FALSE
    /\ toPipboy = <<>> /\ pipboyOpen = FALSE /\ usesCursor = FALSE /\ assigns = FALSE
    /\ page = "other" /\ modal = FALSE /\ cursors = 0
    /\ onStack = [c \in Contexts |-> 0] /\ askedKey = "none"

IsGamepadActiveDevice == activeDevice = "gamepad"

\* DoInstall at kGameLoaded; the patches went in before.
InsertHandler ==
    /\ ~handlerIn /\ handlerIn' = TRUE
    /\ UNCHANGED <<activeDevice, lookingDevice, buttonCodes, overlayVars, toPipboy, pipboyVars,
                   gameInput, askedKey>>

\* ShouldHandleEvent and UpdateControls: every menu known to the UI is told, open
\* or not.  A device that is neither (input "none") only reaches `looking`.
ShouldHandleEventAlways(input, look) ==     \* what the overlay ignores is not asked
    /\ handlerIn
    /\ lookingDevice' = IF look THEN input ELSE lookingDevice
    /\ IF input # "none" /\ activeDevice # input
       THEN /\ activeDevice' = input /\ buttonCodes' = input
            /\ Len(toPipboy) < MaxMessages /\ toPipboy' = Append(toPipboy, "update")
            /\ ignored' = FALSE
       ELSE UNCHANGED <<activeDevice, buttonCodes, toPipboy, ignored>>
    /\ UNCHANGED <<handlerIn, overlayOpen, pipboyVars, gameInput, askedKey>>

ShouldHandleEvent(input, look) ==
    /\ handlerIn
    /\ lookingDevice' = IF look THEN input ELSE lookingDevice
    /\ IF input # "none" /\ activeDevice # input
       THEN /\ activeDevice' = input /\ buttonCodes' = input
            /\ Len(toPipboy) < MaxMessages /\ toPipboy' = Append(toPipboy, "update")
            /\ ignored' = (ignored /\ overlayOpen)
       ELSE UNCHANGED <<activeDevice, buttonCodes, toPipboy, ignored>>
    /\ UNCHANGED <<handlerIn, overlayOpen, pipboyVars, gameInput, askedKey>>

\* The cursor is wanted with keyboard and mouse, and on the map unless a modal
\* message is in front of it.
CursorEnabled(onPage, inFront) ==
    ~IsGamepadActiveDevice \/ (onPage = "map" /\ ~inFront)

\* `reset` pops every instance of a context and pushes one if it is wanted.
ResetContexts(enabled) ==
    onStack' = [c \in Contexts |->
                  CASE c = "ThumbNav" -> IF IsGamepadActiveDevice THEN 1 ELSE 0
                    [] c = "LThumbCursor" -> IF IsGamepadActiveDevice /\ enabled THEN 1 ELSE 0]

\* RefreshCursor of a Pipboy whose page and modal message are as given and whose
\* flag kUsesCursor was `used`.
RefreshCursorAlways(onPage, inFront, used) ==   \* registers without comparing the flag
    LET enabled == CursorEnabled(onPage, inFront)
    IN  /\ usesCursor' = enabled /\ assigns' = IsGamepadActiveDevice
        /\ cursors' = IF enabled THEN cursors + 1 ELSE IF used THEN cursors - 1 ELSE cursors
        /\ ResetContexts(enabled)

RefreshCursor(onPage, inFront, used) ==
    LET enabled == CursorEnabled(onPage, inFront)
    IN  /\ usesCursor' = enabled /\ assigns' = IsGamepadActiveDevice
        /\ cursors' = CASE enabled /\ ~used -> cursors + 1
                        [] ~enabled /\ used -> cursors - 1
                        [] OTHER -> cursors
        /\ ResetContexts(enabled)

\* The player opens the Pipboy (external): the UI registers a cursor for a menu
\* that has the flag, and the menu refreshes it.
OpenPipboy(onPage) ==
    /\ handlerIn /\ ~pipboyOpen /\ pipboyOpen' = TRUE
    /\ page' = onPage /\ modal' = FALSE
    /\ RefreshCursor(onPage, FALSE, FALSE)
    /\ UNCHANGED <<activeVars, overlayVars, toPipboy, askedKey>>

\* The Pipboy turns a page or shows a message, and refreshes the cursor.
TurnPage(onPage, inFront) ==
    /\ pipboyOpen /\ <<onPage, inFront>> # <<page, modal>>
    /\ page' = onPage /\ modal' = inFront
    /\ RefreshCursor(onPage, inFront, usesCursor)
    /\ UNCHANGED <<activeVars, overlayVars, toPipboy, pipboyOpen, askedKey>>

\* The UI delivers kUpdateController; a Pipboy that is not open has no instance.
DeliverUpdate ==
    /\ toPipboy # <<>> /\ toPipboy' = Tail(toPipboy)
    /\ IF pipboyOpen THEN RefreshCursor(page, modal, usesCursor)
       ELSE UNCHANGED <<usesCursor, assigns, gameInput>>
    /\ UNCHANGED <<activeVars, overlayVars, pipboyOpen, page, modal, askedKey>>

\* The UI closes the menu, giving its cursor back (external); PipboyMenuPreDtor
\* takes the cursor's context off, however often it is there, and the game's own
\* destructor the other one.
PipboyMenuPreDtor == onStack' = [c \in Contexts |-> 0]
ClosePipboyKeepingContext ==        \* the destructor is not patched
    /\ pipboyOpen /\ pipboyOpen' = FALSE /\ usesCursor' = FALSE /\ assigns' = FALSE
    /\ cursors' = IF usesCursor THEN cursors - 1 ELSE cursors
    /\ onStack' = [onStack EXCEPT !["ThumbNav"] = 0]
    /\ UNCHANGED <<activeVars, overlayVars, toPipboy, page, modal, askedKey>>

ClosePipboy ==
    /\ pipboyOpen /\ pipboyOpen' = FALSE /\ usesCursor' = FALSE /\ assigns' = FALSE
    /\ cursors' = IF usesCursor THEN cursors - 1 ELSE cursors
    /\ PipboyMenuPreDtor
    /\ UNCHANGED <<activeVars, overlayVars, toPipboy, page, modal, askedKey>>

\* The overlay opens, having the game ignore keyboard and mouse, and closes.
ToggleOverlay ==
    /\ overlayOpen' = ~overlayOpen /\ ignored' = overlayOpen'
    /\ UNCHANGED <<activeVars, toPipboy, pipboyVars, gameInput, askedKey>>

\* GetMappedKey of a control mapped to these inputs.  `onDevice` is a device, or
\* "auto" for the one that is active; a pad's mask may have no key code.
MappedOn(keyboard, mouse, pad, onDevice) ==
    CASE onDevice = "keyboard" -> keyboard
      [] onDevice = "mouse" -> mouse
      [] onDevice = "gamepad" -> pad
      [] onDevice = "auto" -> IF IsGamepadActiveDevice THEN pad
                              ELSE IF keyboard = Unmapped THEN mouse ELSE keyboard

GetMappedKey(keyboard, mouse, pad, onDevice) ==
    LET key == MappedOn(keyboard, mouse, pad, onDevice)
    IN  /\ askedKey' = IF key \in {Unmapped, "unknownMask"} THEN "none" ELSE key
        /\ UNCHANGED <<activeVars, overlayVars, toPipboy, pipboyVars, gameInput>>

AskKey ==
    \E keyboard \in {"key", Unmapped}, mouse \in {"button", Unmapped},
       pad \in {"pad", "unknownMask", Unmapped},
       onDevice \in {"keyboard", "mouse", "gamepad", "auto"} :
       GetMappedKey(keyboard, mouse, pad, onDevice)

InputNext ==
    \/ InsertHandler
    \/ \E input \in InputDevices, look \in BOOLEAN : ShouldHandleEvent(input, look)
    \/ \E p \in {"map", "other"} : OpenPipboy(p) \/ \E m \in BOOLEAN : TurnPage(p, m)
    \/ DeliverUpdate \/ ClosePipboy \/ ToggleOverlay \/ AskKey

InputSpec == InputStart /\ [][InputNext]_inputVars

----------------------------------------------------------------------------
\* However devices, pages and messages alternate, the Pipboy holds as many
\* registrations of the cursor as its flag says, and none once it is closed.
CursorsAreBalanced ==
    /\ cursors = IF usesCursor THEN 1 ELSE 0
    /\ ~pipboyOpen => ~usesCursor

\* A context is on the stack at most once; none is left of a closed Pipboy; and an
\* open one that has its messages reads the device in use.
ContextsFitDevice ==
    /\ \A c \in Contexts : onStack[c] <= 1 /\ (~pipboyOpen => onStack[c] = 0)
    /\ pipboyOpen /\ toPipboy = <<>> =>
          /\ onStack["ThumbNav"] = (IF IsGamepadActiveDevice THEN 1 ELSE 0)
          /\ assigns = IsGamepadActiveDevice
          /\ ~IsGamepadActiveDevice => usesCursor

\* No change of device gives keyboard and mouse to the game under an open overlay,
\* and the pictures of the buttons are those of the device in use.
OverlayKeepsInput ==
    /\ overlayOpen => ignored
    /\ buttonCodes = activeDevice

\* The Pipboy's cursor and contexts are those of the device in use, whenever that
\* changes, and the overlay keeps the input it took.
InputFitsDevice == InputTypeOK /\ CursorsAreBalanced /\ ContextsFitDevice /\ OverlayKeepsInput
=============================================================================
