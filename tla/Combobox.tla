------------------------------ MODULE Combobox ------------------------------
(***************************************************************************)
(* The field with a list of the tables (combobox.js): the time of a        *)
(* controller and the mode of a door.  The keyboard, the mouse and the     *)
(* timers that close the list meet in four flags; what the user chose is   *)
(* taken when the field says 'change'.                                     *)
(***************************************************************************)
EXTENDS Naturals, Sequences, SequencesExt

CONSTANTS
    Zones,        \* timezones
    KnownZones,   \* those that the browser can format a time for
    Time(_),      \* the time now in a zone
    DefaultTime,  \* ... and with the browser's own
    Typed,        \* what else may be in the field
    MaxKeys,      \* keys pressed and clicks
    NoChoice

VARIABLES
    focused,      \* document.activeElement
    over,         \* is the mouse over the list
    inputHasFocus, listHasFocus, hasHover,
    open,         \* list.style.display
    option,       \* the option that is selected, or NoChoice
    marked,       \* the option that the list shows as selected
    shownText,    \* input.value
    typed,        \* typed by the user, and not yet a 'change'
    taken,        \* what the last 'change' said
    closing,      \* the timers of 100 ms that call close()
    tabbed,       \* was the field left with Tab while the list had the focus (history)
    clicked,      \* was the list closed with a click while it had the focus (history)
    keys          \* counted, for the bound

strays == <<tabbed, clicked>>
flags == <<inputHasFocus, listHasFocus, hasHover>>
comboVars == <<focused, over, flags, open, option, marked, shownText, typed, taken, closing, strays, keys>>

-----------------------------------------------------------------------------
(* initialise() *)

\* local(), short() and long(): a zone that the browser does not know has the default text.
OptionText(zone) == IF zone \in KnownZones THEN Time(zone) ELSE DefaultTime

\* combobox(): a text that two zones have is one option.  The order is that of the texts.
Options == SetToSeq({OptionText(z) : z \in Zones})

NextOption ==
    IF option = Last(Options) \/ option = NoChoice THEN Head(Options)
    ELSE Options[(CHOOSE i \in DOMAIN Options : Options[i] = option) + 1]

PreviousOption ==
    IF option = Head(Options) \/ option = NoChoice THEN Last(Options)
    ELSE Options[(CHOOSE i \in DOMAIN Options : Options[i] = option) - 1]

SetFocusCombobox == inputHasFocus' = TRUE /\ listHasFocus' = FALSE /\ UNCHANGED hasHover

SetVisualFocusListbox == inputHasFocus' = FALSE /\ listHasFocus' = TRUE /\ UNCHANGED hasHover

RemoveVisualFocusAll == inputHasFocus' = FALSE /\ listHasFocus' = FALSE /\ UNCHANGED hasHover

\* setValue() and the 'change' that is dispatched
Choose(o) == shownText' = o /\ typed' = FALSE /\ taken' = o

\* The 'change' of the browser, when what was typed is left.
Left == typed' = FALSE /\ taken' = IF typed THEN shownText ELSE taken

\* setOption(), setCurrentOptionStyle()
Select(o) == option' = o /\ marked' = o

Opens == open' = TRUE /\ UNCHANGED marked
Closes == open' = FALSE /\ marked' = NoChoice

Pressed == keys < MaxKeys /\ keys' = keys + 1

-----------------------------------------------------------------------------
(* Focus. *)

\* onInputFocus()
Focus ==
    /\ ~focused /\ Pressed
    /\ focused' = TRUE
    /\ SetFocusCombobox
    /\ Select(NoChoice)
    /\ UNCHANGED <<over, open, shownText, typed, taken, closing, strays>>

\* onInputBlur()
LeaveField ==
    /\ focused /\ Pressed
    /\ focused' = FALSE
    /\ RemoveVisualFocusAll
    /\ Select(NoChoice)
    /\ Left
    /\ closing' = closing + 1
    /\ UNCHANGED <<over, open, shownText, strays>>

\* close(): a timer goes off
Close ==
    /\ closing > 0
    /\ closing' = closing - 1
    /\ IF inputHasFocus \/ listHasFocus \/ hasHover THEN UNCHANGED <<open, marked>> ELSE Closes
    /\ UNCHANGED <<focused, over, flags, option, shownText, typed, taken, strays, keys>>

-----------------------------------------------------------------------------
(* onInputKeyDown(), onInputKeyUp() *)

Key == focused /\ Pressed /\ UNCHANGED <<focused, over>>

Enter ==
    /\ Key
    /\ ~(listHasFocus /\ option = NoChoice)  \* an error ends the handler
    /\ IF listHasFocus THEN Choose(option) ELSE UNCHANGED <<shownText, typed, taken>>
    /\ Closes
    /\ SetFocusCombobox
    /\ UNCHANGED <<option, closing, strays>>

ArrowDown ==
    /\ Key
    /\ open' = TRUE
    /\ Select(IF listHasFocus THEN NextOption ELSE Head(Options))
    /\ SetVisualFocusListbox
    /\ UNCHANGED <<shownText, typed, taken, closing, strays>>

\* While the list has the focus it is not opened.
ArrowUp ==
    /\ Key
    /\ Select(IF listHasFocus THEN PreviousOption ELSE Last(Options))
    /\ open' = (open \/ ~listHasFocus)
    /\ SetVisualFocusListbox
    /\ UNCHANGED <<shownText, typed, taken, closing, strays>>

\* With Alt the list is opened, and nothing selected in it.
AltDown ==
    /\ Key
    /\ Opens
    /\ UNCHANGED <<flags, option, shownText, typed, taken, closing, strays>>

AltUp ==
    /\ Key
    /\ IF listHasFocus THEN Select(PreviousOption) /\ UNCHANGED open ELSE Opens /\ UNCHANGED option
    /\ UNCHANGED <<flags, shownText, typed, taken, closing, strays>>

Escape ==
    /\ Key
    /\ IF open THEN Closes /\ SetFocusCombobox ELSE UNCHANGED <<open, marked, flags>>
    /\ option' = NoChoice
    /\ UNCHANGED <<shownText, typed, taken, closing, strays>>

\* The option is put into the field, and the focus goes to the next: onInputBlur() follows,
\* and nothing was typed that the browser would call a change.
Tab ==
    /\ focused /\ Pressed
    /\ Closes
    /\ IF listHasFocus /\ option # NoChoice
       THEN shownText' = option /\ typed' = FALSE /\ tabbed' = TRUE /\ UNCHANGED taken
       ELSE Left /\ UNCHANGED <<shownText, tabbed>>
    /\ UNCHANGED clicked
    /\ focused' = FALSE
    /\ RemoveVisualFocusAll
    /\ option' = NoChoice
    /\ closing' = closing + 1
    /\ UNCHANGED over

\* Backspace, the arrows to the sides, Home and End
Moves(edits) ==
    /\ Key
    /\ SetFocusCombobox
    /\ Select(NoChoice)
    /\ \E t \in IF edits THEN Typed ELSE {shownText} :
           shownText' = t /\ typed' = (typed \/ t # shownText)
    /\ UNCHANGED <<open, taken, closing, strays>>

\* Any other key is the browser's.
Type ==
    /\ Key
    /\ \E t \in Typed \ {shownText} : shownText' = t
    /\ typed' = TRUE
    /\ UNCHANGED <<flags, open, option, marked, taken, closing, strays>>

-----------------------------------------------------------------------------
(* The mouse. *)

\* onInputClick(): the field has the focus by then.
ClickField ==
    /\ Key
    /\ IF open THEN Closes ELSE Opens
    /\ clicked' = (clicked \/ (open /\ listHasFocus))
    /\ UNCHANGED <<flags, option, shownText, typed, taken, closing, tabbed>>

\* onOptionClick(): the field has lost the focus by then.
ClickOption ==
    /\ open /\ over /\ ~focused /\ Pressed
    /\ \E o \in Range(Options) : Choose(o)
    /\ Closes
    /\ UNCHANGED <<focused, over, flags, option, closing, strays>>

\* onMouseOver()
MouseOver ==
    /\ open /\ ~over /\ Pressed
    /\ over' = TRUE /\ hasHover' = TRUE
    /\ UNCHANGED <<focused, inputHasFocus, listHasFocus, open, option, marked, shownText, typed, taken, closing, strays>>

ClosesLater == closing' = closing + 1

\* onMouseOut()
MouseOut ==
    /\ over
    /\ over' = FALSE /\ hasHover' = FALSE
    /\ ClosesLater
    /\ UNCHANGED <<focused, inputHasFocus, listHasFocus, open, option, marked, shownText, typed, taken, strays, keys>>

-----------------------------------------------------------------------------
ComboInit ==
    /\ focused = FALSE /\ over = FALSE
    /\ inputHasFocus = FALSE /\ listHasFocus = FALSE /\ hasHover = FALSE
    /\ open = FALSE /\ option = NoChoice /\ marked = NoChoice
    /\ shownText \in Range(Options) \cup Typed /\ taken = shownText /\ typed = FALSE
    /\ closing = 0 /\ tabbed = FALSE /\ clicked = FALSE /\ keys = 0

ComboNext ==
    \/ Focus \/ LeaveField \/ Close
    \/ Enter \/ ArrowDown \/ ArrowUp \/ AltDown \/ AltUp \/ Escape \/ Tab
    \/ Moves(TRUE) \/ Moves(FALSE) \/ Type
    \/ ClickField \/ ClickOption \/ MouseOver \/ MouseOut

Spec == ComboInit /\ [][ComboNext]_comboVars

-----------------------------------------------------------------------------
(* Type invariant. *)
TypeOK ==
    /\ focused \in BOOLEAN /\ over \in BOOLEAN /\ open \in BOOLEAN /\ typed \in BOOLEAN
    /\ inputHasFocus \in BOOLEAN /\ listHasFocus \in BOOLEAN /\ hasHover \in BOOLEAN
    /\ {option, marked} \subseteq Range(Options) \cup {NoChoice}
    /\ {shownText, taken} \subseteq Range(Options) \cup Typed
    /\ closing \in 0..2 * MaxKeys

\* onInputBlur(), onMouseOut(): a list that is left open by the keyboard and by the mouse,
\* in whichever order, is one that a timer is about to close.
OpenListCloses == open /\ ~focused /\ ~over => closing > 0

\* setCurrentOptionStyle(), close(): a list opens with nothing selected in it, unless it was
\* ever closed with a click while it had the focus.
OpensUnselected == ~open /\ ~clicked => marked = NoChoice

\* onOptionClick(), onInputKeyDown(): what a field shows once it is left is what it said with
\* 'change', however it was chosen, except for an option that Tab put into it.
ShownIsTaken == ~focused /\ ~tabbed => shownText = taken

=============================================================================
