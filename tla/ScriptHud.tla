------------------------------- MODULE ScriptHud -------------------------------
(***************************************************************************)
(* component/gsc_funcs.cpp: the texts that scripts put on the screen.      *)
(* Scripts of both instances register, change and remove elements in one   *)
(* table; draw_hud, on the renderer, draws all of them once a frame and    *)
(* empties the table in the frontend.  A call is one step and a frame is   *)
(* one step: that the table has no lock, so that a frame can also fall     *)
(* into the middle of a call, is not modelled.                             *)
(*                                                                         *)
(* Numbers are whole: a colour is in 256ths, a scale in hundredths, a      *)
(* position on the screen is doubled.                                      *)
(***************************************************************************)
EXTENDS Integers, Sequences, FiniteSets

CONSTANTS
    Ids,
    RegisterArgs, \* what ShieldRegisterHudElem is called with after the id
    Texts, Positions, Scales,
    Colors,       \* arguments of set_color: a vector, a packed number or three
                  \* numbers, as [form, values]
    Screen,       \* the size of the viewport, <<width, height>>
    TextWidth(_, _), TextHeight(_), \* of a text in a scale (external)
    MaxCalls      \* bound: calls

VARIABLES
    elems,   \* hud_elems
    level,   \* "ui" or "game"
    drawn,   \* what the last frame has drawn, a set
    calls    \* history: the calls, <<name, id, arguments>>, and "frontend" for
             \* a frame in the frontend

vars == <<elems, level, drawn, calls>>

Init == elems = [id \in {} |-> 0] /\ level = "ui" /\ drawn = {} /\ calls = <<>>

White == <<255, 255, 255, 255>>

\* set_color_rgba of a packed number, given by its bytes.
set_color_rgba(bytes) ==
    <<bytes[1], bytes[2], bytes[3], IF bytes[4] = 0 THEN 256 ELSE bytes[4]>>

\* A place that is too large is an error and becomes 0.  The number after the
\* last place and negative numbers pass.
Place(value) == IF value > 3 THEN 0 ELSE value

Arg(args, n, default) == IF Len(args) >= n THEN args[n] ELSE default

\* shield_register_hud_elem: every field is set, with a default where there
\* is no argument.
Registered(args) ==
    [text  |-> Arg(args, 1, ""),
     color |-> set_color_rgba(Arg(args, 2, White)),
     x |-> Arg(args, 3, 0), y |-> Arg(args, 4, 0),
     anchor_x |-> Place(Arg(args, 5, 0)), anchor_y |-> Place(Arg(args, 6, 0)),
     align_x |-> Place(Arg(args, 7, 0)), align_y |-> Place(Arg(args, 8, 0)),
     scale |-> IF Arg(args, 9, 100) >= 1 THEN Arg(args, 9, 100) ELSE 100]

Calling == Len(calls) < MaxCalls /\ level = "game"
Done(call) == calls' = Append(calls, call) /\ UNCHANGED <<level, drawn>>

Register(id) ==
    /\ Calling
    /\ \E args \in RegisterArgs :
         /\ elems' = [i \in DOMAIN elems \cup {id} |-> IF i = id THEN Registered(args) ELSE elems[i]]
         /\ Done(<<"register", id, args>>)

Remove(id) ==
    /\ Calling
    /\ elems' = [i \in DOMAIN elems \ {id} |-> elems[i]]
    /\ Done(<<"remove", id, <<>>>>)

Clear ==
    /\ Calling
    /\ elems' = [i \in {} |-> 0]
    /\ \E id \in Ids : Done(<<"clear", id, <<>>>>)

\* The setters of text, x and y: an element that is not there is an error and
\* nothing happens.
Set(id) ==
    /\ Calling
    /\ \E field \in {"text", "x", "y"} :
         \E value \in (IF field = "text" THEN Texts ELSE Positions) :
            /\ elems' = IF id \in DOMAIN elems THEN [elems EXCEPT ![id][field] = value] ELSE elems
            /\ Done(<<field, id, <<value>>>>)

\* Mutant: three parts of a colour make the text opaque.
Colored_Opaque(color, c) ==
    CASE c.form = "packed" -> set_color_rgba(c.values)
      [] c.form \in {"vector", "floats", "integers"} -> <<c.values[1], c.values[2], c.values[3], 256>>
      [] OTHER -> color

\* shield_hud_elem_set_color.  Three numbers are all floats, or are read as
\* integers; a mixture is an error.  Only the packed number sets the alpha.
Colored(color, c) ==
    CASE c.form = "packed" -> set_color_rgba(c.values)
      [] c.form \in {"vector", "floats", "integers"} -> <<c.values[1], c.values[2], c.values[3], color[4]>>
      [] OTHER -> color

SetColor(id) ==
    /\ Calling
    /\ \E c \in Colors :
         /\ elems' = IF id \in DOMAIN elems
                       THEN [elems EXCEPT ![id].color = Colored(@, c)] ELSE elems
         /\ Done(<<"color", id, c>>)

\* shield_hud_elem_set_scale: below a hundredth it stays as it is.
Scaled(scale, value) == IF value >= 1 THEN value ELSE scale

SetScale(id) ==
    /\ Calling
    /\ \E value \in Scales :
         /\ elems' = IF id \in DOMAIN elems
                       THEN [elems EXCEPT ![id].scale = Scaled(@, value)] ELSE elems
         /\ Done(<<"scale", id, <<value>>>>)

\* get_relative_x and get_relative_y, doubled
get_relative(screen, size, align, anchor, pos) ==
    LET delta == CASE align = 1 -> -size [] align = 2 -> -2 * size [] OTHER -> 0
    IN CASE anchor = 0 -> delta + 2 * pos
         [] anchor = 1 -> screen + delta + 2 * pos
         [] anchor = 2 -> 2 * screen + delta + 2 * pos
         [] OTHER -> 0

\* What is drawn of an element; the text is drawn from its lower edge.
Drawing(e) ==
    [text |-> e.text, color |-> e.color, scale |-> e.scale,
     x |-> get_relative(Screen[1], TextWidth(e.text, e.scale), e.align_x, e.anchor_x, e.x),
     y |-> get_relative(Screen[2], TextHeight(e.scale), e.align_y, e.anchor_y, e.y)
             + 2 * TextHeight(e.scale)]

\* draw_hud
Frame ==
    /\ IF level = "ui"
         THEN /\ elems' = [i \in {} |-> 0] /\ drawn' = {}
              /\ calls' = IF calls = <<>> \/ calls[Len(calls)][1] = "frontend" THEN calls
                          ELSE Append(calls, <<"frontend", CHOOSE id \in Ids : TRUE, <<>>>>)
         ELSE drawn' = {Drawing(elems[id]) : id \in DOMAIN elems} /\ UNCHANGED <<elems, calls>>
    /\ UNCHANGED level

ChangeLevel ==
    /\ level' = IF level = "ui" THEN "game" ELSE "ui"
    /\ UNCHANGED <<elems, drawn, calls>>

Next ==
    \/ \E id \in Ids : Register(id) \/ Remove(id) \/ Set(id) \/ SetColor(id) \/ SetScale(id)
    \/ Clear \/ Frame \/ ChangeLevel

Spec == Init /\ [][Next]_vars

------------------------------------------------------------------------------
(* Properties *)

\* What a call asks for: a scale below a hundredth and a mixture of numbers are
\* errors and ask for nothing, and only a packed number asks for an alpha.
Asks(call) ==
    {call[1]}
    \cup (IF call[1] = "scale" /\ call[3][1] >= 1 THEN {"size"} ELSE {})
    \cup (IF call[1] = "color" /\ call[3].form \in {"packed", "vector", "floats", "integers"}
            THEN {"rgb"} ELSE {})
    \cup (IF call[1] = "color" /\ call[3].form = "packed" THEN {"alpha"} ELSE {})

\* The last call that asks for one of these for an element, or 0.
LastOf(names, id) ==
    LET is == {n \in DOMAIN calls : Asks(calls[n]) \cap names # {} /\
                 (calls[n][1] \in {"clear", "frontend"} \/ calls[n][2] = id)}
    IN IF is = {} THEN 0 ELSE CHOOSE n \in is : \A m \in is : m <= n

Living == {id \in Ids : LET n == LastOf({"register", "remove", "clear", "frontend"}, id)
                        IN n # 0 /\ calls[n][1] = "register"}

\* What an argument of the last registration, or a later setter, has set.
Last1(id, name, position, default) ==
    LET n == LastOf({"register", name}, id)
    IN IF calls[n][1] = "register" THEN Arg(calls[n][3], position, default) ELSE calls[n][3][1]

\* The scale that was last asked for; a registration with a bad one asks for 1.
LastScale(id) ==
    LET value == Last1(id, "size", 9, 100) IN IF value >= 1 THEN value ELSE 100

\* The colours of the last call that asks for "rgb" or "alpha".
LastColors(id, name) ==
    LET n == LastOf({"register", name}, id)
    IN IF calls[n][1] = "register" THEN Arg(calls[n][3], 2, White) ELSE calls[n][3].values

\* An alpha of 0 is one that was left out.
LastColor(id) ==
    LET rgb == LastColors(id, "rgb")
        alpha == LastColors(id, "alpha")[4]
    IN <<rgb[1], rgb[2], rgb[3], IF alpha = 0 THEN 256 ELSE alpha>>

\* The place on the screen by proportion: the number after the last place and
\* negative ones give the corner, or the left or upper edge of the text.
OnScreen(screen, size, align, anchor, pos) ==
    IF anchor = 3 \/ anchor < 0 THEN 0
    ELSE (IF anchor \in 0..2 THEN anchor ELSE 0) * screen
         - (IF align \in 0..2 THEN align ELSE 0) * size + 2 * pos

\* What the calls for an element ask to be drawn.
Asked(id) ==
    LET register == calls[LastOf({"register"}, id)][3]
        text == Last1(id, "text", 1, "")
        scale == LastScale(id)
    IN [text |-> text, color |-> LastColor(id), scale |-> scale,
        x |-> OnScreen(Screen[1], TextWidth(text, scale), Arg(register, 7, 0),
                       Arg(register, 5, 0), Last1(id, "x", 3, 0)),
        y |-> OnScreen(Screen[2], TextHeight(scale), Arg(register, 8, 0),
                       Arg(register, 6, 0), Last1(id, "y", 4, 0)) + 2 * TextHeight(scale)]

\* What a frame draws of the table is what the last calls for each element have
\* asked for, its text, colour, scale and place, and nothing that was removed,
\* cleared or is left of a match before a frame in the frontend: a setter
\* changes its field and no other and brings no element back, one that is an
\* error changes nothing, and a registration leaves nothing of an element that
\* had the same id.
DrawnAsAsked ==
    /\ DOMAIN elems = Living
    /\ \A id \in Living : Drawing(elems[id]) = Asked(id)
==============================================================================
