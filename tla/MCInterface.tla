----------------------------- MODULE MCInterface -----------------------------
(* Two small trees, three binds, a mouse and a few keys, for TLC. *)
EXTENDS Interface, TLC

MCStrokes == {[key |-> k, at |-> None] : k \in {"letter", "enter", "escape", "altup", "f1"}}
             \cup {[key |-> "press", at |-> e] : e \in {"field", "note", "side"}}
             \cup {[key |-> "move", at |-> e] : e \in {"field", "page"}}
             \cup {[key |-> "release", at |-> None]}

\* Under "root" a box with a field and a note, and a field at its side; "back" has one field.
MCElements == {"root", "box", "field", "note", "side", "back", "page"}
MCRoots == {"root", "back"}
MCPlanted == [e \in MCElements |-> CASE e = "root" -> <<"box", "side">>
                                     [] e = "box" -> <<"field", "note">>
                                     [] e = "back" -> <<"page">>
                                     [] OTHER -> <<>>]
MCContainers == {"root", "box", "back"}
MCSinks == {"box", "field", "side", "page"}
MCInputs == {"field", "side", "page"}
MCDelegate == [e \in MCElements |-> IF e = "box" THEN "field" ELSE None]

Value(keys, dep, cond, strong, policy) ==
    [keys |-> keys, dep |-> dep, cond |-> cond, strong |-> strong, policy |-> policy]
Jump == Value(<<"letter">>, None, "Focused", FALSE, "RespectInput")
Send == Value(<<"letter", "enter">>, "field", "Focused", TRUE, "RequireInput")
Help == Value(<<"enter">>, "field", "Hovered", FALSE, "IgnoreInput")
MCValues == {Jump, Send, Help}
MCNames == {"one", "two", "three"}
MCFirst == <<[name |-> "one", value |-> Jump], [name |-> "three", value |-> Send],
             [name |-> "two", value |-> Help]>>
MCDoes == [n \in MCNames |-> CASE n = "one" -> "focus" [] n = "two" -> "renew"
                                 [] n = "three" -> "nothing"]
MCRenewed == [name |-> "one", value |-> Jump]
=============================================================================
