----------------------------- MODULE MCHotKeys -----------------------------
(***************************************************************************)
(* HotKeys with two modifiers, two keys and four hotkeys: ctrl+1 types a   *)
(* key between shift down and up, ctrl+2 starts the password thread,       *)
(* shift+1 posts a message, ctrl+shift+2 resets.  mq_key_sm has room for   *)
(* fewer reports than a string has, and the modifiers are remapped to each *)
(* other.                                                                  *)
(***************************************************************************)
EXTENDS HotKeys

Swapped == [m \in {"ctrl", "shift"} |-> IF m = "ctrl" THEN "shift" ELSE "ctrl"]

Cap(filter, key, exe, string) == [filter |-> filter, key |-> key, exe |-> exe, string |-> string]
SomeCaps == <<Cap(<<{"ctrl"}>>, 1, "string",
                  <<[kind |-> "down", mods |-> {"shift"}], [kind |-> "plain", key |-> 2],
                    [kind |-> "up", mods |-> {"shift"}]>>),
              Cap(<<{"ctrl"}>>, 2, "pwd", <<>>),
              Cap(<<{"shift"}>>, 1, "mail", <<>>),
              Cap(<<{"ctrl"}, {"shift"}>>, 2, "reset", <<>>)>>

(* The list meets what HotKeysAreHidden and HotKeyFires suppose of one.    *)
ASSUME CapsAssumption == NoStringIsHotKey /\ ResetsStandAlone
=============================================================================
