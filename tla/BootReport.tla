----------------------------- MODULE BootReport -----------------------------
(***************************************************************************)
(* The reports of a USB boot keyboard and their translation               *)
(* (src/src/drivers/usb/xhci.rs, translate_boot_report): the keyboard      *)
(* reports the set of keys that are down, in Slots places, and the driver  *)
(* finds out by comparison which were pressed.                             *)
(***************************************************************************)
EXTENDS Naturals, Sequences, FiniteSets, SequencesExt

CONSTANTS Keys, Slots      \* keys tried, places of a report (6)

VARIABLES
  down,        \* keys that are held, in the keyboard's order
  shift,       \* a shift key is held
  prev_keys,   \* UsbKeyboard.prev_keys
  caps_lock,   \* CAPS_LOCK
  output,      \* what the last report was translated to
  meant,       \* what the last key press should type
  caps,        \* whether Caps Lock is on, by the presses of its key
  rolled       \* more keys than Slots have been down at once

keyVars == <<down, shift, prev_keys, caps_lock, output, meant, caps, rolled>>

NoKey == "none"
RollOver == "rollover"     \* code 1, in every place of the report
NoKeys == [i \in 1..Slots |-> NoKey]

(* HID_UNSHIFTED and HID_SHIFTED; "" for the keys they leave out. *)
Unshifted == [a |-> "a", one |-> "1", f1 |-> "", rollover |-> ""]
Shifted == [a |-> "A", one |-> "!", f1 |-> "", rollover |-> ""]

ascii(code, shifted, locked) ==
  LET c == IF shifted THEN Shifted[code] ELSE Unshifted[code]
  IN  CASE locked /\ c = "a" -> "A"
        [] locked /\ c = "A" /\ shifted -> "a"
        [] OTHER -> c

(* mutant: a key is new when its own place in the report changed *)
IsNew_by_place(keys, i) == keys[i] # NoKey /\ prev_keys[i] # keys[i]

IsNew(keys, i) == keys[i] # NoKey /\ \A j \in DOMAIN prev_keys : prev_keys[j] # keys[i]

(* The loop over the places of a report. *)
translate_boot_report(keys, shifted) ==
  LET place(st, i) ==
        CASE ~IsNew(keys, i) -> st
          [] IsNew(keys, i) /\ keys[i] = "caps" -> [st EXCEPT !.locked = ~@]
          [] OTHER ->
               LET c == ascii(keys[i], shifted, st.locked)
               IN  IF c = "" THEN st ELSE [st EXCEPT !.out = Append(@, c)]
  IN  FoldLeft(place, [locked |-> caps_lock, out |-> <<>>], [i \in 1..Slots |-> i])

report(held) ==
  IF Len(held) > Slots THEN [i \in 1..Slots |-> RollOver]
  ELSE [i \in 1..Slots |-> IF i <= Len(held) THEN held[i] ELSE NoKey]

(* The keyboard sends a report at every change; handle_report translates it. *)
handle_report(held, shifted) ==
  LET keys == report(held)
      t == translate_boot_report(keys, shifted)
  IN  /\ down' = held /\ shift' = shifted
      /\ prev_keys' = keys
      /\ caps_lock' = t.locked /\ output' = t.out
      /\ rolled' = (rolled \/ Len(held) > Slots)

Typed(k) ==
  CASE k = "a" -> IF shift # caps THEN <<"A">> ELSE <<"a">>
    [] k = "one" -> IF shift THEN <<"!">> ELSE <<"1">>
    [] OTHER -> <<>>

press(k) ==
  /\ k \notin ToSet(down)
  /\ handle_report(Append(down, k), shift)
  /\ meant' = Typed(k)
  /\ caps' = IF k = "caps" THEN ~caps ELSE caps
release(k) ==
  /\ k \in ToSet(down)
  /\ handle_report(SelectSeq(down, LAMBDA x : x # k), shift)
  /\ meant' = <<>> /\ UNCHANGED caps
modifier ==
  /\ handle_report(down, ~shift)
  /\ meant' = <<>> /\ UNCHANGED caps

KeysInit ==
  /\ down = <<>> /\ shift = FALSE /\ prev_keys = NoKeys
  /\ caps_lock = FALSE /\ caps = FALSE
  /\ output = <<>> /\ meant = <<>> /\ rolled = FALSE
KeysNext == modifier \/ \E k \in Keys : press(k) \/ release(k)

(* As long as no more keys were down than a report has places, every press
   types its character once, in the case that Shift and Caps Lock ask for, and
   holding or releasing keys, or pressing Shift meanwhile, types nothing. *)
OncePerPress == ~rolled => output = meant /\ caps_lock = caps
=============================================================================
