------------------------------ MODULE MCUnlock ------------------------------
(* Password keys with a recovery code, password-and-YubiKey keys with one,   *)
(* password keys without one, and YubiKey-only keys.                         *)
EXTENDS Unlock

CONSTANTS p1, p2, y1

MCStored ==
    LET rec(n) == Slot("recovery", Combine(Code(n, "c"), None), "c") IN
    {[id |-> "k1", mode |-> 1,
      slots |-> <<Slot("password", Combine(p1, None), None), rec("k1")>>],
     [id |-> "k2", mode |-> 2,
      slots |-> <<Slot("password_yubikey", Combine(p2, HmacSecret(y1, "k2")), None), rec("k2")>>],
     [id |-> "k3", mode |-> 1, slots |-> <<Slot("password", Combine(p2, None), None)>>],
     [id |-> "k4", mode |-> 3,
      slots |-> <<Slot("yubikey", Combine(None, HmacSecret(y1, "k4")), None), rec("k4")>>]}

(* Two folders of 18 and 3 bytes, 6 and 3 of them changed, and an excluded   *)
(* file; the same with the second folder gone, an unreadable entry, the      *)
(* source at the part limit with its margin, and an invalid source.          *)
File(size, new, excluded, listed) ==
    [size |-> size, new |-> new, excluded |-> excluded, listed |-> listed]
Source(state, gone, files) == [state |-> state, gone |-> gone, files |-> files]
MCSources ==
    LET docs == Source("ok", FALSE, {File(12, FALSE, FALSE, TRUE), File(6, TRUE, FALSE, TRUE)})
        large == Source("ok", FALSE, {File(12, FALSE, FALSE, TRUE), File(8, TRUE, FALSE, TRUE)})
        partly == Source("ok", FALSE, {File(14, FALSE, FALSE, TRUE), File(6, TRUE, FALSE, FALSE)})
        mail == Source("ok", FALSE, {File(3, TRUE, FALSE, TRUE), File(9, FALSE, TRUE, TRUE)}) IN
    {<<docs, mail>>, <<docs, [mail EXCEPT !.gone = TRUE]>>, <<partly, [mail EXCEPT !.state = "skip"]>>,
     <<large, mail>>, <<docs, [mail EXCEPT !.state = "err"]>>}
=============================================================================
