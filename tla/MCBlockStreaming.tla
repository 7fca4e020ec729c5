-------------------------- MODULE MCBlockStreaming --------------------------
(***************************************************************************)
(* Three blocks: "b" lies behind "a" along the first axis, "c" beyond an   *)
(* edge of "b" and a corner of "a"; "a" is periodic along the second.  One node of "b" is solid, so the      *)
(* ghost layers of "a" and "c" hold a solid node too; "c" ends in an       *)
(* outlet.  The distributions are residues, mixed by the collision.        *)
(***************************************************************************)
EXTENDS BlockStreaming

MCSize  == <<2, 1, 1>>
MCBlocks == {"a", "b", "c"}
MCSolid == {<<"b", <<1, 1, 1>>>>}
MCNext(b, s) ==
  CASE s = Rest -> b
    [] <<b, s>> = <<"a", <<1, 0, 0>>>> -> "b"
    [] <<b, s>> = <<"b", <<-1, 0, 0>>>> -> "a"
    [] <<b, s>> = <<"b", <<0, 1, 1>>>> -> "c"
    [] <<b, s>> = <<"c", <<0, -1, -1>>>> -> "b"
    [] <<b, s>> = <<"a", <<1, 1, 1>>>> -> "c"
    [] <<b, s>> = <<"c", <<-1, -1, -1>>>> -> "a"
    [] b = "a" /\ s \in {<<0, 1, 0>>, <<0, -1, 0>>} -> "a"
    [] OTHER -> None
MCNeighbor == [b \in MCBlocks |-> [s \in Directions |-> MCNext(b, s)]]

Outlet == <<"c", <<2, 1, 1>>>>
NotFromFluid == { link \in Fluid \X Directions : Origin(link[1], link[2]) \notin Fluid }
MCOutletLinks == { link \in NotFromFluid : link[1] = Outlet /\ link[2][1] = -1 }
MCWallLinks == NotFromFluid \ MCOutletLinks
MCNormal == [g \in {Outlet} |-> <<-1, 0, 0>>]

Modulus  == 97
Hash(x)  == x[1] + 5 * x[2] + 23 * x[3]
Salt(b)  == CASE b = "a" -> 1 [] b = "b" -> 30 [] b = "c" -> 60
MCInitial(b, x, d)     == (Salt(b) + 7 * Hash(x) + 11 * Hash(d) + 3 * d[1] * d[2]) % Modulus
MCCollision(g, h, d)   == (2 * h[d] + 3 * h[Opposite(d)] + 5 * h[Rest] + Salt(g[1])) % Modulus
MCReturned(g, d, h)    == (h[Opposite(d)] + 17 + Hash(g[2])) % Modulus
MCOutflow(g, d, h, i)  == (4 * h[d] + 9 * i[d]) % Modulus
=============================================================================
