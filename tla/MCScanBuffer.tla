---------------------------- MODULE MCScanBuffer ----------------------------
(* ScanBuffer for TLC: pictures of a few lines, in rings of two to four    *)
(* small blocks so that the pointers wrap several times.                   *)
EXTENDS ScanBuffer

RgbOrder == [red |-> 0, green |-> 1, blue |-> 2]
GbrOrder == [red |-> 2, green |-> 0, blue |-> 1]

Setup(mode, order, rows, res, shift, block, bufs, skip) ==
  [mode |-> mode, rank |-> order, rows |-> rows, user |-> res[1], phy |-> res[2],
   shift |-> shift, distance |-> shift, skip |-> skip,
   block |-> block, bufs |-> bufs]

Resolutions == {<<1, 1>>, <<2, 3>>, <<1, 3>>}

CcdSetups ==
  { Setup("ccd", o, rows, r, shift, block, bufs, 1) :
      o \in {RgbOrder, GbrOrder}, rows \in {1, 4}, r \in Resolutions,
      shift \in {0, 1, 2}, block \in {1, 3}, bufs \in {2, 5} }

OneSetups(o) ==
  { Setup("one", o, rows, r, 0, block, bufs, skip) :
      rows \in {1, 5}, r \in Resolutions, block \in {2, 3}, bufs \in {1, 2},
      skip \in {0, 4} }

GraySetups ==
  { Setup("gray", RgbOrder, rows, r, 0, 2, 2, 3) : rows \in {1, 6}, r \in Resolutions }

MCSetups == { s \in CcdSetups : SetupOK(s) } \cup OneSetups(RgbOrder) \cup GraySetups

\* The sensor order of the Q-Scan USB001 below 200 dpi.
MCGbrSetups == OneSetups(GbrOrder)
=============================================================================
