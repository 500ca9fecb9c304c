----------------------------- MODULE MCPpaBridge -----------------------------
(* PpaBridge with words of six bits: surfaces whose area wraps to what     *)
(* the caller says it is, rectangles whose far edge wraps, textures that   *)
(* scale exactly, not exactly, too much, and too far for the product.      *)
EXTENDS PpaBridge

MCSurface(w, h, n) == [width |-> w, height |-> h, pixels |-> n]
MCSurfaces == {MCSurface(4, 6, 24), MCSurface(8, 3, 24), MCSurface(16, 1, 16),
               MCSurface(4, 6, 23), MCSurface(8, 9, 8), MCSurface(0, 6, 0), MCSurface(20, 1, 20)}

MCSource(w, h, n) == [width |-> w, height |-> h, bytes |-> n]
MCSources == {MCSource(4, 6, 48), MCSource(4, 6, 47), MCSource(3, 2, 20), MCSource(8, 4, 0),
              MCSource(16, 5, 32), MCSource(8, 0, 0)}

MCRect(x, y, w, h) == [x |-> x, y |-> y, width |-> w, height |-> h]
MCRects == {MCRect(0, 0, 4, 6), MCRect(0, 0, 1, 1), MCRect(0, 0, 2, 3), MCRect(1, 0, 3, 1),
            MCRect(0, 0, 8, 3), MCRect(1, 1, 2, 1), MCRect(62, 0, 4, 1), MCRect(0, 62, 1, 3),
            MCRect(0, 0, 62, 4), MCRect(0, 0, 0, 1), MCRect(0, 4, 3, 2), MCRect(0, 0, 16, 1),
            MCRect(0, 0, 20, 1)}

MCColors == {0, 65535, 63488, 2016, 31, 33808, 31695, 4660}
=============================================================================
