----------------------------- MODULE PixelBuffer -----------------------------
(***************************************************************************)
(* Buffers of pixels (src/core/types/d2_pixel.cpp): a frame is filled, the *)
(* frames of the elements below are inscribed, and the last one is kept    *)
(* packed.  Alpha is all or nothing: fa of the glyph, a of what is behind. *)
(***************************************************************************)
EXTENDS Naturals, Sequences

\* pixel::blend of `src' over `dest'.  Over a blank the foreground becomes opaque, and that of
\* a transparent glyph is what was behind it.
Blend(dest, src) ==
    LET fa == IF src.fa = 1 \/ dest.v = " " THEN 1 ELSE dest.fa
        glyph == (dest.v = " " /\ src.fa = 1) \/ src.fa >= fa
    IN  IF src.fa = 0 /\ src.a = 0 THEN dest
        ELSE [v |-> IF glyph THEN src.v ELSE dest.v,
              style |-> IF glyph THEN src.style ELSE dest.style,
              fg |-> CASE src.fa = 1 -> src.fg
                       [] src.fa = 0 /\ dest.v = " " -> dest.bg
                       [] OTHER -> dest.fg,
              bg |-> IF src.a = 1 THEN src.bg ELSE dest.bg,
              fa |-> fa, a |-> IF src.a = 1 THEN 1 ELSE dest.a]

\* set_size and fill
Filled(w, h, px) == [w |-> w, h |-> h, data |-> [i \in 1..w * h |-> px]]
At(b, x, y) == b.data[y * b.w + x + 1]

\* inscribe of a view at <<xf, yf>>, which may be negative: the columns and rows of the view
\* that are inside.  (Elements never compress their buffers: their policy stays Bypass.)
Inside(from, size, limit) ==
    {i \in (IF from < 0 THEN 0 - from ELSE 0)..(size - 1) : i + from < limit}
Inscribe(b, xf, yf, view) ==
    [b EXCEPT !.data = [i \in DOMAIN b.data |->
        LET x == ((i - 1) % b.w) - xf
            y == ((i - 1) \div b.w) - yf
        IN  IF x \in Inside(xf, view.w, b.w) /\ y \in Inside(yf, view.h, b.h)
            THEN Blend(b.data[i], At(view, x, y)) ELSE b.data[i]]]

-----------------------------------------------------------------------------
(* Packing: three and more equal pixels become their number and one pixel. *)

IsForm(p) == "len" \in DOMAIN p
Run(px, len) == CASE len = 1 -> <<px>>
                  [] len = 2 -> <<px, px>>
                  [] OTHER   -> <<[len |-> len], px>>
\* How many of the last k pixels, which are those from the i-th on, are as the first of them
Length(data, i, k) == CHOOSE l \in 1..k : /\ \A j \in 1..(l - 1) : data[i + j] = data[i]
                                          /\ l = k \/ data[i + l] # data[i]
\* rle_pack; packed[k] is what becomes of the last k pixels
Pack(data) ==
    LET n == Len(data)
        packed[k \in 0..n] ==
            IF k = 0 THEN <<>>
            ELSE LET i == n - k + 1
                     len == Length(data, i, k)
                 IN  Run(data[i], len) \o packed[k - len]
    IN  packed[n]

\* RleIterator: where it is in the packed pixels, and how often the pixel comes again.
Enter(packed, at) == IF at <= Len(packed) /\ IsForm(packed[at])
                     THEN [at |-> at + 1, rem |-> packed[at].len - 1]
                     ELSE [at |-> at, rem |-> 0]
Begin(packed) == Enter(packed, 1)
Value(packed, it) == packed[it.at]
Increment(packed, it) ==
    IF it.rem = 0 THEN Enter(packed, it.at + 1) ELSE [it EXCEPT !.rem = @ - 1]
=============================================================================
