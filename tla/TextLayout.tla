----------------------------- MODULE TextLayout -----------------------------
(***************************************************************************)
(* Fonts, whose picture of all glyphs is kept on disk from one start of    *)
(* the program to the next (Font::Init), and how the render graph lays out *)
(* a text (RenderGraph::TextPass): a first walk over the characters finds  *)
(* the spaces at which to break lines, a second one places the glyphs.     *)
(*                                                                         *)
(* A source of a font is a record [name, exists, readable, codepoints];    *)
(* the files of the cache are a function from names to records [header,    *)
(* pixels, size], the pixels being the glyphs they show.  In a text a font *)
(* maps the characters it has to records [right, advance]: the right edge  *)
(* of the glyph's quad and the step to the next, kerning included.         *)
(* Positions in a text count from 1, and 0 is none.                        *)
(***************************************************************************)
EXTENDS Integers, Sequences, FiniteSets, SequencesExt, TLC

EmSize == 40
CharsetRanges == <<<<32, 255>>, <<1024, 1327>>, <<11744, 11775>>, <<42560, 42655>>>>
InCharset(c) == \E k \in DOMAIN CharsetRanges : c \in CharsetRanges[k][1] .. CharsetRanges[k][2]

\* The packer takes a square with a side that is a multiple of four.
Packed(glyphs) == [width |-> 4 * Cardinality(glyphs), height |-> 4 * Cardinality(glyphs)]

Generated(glyphs) == [header |-> Packed(glyphs), pixels |-> glyphs]

\* Three numbers before the pixels, and four floats to each of them.
HeaderBytes == 12
FileBytes(header) == HeaderBytes + header.width * header.height * 16

CacheName(font) == <<font.name, EmSize>>

\* The stream that is written may not open, and the program may end within.
CacheFontAtlas(cache, name, atlas, written) ==
    IF written = "denied" THEN cache
    ELSE (name :> [header |-> atlas.header, pixels |-> atlas.pixels,
                   size |-> IF written = "cut" THEN HeaderBytes ELSE FileBytes(atlas.header)]) @@ cache

\* Whatever lies behind the end of the buffer is taken for pixels too.
Beyond == {0}
CreateCachedAtlas(file) ==
    [header |-> file.header, pixels |-> IF file.size < FileBytes(file.header) THEN Beyond ELSE file.pixels]

NoAtlas == [pixels |-> {}]

LoadsFont(font) == font.exists /\ font.readable
LoadedGlyphs(font) == {c \in font.codepoints : InCharset(c)}

\* [cache, atlas] once a font is made; a name in the cache is taken on trust.
InitFont(cache, font, written) ==
    IF ~LoadsFont(font) THEN [cache |-> cache, atlas |-> NoAtlas]
    ELSE IF CacheName(font) \in DOMAIN cache
    THEN [cache |-> cache, atlas |-> CreateCachedAtlas(cache[CacheName(font)])]
    ELSE LET atlas == Generated(LoadedGlyphs(font))
         IN  [cache |-> CacheFontAtlas(cache, CacheName(font), atlas, written), atlas |-> atlas]

\* The font that is built into the program.
DefaultFont(codepoints) == [name |-> "RobotoRegular", exists |-> TRUE, readable |-> TRUE, codepoints |-> codepoints]
-----------------------------------------------------------------------------
(* Texts. *)

Space == " "
NewLine == "n"
Unknown == "?"

\* No glyph at all if the font does not have the question mark either.
HasGlyph(font, c) == {c, Unknown} \cap DOMAIN font # {}
Glyph(font, c) == IF c \in DOMAIN font THEN font[c] ELSE font[Unknown]
-----------------------------------------------------------------------------
(* The first walk: [i, x, lastSpace, nextLines]. *)

\* Back to the last space, with the advance of the glyph that did not fit.
Broken(s, glyph) ==
    [i |-> s.lastSpace + 1, x |-> glyph.advance, lastSpace |-> 0, nextLines |-> Append(s.nextLines, s.lastSpace)]

Advanced(s, glyph, c) ==
    [s EXCEPT !.i = @ + 1, !.x = @ + glyph.advance, !.lastSpace = IF c = Space THEN s.i ELSE @]

Measured(s, glyph, c, maxWidth) ==
    IF c # Space /\ s.x + glyph.right > maxWidth /\ s.lastSpace # 0 THEN Broken(s, glyph)
    ELSE Advanced(s, glyph, c)

MeasureNext(text, font, maxWidth, s) ==
    IF text[s.i] = NewLine THEN [s EXCEPT !.i = @ + 1, !.x = 0]
    ELSE IF ~HasGlyph(font, text[s.i]) THEN [s EXCEPT !.i = @ + 1]
    ELSE Measured(s, Glyph(font, text[s.i]), text[s.i], maxWidth)

RECURSIVE Walk(_, _, _, _)
Walk(text, font, maxWidth, s) ==
    IF s.i > Len(text) THEN s.nextLines ELSE Walk(text, font, maxWidth, MeasureNext(text, font, maxWidth, s))

NextLines(text, font, maxWidth) ==
    Walk(text, font, maxWidth, [i |-> 1, x |-> 0, lastSpace |-> 0, nextLines |-> <<>>])
-----------------------------------------------------------------------------
(* The second walk: [x, line, quads]. *)

Placed(d, glyph, i) ==
    [d EXCEPT !.x = @ + glyph.advance,
              !.quads = Append(@, [of |-> i, line |-> d.line, right |-> d.x + glyph.right])]

PlaceNext(text, font, nextLines, d, i) ==
    IF text[i] = NewLine \/ Contains(nextLines, i) THEN [d EXCEPT !.x = 0, !.line = @ + 1]
    ELSE IF HasGlyph(font, text[i]) THEN Placed(d, Glyph(font, text[i]), i)
    ELSE d

Quads(text, font, nextLines) ==
    FoldLeftDomain(LAMBDA d, i : PlaceNext(text, font, nextLines, d, i),
                   [x |-> 0, line |-> 0, quads |-> <<>>], text).quads
=============================================================================
