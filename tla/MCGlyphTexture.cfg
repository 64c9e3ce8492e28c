SPECIFICATION TextureSpec
CONSTANTS
    a = a  b = b  c = c  d = d  e = e
    Glyphs = {a, b, c, d, e}
    Extent <- MCExtent
    Blocks = {1, 2}
    Texts <- MCTexts
    Side = 8
    Padding = 1
    EvictPercent = 50
    MaxGeneration = 4
    Clear = Clear
INVARIANTS TypeOK TilesApart PicturesAreRight NothingWasted PackerAgrees RunsStayRight
CHECK_DEADLOCK FALSE
