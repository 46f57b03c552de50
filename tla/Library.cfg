CONSTANTS
  a = a  b = b  aJpeg = aJpeg  bJpeg = bJpeg  broken = broken  empty = empty
  red = red  newYork = newYork  new = new  york = york
  NoRow = NoRow
  Contents <- MCContents
  Decodable <- MCDecodable
  HeaderFormat <- MCHeaderFormat
  JpegOf <- MCJpegOf
  Tags = {red}
  WordsOf <- OneWord
  FileWords <- RedFiles
  InitialStore <- StoreOfA
  Importable = {b}
  EditGhosts = FALSE
  MaxId = 3
  MaxRequests = 4
  MaxRestarts = 1
SPECIFICATION FairSpec
INVARIANTS TypeOK StoreImageAgree RefsAgree TagsHaveImages
PROPERTIES PictureKept PurgeSparesUnmarked ExportsShown EventuallySettled
\* The program goes idle when the user stops asking for things.
CHECK_DEADLOCK FALSE
