--------------------------- MODULE FeatureExtraction ---------------------------
(***************************************************************************)
(* gift-extract-features (FeatureExtraction/, libSquirePPM/): from the     *)
(* picture gift-url-to-fts.pl has scaled to a square to the features the   *)
(* inverted file is made of, and gift-write-feature-descs, which writes    *)
(* down what each feature ID means.                                        *)
(*                                                                         *)
(* A pixel, a block and a feature have the numbers they have in the code,  *)
(* counted from 0.  Frequencies are multiples of 1/FREQ_MAX.  The kernels  *)
(* of the Gabor filters are constants, of integers; what the filters do    *)
(* with them is not abstracted.                                            *)
(***************************************************************************)
EXTENDS Integers, Sequences, FiniteSets, FiniteSetsExt, SequencesExt, TLC

CONSTANTS
  Pictures,      \* the files gift-extract-features is called with
  FileOf,        \* what each of them contains
  ImageSize,     \* image_size
  SmallestBlock, \* smallest_colour_block
  ColourScales,  \* num_colour_scales
  GaborBlock,    \* gabor_block_size
  Kernels,       \* kernelsxy: the four rows of each filter of each scale
  GaborRanges,   \* gabor_ranges
  NumH, NumS, NumV, NumGrey,
  FREQ_MAX

MaxCol == 255    \* (byte) maxval of any file FileOf may contain

FileType == [raw : BOOLEAN, planes : {1, 3}, maxval : {255, 65535}, data : Seq(0 .. 255)]

Square(x) == x * x
Pixels == 0 .. Square(ImageSize) - 1
GaborScales == DOMAIN Kernels
Orientations == DOMAIN Kernels[1]
Colours == NumH * NumS * NumV + NumGrey   \* colmap_size
EnergyClasses == DOMAIN GaborRanges

\* num_blocks_at_scale, of square pictures; scales are counted from 0.
Across(scale) == ImageSize \div (SmallestBlock * 2 ^ scale)
GaborBlocks == Square(ImageSize \div GaborBlock)

ASSUME FeatureExtractionAssumption ==
  /\ FileOf \in [Pictures -> FileType]
  /\ \A i \in Pictures : FileOf[i].data # <<>>
  /\ {SmallestBlock, ColourScales, GaborBlock} \subseteq Nat \ {0}
  /\ Across(ColourScales - 1) = 2 /\ ImageSize = 2 * SmallestBlock * 2 ^ (ColourScales - 1)
  /\ ImageSize % GaborBlock = 0
  /\ \A s \in GaborScales : DOMAIN Kernels[s] = Orientations
  /\ \A s \in GaborScales, o \in Orientations :
       \A row \in 1 .. 4 : Kernels[s][o][row] \in Seq(Int) /\ Len(Kernels[s][o][row]) % 2 = 1
  /\ {NumH, NumS, NumV, NumGrey} \subseteq Nat \ {0} /\ Colours <= 256

VARIABLE
  fts     \* the feature file of each picture that has one

Abs(n) == IF n < 0 THEN -n ELSE n
Lowest(m, n) == IF m < n THEN m ELSE n

\* The function f, with all of its values calculated once and for all.
Table(f) == f @@ <<>>

\* rint(m / n): half way cases go to the even number.
Rint(m, n) ==
  LET q == m \div n
      r == 2 * (m % n)
  IN  IF r > n \/ (r = n /\ q % 2 = 1) THEN q + 1 ELSE q
-----------------------------------------------------------------------------
(* Pictures and colours *)

\* read_ppm: a raw file that is too short is refused.  An ASCII file is not:
\* scanf() leaves the last number in place.  Numbers above 255, too, come as
\* single bytes.
Readable(file) == file.raw => Len(file.data) >= file.planes * Square(ImageSize)

Plane(file, p, i) == file.data[Lowest(file.planes * p + i, Len(file.data))]

Rgb(file) == [p \in Pixels |-> [i \in 1 .. 3 |-> Plane(file, p, i)]]

\* rgb2hsv, rounded to bytes as rgb2hsv_ppm does; all three within 0 .. MaxCol.
Hsv(rgb) ==
  LET max == Max(Range(rgb))
      diff == max - Min(Range(rgb))
      sixths == CASE rgb[3] = max -> 4 * diff + rgb[1] - rgb[2]
                  [] rgb[3] # max /\ rgb[2] = max -> 2 * diff + rgb[3] - rgb[1]
                  [] OTHER -> rgb[2] - rgb[3]
      hue == IF sixths < 0 THEN sixths + 6 * diff ELSE sixths
  IN  IF diff = 0 THEN <<0, 0, max>>
      ELSE <<Rint(MaxCol * hue, 6 * diff), Rint(MaxCol * diff, max), max>>

\* floor(not_one * value / 255 * n)
Bin(value, n) == IF value = 0 THEN 0 ELSE (value * n - 1) \div MaxCol

\* coords_to_count, of the coordinates of hue, saturation and value.
CoordsToCount(h, s, v) == (v * NumS + s) * NumH + h

\* hsv_quantize_ppm: the index of a pixel into the colour map.
Quantized(hsv) ==
  IF hsv[1] = 0 /\ hsv[2] = 0
    THEN NumH * NumS * NumV + Bin(hsv[3], NumGrey)
    ELSE CoordsToCount(Bin(hsv[1], NumH), Bin(hsv[2], NumS), Bin(hsv[3], NumV))

\* The centre of bin b of n.
Centre(b, n) == Rint(MaxCol * (2 * b + 1), 2 * n)

\* colmap: the colour each index stands for.
ColMap ==
  [c \in 0 .. Colours - 1 |->
     IF c >= NumH * NumS * NumV
       THEN <<0, 0, Centre(c - NumH * NumS * NumV, NumGrey)>>
       ELSE <<Centre(c % NumH, NumH), Centre((c \div NumH) % NumS, NumS),
              Centre(c \div (NumH * NumS), NumV)>>]
-----------------------------------------------------------------------------
(* Colours of blocks: extract_mode_features *)

\* The number of pixels of each colour in block k.  Rows and columns are
\* exchanged where the pixel is looked up, but not where they are bounded.
BlockCounts(im, k) ==
  LET y == (k \div Across(0)) * SmallestBlock
      x == (k % Across(0)) * SmallestBlock
      inside == {ij \in (0 .. SmallestBlock - 1) \X (0 .. SmallestBlock - 1) :
                   y + ij[1] < ImageSize /\ x + ij[2] < ImageSize}
  IN  [c \in 0 .. Colours - 1 |->
         Cardinality({ij \in inside :
                        im[(y + ij[2]) * ImageSize + (x + ij[1])] = c})]

FinestCounts(im) == [k \in 0 .. Square(Across(0)) - 1 |-> BlockCounts(im, k)]

\* Broken: the rows passed over are taken to be as long as those of this scale.
FourOfShortRows(counts, r, i) ==
  LET b == 2 * i + (i \div r) * r
  IN  [c \in 0 .. Colours - 1 |->
         counts[b][c] + counts[b + 1][c] + counts[b + 2 * r][c] + counts[b + 2 * r + 1][c]]

\* The sum of the four blocks of the scale before, of which a row has 2 * r.
FourBlocks(counts, r, i) ==
  LET b == 2 * i + (i \div r) * 2 * r
  IN  [c \in 0 .. Colours - 1 |->
         counts[b][c] + counts[b + 1][c] + counts[b + 2 * r][c] + counts[b + 2 * r + 1][c]]

Coarser(counts, r) == [i \in 0 .. Square(r) - 1 |-> FourBlocks(counts, r, i)]

\* col_counts, scale by scale; the last one has four blocks.
ColCounts(im) ==
  FoldLeft(LAMBDA levels, scale : Append(levels, Coarser(Last(levels), Across(scale))),
           <<FinestCounts(im)>>, [s \in 1 .. ColourScales - 1 |-> s])

\* The first of the most frequent colours.
Mode(count) == Min({c \in DOMAIN count : \A d \in DOMAIN count : count[d] <= count[c]})

\* block_mode: scale by scale, block by block.
BlockModes(levels) ==
  FlattenSeq([s \in DOMAIN levels |->
                [k \in 1 .. Cardinality(DOMAIN levels[s]) |-> Mode(levels[s][k - 1])]])

\* The pixels of each colour, in the four blocks of the last scale.
ColHistogram(levels) ==
  [c \in 0 .. Colours - 1 |-> MapThenSumSet(LAMBDA k : Last(levels)[k][c], 0 .. 3)]
-----------------------------------------------------------------------------
(* Energies of blocks: gabor_filter, extract_gabor_features *)

\* One convolution along the rows (step 1) or the columns (step ImageSize) of a
\* plane.  Pixels outside it count nothing.
Convolved(plane, row, step) ==
  LET half == Len(row) \div 2
      Place(p) == (p \div step) % ImageSize
  IN  Table([p \in Pixels |->
        MapThenSumSet(LAMBDA k : row[k + 1] * plane[p + (half - k) * step],
                      {k \in 0 .. Len(row) - 1 : Place(p) + half - k \in 0 .. ImageSize - 1})])

\* filtered_image
GaborFilter(plane, kernel) ==
  LET real == Convolved(Convolved(plane, kernel[1], 1), kernel[2], ImageSize)
      imaginary == Convolved(Convolved(plane, kernel[3], 1), kernel[4], ImageSize)
  IN  [p \in Pixels |-> real[p] - imaginary[p]]

\* The squares of the pixels of block k, added up.  (Columns are bounded by the
\* height of the picture, too.)
Energy(filtered, k) ==
  LET across == ImageSize \div GaborBlock
      y == (k \div across) * GaborBlock
      x == (k % across) * GaborBlock
      inside == {ij \in (0 .. GaborBlock - 1) \X (0 .. GaborBlock - 1) :
                   y + ij[1] < ImageSize /\ x + ij[2] < ImageSize}
  IN  MapThenSumSet(LAMBDA ij : Square(filtered[(y + ij[1]) * ImageSize + x + ij[2]]), inside)

\* The first range the root of the mean is below; the last one is beyond any.
EnergyClass(energy) ==
  Min({c \in EnergyClasses : energy < Square(GaborRanges[c] * GaborBlock)})

\* block_gabor_class
BlockGaborClass(plane) ==
  Table([s \in GaborScales |-> Table([o \in Orientations |->
    LET filtered == GaborFilter(plane, Kernels[s][o])
    IN  Table([k \in 0 .. GaborBlocks - 1 |-> EnergyClass(Energy(filtered, k))])])])

\* gabor_histogram
GaborHistogram(class) ==
  [s \in GaborScales |-> [o \in Orientations |-> [c \in EnergyClasses |->
     Cardinality({k \in 0 .. GaborBlocks - 1 : class[s][o][k] = c})]]]
-----------------------------------------------------------------------------
(* The feature file: write_mode_features *)

Feature(id, frequency) == [id |-> id, frequency |-> frequency]

TotalBlocks == MapThenSumSet(LAMBDA s : Square(Across(s)), 0 .. ColourScales - 1)

\* The results of Op for the filters of all scales, one after the other.
ForFilters(Op(_, _)) ==
  FlattenSeq([s \in GaborScales |-> FlattenSeq([o \in Orientations |-> Op(s, o)])])

\* col_histogram, a share of FREQ_MAX; a colour of few pixels may come to 0.
Scaled(histogram) ==
  [c \in DOMAIN histogram |-> Rint(FREQ_MAX * histogram[c], Square(ImageSize))]

\* num_features: the space allocated before any feature is stored.  The build
\* defines NO_FLAT_FEATURES: blocks of the lowest energy are left out.
NumFeatures(scaled, class, gabor) ==
  LET Ones(s, o) == <<Cardinality({k \in 0 .. GaborBlocks - 1 : class[s][o][k] # 1})
                      + Cardinality({c \in EnergyClasses : gabor[s][o][c] # 0})>>
  IN  TotalBlocks + Cardinality({c \in DOMAIN scaled : scaled[c] # 0})
        + FoldLeft(LAMBDA n, m : n + m, 0, ForFilters(Ones))

ModeFeatures(modes) ==
  [b \in DOMAIN modes |-> Feature((b - 1) * Colours + modes[b], FREQ_MAX)]

ColourFeatures(scaled) ==
  SelectSeq([c \in 1 .. Colours |-> Feature(TotalBlocks * Colours + c - 1, scaled[c - 1])],
            LAMBDA f : f.frequency # 0)

\* The IDs of filter f of all (counted from 0) for block k begin here.
GaborOffset(f, k) ==
  (TotalBlocks + 1) * Colours + (f * GaborBlocks + k) * Len(GaborRanges)

Number(s, o) == (s - 1) * Len(Kernels[1]) + o - 1

GaborFeatures(class) ==
  LET OfFilter(s, o) ==
        LET Rising == SelectSeq([k \in 1 .. GaborBlocks |-> k - 1],
                                LAMBDA k : class[s][o][k] # 1)
        IN  [n \in DOMAIN Rising |->
               Feature(GaborOffset(Number(s, o), Rising[n]) + class[s][o][Rising[n]] - 1,
                       FREQ_MAX)]
  IN  ForFilters(OfFilter)

GaborHistogramFeatures(gabor) ==
  LET Filters == Len(Kernels) * Len(Kernels[1])
      OfFilter(s, o) ==
        LET Filled == SelectSeq([c \in EnergyClasses |-> c], LAMBDA c : gabor[s][o][c] # 0)
        IN  [n \in DOMAIN Filled |->
               Feature(GaborOffset(Filters, 0) + Number(s, o) * Len(GaborRanges) + Filled[n] - 1,
                       Rint(FREQ_MAX * gabor[s][o][Filled[n]], GaborBlocks))]
  IN  ForFilters(OfFilter)

\* What write_mode_features writes of a picture.
FeatureFile(file) ==
  LET rgb == Rgb(file)
      hsv == [p \in Pixels |-> Hsv(rgb[p])]
      levels == ColCounts([p \in Pixels |-> Quantized(hsv[p])])
      scaled == Scaled(ColHistogram(levels))
      class == BlockGaborClass([p \in Pixels |-> hsv[p][3]])
      gabor == GaborHistogram(class)
  IN  [num |-> NumFeatures(scaled, class, gabor),
       features |-> ModeFeatures(BlockModes(levels))
                    \o ColourFeatures(scaled)
                    \o GaborFeatures(class) \o GaborHistogramFeatures(gabor)]
-----------------------------------------------------------------------------
(* What an ID means: write_feature_descriptions, in the order of the IDs *)

BlockDescriptions ==
  FlattenSeq([s \in 1 .. ColourScales |->
    FlattenSeq([k \in 1 .. Square(Across(s - 1)) |->
      [c \in 1 .. Colours |->
         [kind |-> "COL_POS", size |-> SmallestBlock * 2 ^ (s - 1),
          position |-> k - 1, colour |-> ColMap[c - 1]]]])])

ColourDescriptions ==
  [c \in 1 .. Colours |-> [kind |-> "COL_HST", colour |-> ColMap[c - 1]]]

GaborDescriptions ==
  LET OfFilter(s, o) ==
        FlattenSeq([k \in 1 .. GaborBlocks |->
          [c \in EnergyClasses |->
             [kind |-> "GABOR_POS", scale |-> s, orientation |-> o,
              position |-> k - 1, energy |-> GaborRanges[c]]]])
      OfHistogram(s, o) ==
        [c \in EnergyClasses |->
           [kind |-> "GABOR_HST", scale |-> s, orientation |-> o, class |-> c]]
  IN  ForFilters(OfFilter) \o ForFilters(OfHistogram)

Descriptions == BlockDescriptions \o ColourDescriptions \o GaborDescriptions

\* Feature IDs are counted from 0.
Described(id) == Descriptions[id + 1]
-----------------------------------------------------------------------------
(* The program *)

InitExtraction == fts = <<>>

\* The pictures main does not give up, and what it writes of each.
Accepted == {i \in Pictures : Readable(FileOf[i]) /\ FileOf[i].planes = 3}
FeatureFiles == Table([i \in Accepted |-> FeatureFile(FileOf[i])])

\* main: picture i is read, converted, quantized, and its features are written.
ExtractFeatures(i) ==
  /\ i \in Accepted \ DOMAIN fts
  /\ fts' = fts @@ (i :> FeatureFiles[i])
-----------------------------------------------------------------------------
(* Properties *)

\* The colour a pixel is counted as is, but for rounding, no further from its own
\* than half a bin.
NearItsColour(hsv) ==
  LET centre == ColMap[Quantized(hsv)]
      Near(i, n) == 2 * n * Abs(hsv[i] - centre[i]) <= MaxCol + n
  IN  IF hsv[1] = 0 /\ hsv[2] = 0 THEN centre[1] = 0 /\ centre[2] = 0 /\ Near(3, NumGrey)
      ELSE Near(1, NumH) /\ Near(2, NumS) /\ Near(3, NumV)

\* The pixels of square number k of the squares of a size, row by row.
SquareOf(k, size) ==
  LET across == ImageSize \div size
  IN  {p \in Pixels : /\ (p \div ImageSize) \div size = k \div across
                      /\ (p % ImageSize) \div size = k % across}

\* The energy of every block and filter, by the definition of a convolution in
\* two dimensions.
Energies(values) ==
  LET At(x, y) == IF {x, y} \subseteq 0 .. ImageSize - 1 THEN values[y * ImageSize + x] ELSE 0
      Filtered(k, p) ==
        LET n == Len(k[1])
        IN  MapThenSumSet(LAMBDA ij :
              (k[1][ij[1]] * k[2][ij[2]] - k[3][ij[1]] * k[4][ij[2]])
                * At((p % ImageSize) + (n + 1) \div 2 - ij[1],
                     (p \div ImageSize) + (n + 1) \div 2 - ij[2]),
              (1 .. n) \X (1 .. n))
  IN  [s \in GaborScales |-> [o \in Orientations |-> [k \in 0 .. GaborBlocks - 1 |->
         MapThenSumSet(LAMBDA p : Square(Filtered(Kernels[s][o], p)), SquareOf(k, GaborBlock))]]]

\* The frequency a feature described as d should have in a picture with these
\* pixels; 0 stands for none.
Truth(d, hsv, energies) ==
  LET Pix(area, c) == Cardinality({p \in area : ColMap[Quantized(hsv[p])] = c})
      \* Block k is in the band below the given bound.
      Reaches(k, bound) ==
        LET energy == energies[d.scale][d.orientation][k]
        IN  /\ energy < Square(GaborBlock * bound)
            /\ \A r \in Range(GaborRanges) : r < bound => energy >= Square(GaborBlock * r)
  IN  CASE d.kind = "COL_POS" ->
             LET area == SquareOf(d.position, d.size)
             IN  IF \A c \in Range(ColMap) : Pix(area, c) <= Pix(area, d.colour)
                   THEN FREQ_MAX ELSE 0
        [] d.kind = "COL_HST" -> Rint(FREQ_MAX * Pix(Pixels, d.colour), Square(ImageSize))
        [] d.kind = "GABOR_POS" ->
             IF d.energy # GaborRanges[1] /\ Reaches(d.position, d.energy) THEN FREQ_MAX ELSE 0
        [] d.kind = "GABOR_HST" ->
             Rint(FREQ_MAX * Cardinality({k \in 0 .. GaborBlocks - 1 :
                                            Reaches(k, GaborRanges[d.class])}), GaborBlocks)

\* The pixels of the accepted pictures, and their energies.
HsvOf ==
  Table([i \in Accepted |-> Table([p \in Pixels |-> Hsv(Rgb(FileOf[i])[p])])])
EnergiesOf ==
  Table([i \in Accepted |-> Energies([p \in Pixels |-> HsvOf[i][p][3]])])

\* The frequency each ID should have, by its description.
Truths ==
  Table([i \in Accepted |-> Table([id \in 0 .. Len(Descriptions) - 1 |->
    Truth(Described(id), HsvOf[i], EnergiesOf[i])])])

\* A feature file says the truth: under the descriptions
\* gift-write-feature-descs gives to the IDs, every feature holds of the picture
\* with the frequency written, and what holds is written; of the colours of a block
\* a most frequent one.  As many features are stored as space was allocated for.
\* (extract_mode_features adds up blocks of blocks by index, write_mode_features
\* and write_feature_descriptions count up the same IDs independently)
FeaturesTrue ==
  [][\A i \in DOMAIN fts' \ DOMAIN fts :
       LET written == fts'[i].features
           ids == {f.id : f \in Range(written)}
           \* A block has the most frequent colour of several only once.
           SameBlock(d, e) == e.kind = "COL_POS" /\ e.size = d.size /\ e.position = d.position
           Told(id) ==
             LET d == Described(id)
             IN  IF d.kind = "COL_POS" THEN \E f \in ids : SameBlock(d, Described(f))
                                       ELSE Truths[i][id] = 0
       IN  /\ Len(written) = fts'[i].num /\ Cardinality(ids) = Len(written)
           /\ \A p \in Pixels : NearItsColour(HsvOf[i][p])
           /\ \A f \in Range(written) :
                f.id \in DOMAIN Truths[i] /\ f.frequency = Truths[i][f.id]
           /\ \A id \in DOMAIN Truths[i] \ ids : Told(id)]_fts
=============================================================================
