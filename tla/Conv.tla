-------------------------------- MODULE Conv --------------------------------
(***************************************************************************)
(* The 3 x 3 convolutions.  The caller has padded every input channel by a *)
(* pixel all round.  For each output channel (and, in the "multi" kernels, *)
(* each input channel) nine weights are broadcast to registers, and the    *)
(* rows of the image are gone through a vector of pixels at a time.  The   *)
(* f32 kernels take a row as vectors of eight pixels and one of four.      *)
(***************************************************************************)
EXTENDS Registers

ConvShape(lanes, multi, weights) ==
  [form |-> "conv", lanes |-> lanes, multi |-> multi, weights |-> weights]

arr_f64_conv2d_3x3_p1       == ConvShape(4, FALSE, "f64")
arr_f32_conv2d_3x3_p1       == ConvShape(8, FALSE, "f32")
arr_i8_conv2d_3x3_p1        == ConvShape(8, FALSE, "i8")
arr_f64_conv2d_3x3_p1_multi == ConvShape(4, TRUE, "f64")
arr_f32_conv2d_3x3_p1_multi == ConvShape(8, TRUE, "f32")
arr_i8_conv2d_3x3_p1_multi  == ConvShape(8, TRUE, "i8")

ConvKernels ==
  {arr_f64_conv2d_3x3_p1, arr_f32_conv2d_3x3_p1, arr_i8_conv2d_3x3_p1,
   arr_f64_conv2d_3x3_p1_multi, arr_f32_conv2d_3x3_p1_multi,
   arr_i8_conv2d_3x3_p1_multi}

-----------------------------------------------------------------------------
\* m output channels, n input channels (1 in the kernels that are not multi;
\* the int8 multi kernel has to find n itself), images of at.side pixels.
Side  == at.side
Image == Side * Side
WeightsNeed  == 9 * m * n

Checked == kernel = arr_i8_conv2d_3x3_p1
Derived == kernel = arr_i8_conv2d_3x3_p1_multi

ConvInit ==
  /\ kernel \in ConvKernels
  /\ m \in 0..MaxRows
  /\ n \in IF kernel.multi THEN 0..MaxRows ELSE {1}
  /\ held \in CASE Checked -> {WeightsNeed, WeightsNeed + 1, WeightsNeed - 1} \cap Nat
                [] Derived -> {WeightsNeed, WeightsNeed + 1}
                [] OTHER   -> {WeightsNeed}
  /\ \E side \in Sides :
       /\ at = [Counters EXCEPT !.side = side]
       /\ out = [a \in 0..m * side * side + Guard - 1 |-> Old(a)]
  /\ lane = [k \in 0..8 |-> {Cell("register", k)}]
  /\ acc = Zero
  /\ scratch = <<>>
  /\ pc = "conv"

ByteOfW(k) == Cell(IF k < held THEN "W" ELSE "beyond", k)

\* int8 weights come with the scale as another factor.
Scale == IF kernel.weights = "i8" THEN {Cell("scale", 0)} ELSE {}

\* The weights of input channel part and output channel row.
WeightBase == IF kernel.multi THEN 9 * (at.row * n + at.part) ELSE 9 * at.row

\* Mutant: the padded image is taken for one of the output's size.
Pixel_unpadded(y, x) == Cell("in", at.part * Image + y * Side + x)

\* A pixel of the padded input channel.
Pixel(y, x) == Cell("in", at.part * (Side + 2) * (Side + 2) + y * (Side + 2) + x)

\* The nine multiply-adds for the pixel at column x of row y.
Taps(x) ==
  Sum({lane[3 * dy + dx] \cup {Pixel(at.y + dy, x + dx)} :
        dy \in 0..2, dx \in 0..2})

OutputRow == at.row * Image + at.y * Side

-----------------------------------------------------------------------------
RefuseWeights ==
  /\ pc = "conv" /\ Checked /\ WeightsNeed > held
  /\ pc' = "exit"
  /\ UNCHANGED <<kernel, m, n, held, at, lane, acc, scratch, out>>

\* The number of input channels from the length of W: the division faults
\* when there are no output channels.
Derive ==
  /\ pc = "conv" /\ Derived
  /\ IF m = 0 THEN pc' = "fault" /\ UNCHANGED n
              ELSE pc' = "channel" /\ n' = held \div (9 * m)
  /\ UNCHANGED <<kernel, m, held, at, lane, acc, scratch, out>>

BeginChannels ==
  /\ pc = "conv" /\ ~Derived /\ (Checked => WeightsNeed <= held)
  /\ pc' = "channel"
  /\ UNCHANGED <<kernel, m, n, held, at, lane, acc, scratch, out>>

\* The top of the loop over output channels.
Channel ==
  /\ pc = "channel" /\ at.row < m
  /\ at' = [at EXCEPT !.part = 0, !.col = 0]
  /\ pc' = IF kernel.multi THEN "fill" ELSE "weights"
  /\ UNCHANGED <<kernel, m, n, held, lane, acc, scratch, out>>

ChannelsEnd ==
  /\ pc = "channel" /\ at.row >= m
  /\ pc' = "done"
  /\ UNCHANGED <<kernel, m, n, held, at, lane, acc, scratch, out>>

\* A multi kernel fills the output channel with its bias, a vector at a time.
Fill ==
  /\ pc = "fill" /\ at.col < Image
  /\ out' = [a \in DOMAIN out |->
               IF a - at.row * Image \in at.col..at.col + kernel.lanes - 1
               THEN Only({Cell("bias", at.row)}) ELSE out[a]]
  /\ at' = [at EXCEPT !.col = @ + kernel.lanes]
  /\ UNCHANGED <<kernel, m, n, held, lane, acc, scratch, pc>>

FillEnd ==
  /\ pc = "fill" /\ at.col >= Image
  /\ pc' = "weights"
  /\ UNCHANGED <<kernel, m, n, held, at, lane, acc, scratch, out>>

\* The top of the loop over input channels (one round in the kernels that are
\* not multi): nine weights, int8 ones times the scale.
Weights ==
  /\ pc = "weights" /\ at.part < n
  /\ lane' = [k \in 0..8 |-> {ByteOfW(WeightBase + k)} \cup Scale]
  /\ at' = [at EXCEPT !.y = 0]
  /\ pc' = "y"
  /\ UNCHANGED <<kernel, m, n, held, acc, scratch, out>>

WeightsEnd ==
  /\ pc = "weights" /\ at.part >= n
  /\ at' = [at EXCEPT !.row = @ + 1]
  /\ pc' = "channel"
  /\ UNCHANGED <<kernel, m, n, held, lane, acc, scratch, out>>

\* The top of the loop over the rows of the image.
ImageRow ==
  /\ pc = "y" /\ at.y < Side
  /\ at' = [at EXCEPT !.col = 0]
  /\ pc' = "x"
  /\ UNCHANGED <<kernel, m, n, held, lane, acc, scratch, out>>

ImageEnd ==
  /\ pc = "y" /\ at.y >= Side
  /\ at' = [at EXCEPT !.part = @ + 1]
  /\ pc' = "weights"
  /\ UNCHANGED <<kernel, m, n, held, lane, acc, scratch, out>>

\* k pixels: the bias, or in a multi kernel what the output holds already,
\* and nine products.
Chunk(k) ==
  LET pixels == OutputRow + at.col..OutputRow + at.col + k - 1
      start(a) == IF kernel.multi THEN out[a] ELSE Only({Cell("bias", at.row)}) IN
  out' = [a \in DOMAIN out |->
            IF a \in pixels THEN start(a) (+) Taps(a - OutputRow) ELSE out[a]]

\* Mutant: the loop goes on while a pixel of the row is left.
RowLimit_whole == Side

\* Where the full vectors of a row end.
RowLimit == Full(Side, kernel.lanes)

VectorChunk ==
  /\ pc = "x" /\ at.col < RowLimit
  /\ Chunk(kernel.lanes)
  /\ at' = [at EXCEPT !.col = @ + kernel.lanes]
  /\ UNCHANGED <<kernel, m, n, held, lane, acc, scratch, pc>>

\* The four pixels left when vectors have eight; then the next row.
RowTail ==
  /\ pc = "x" /\ at.col >= RowLimit
  /\ IF kernel.lanes = 8 THEN Chunk(4) ELSE UNCHANGED out
  /\ at' = [at EXCEPT !.y = @ + 1]
  /\ pc' = "y"
  /\ UNCHANGED <<kernel, m, n, held, lane, acc, scratch>>

ConvNext ==
  \/ RefuseWeights \/ Derive \/ BeginChannels \/ Channel \/ ChannelsEnd
  \/ Fill \/ FillEnd \/ Weights \/ WeightsEnd \/ ImageRow \/ ImageEnd
  \/ VectorChunk \/ RowTail

-----------------------------------------------------------------------------
\* The definition of the convolution: pixel (y, x) of output channel c.
ExpectedPixel(c, y, x) ==
  Only({Cell("bias", c)}) (+)
  Sum({{Cell("W", 9 * (c * n + i) + 3 * dy + dx),
        Cell("in", i * (Side + 2) * (Side + 2) + (y + dy) * (Side + 2) + x + dx)}
       \cup Scale : i \in 0..n - 1, dy \in 0..2, dx \in 0..2})

\* A convolution leaves in every pixel of every output channel its bias and
\* the nine products of each input channel, none of them of another row,
\* channel or chunk.
PlanesRight ==
  kernel \in ConvKernels =>
    /\ pc = "done" =>
         \A a \in DOMAIN out :
           out[a] = IF a < m * Image
                    THEN ExpectedPixel(a \div Image, (a % Image) \div Side, a % Side)
                    ELSE Old(a)
    /\ Checked /\ held < WeightsNeed => \A a \in DOMAIN out : out[a] = Old(a)
=============================================================================
