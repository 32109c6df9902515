----------------------------- MODULE FrameFiles -----------------------------
(***************************************************************************)
(* Frames in memory and in files: src/mpp/encode/utils.cpp.  A client      *)
(* makes a frame (the decoder does, or fill_image), writes it to a file    *)
(* and its checksum to another, and reads both back.                       *)
(*                                                                         *)
(* Memory is a partial function from addresses to bytes, so that padding   *)
(* nobody wrote can be told from a pixel.  How a function walks over a     *)
(* frame is a sequence of planes; the row loops are in closed form.        *)
(***************************************************************************)
EXTENDS PixelFormats, FiniteSets

CONSTANTS Geometries,  \* [w, h, hs, vs] of the frames, hs in bytes or pixels
          DumpFormats, \* the formats of decoded frames
          FillFormats, \* the formats asked of fill_image
          ReadFormats, \* the formats a file from elsewhere is read in
          Counts,      \* frame_count of fill_image
          Frames,      \* how many frames are made
          Disks,       \* room for the file, in bytes
          Foreign,     \* lengths of a file from elsewhere
          Block, Page, \* 16 and SZ_4K, the units of a compressed frame
          Modulus      \* 2^32, where an RK_U32 begins again

(* The chroma of an odd number of rows, columns or bytes a row is not      *)
(* modelled.  Rows do not overlap, and a decoded picture is a YUV one.     *)
ASSUME FrameAssumption ==
    /\ Geometries \subseteq [w : Nat, h : Nat, hs : Nat, vs : Nat]
    /\ \A g \in Geometries : /\ g.w % 2 = 0 /\ g.h % 2 = 0 /\ g.hs % 2 = 0
                             /\ g.hs >= g.w /\ g.vs >= g.h
    /\ DumpFormats \subseteq Range(YuvFormats) /\ FillFormats \subseteq DOMAIN Plain
    /\ ReadFormats \subseteq DOMAIN MppFrameFormat
    /\ Counts \subseteq Nat /\ Frames \in Nat \ {0} /\ Disks \subseteq Nat /\ Foreign \subseteq Byte
    /\ Block \in Nat \ {0} /\ Page \in Nat \ {0} /\ Modulus \in Nat /\ Modulus > 255

VARIABLES frame,           \* [fmt, g, n] of the frame in the buffer, or None,
                           \* and for a test picture the flag it met
          mem,             \* its bytes
          made,            \* frames made so far
          is_pixel_stride, not_8_pixel, \* the statics of fill_image
          disk, file,      \* the file and the room it has
          torn,            \* room came to a full file while it was written
          pos,             \* the reader's place in it
          dumped,          \* the frames written, as they were in memory
          read,            \* [fmt, g] of the last read_image, or None
          reads, from,     \* reads so far, and where the last one began
          img, ret,        \* what it filled and returned
          crcs, crc,       \* the file of checksums, the one last read
          crcreads         \* reads of it

frameVars == <<frame, mem, made, is_pixel_stride, not_8_pixel>>
readVars  == <<pos, read, reads, from, img, ret>>
crcVars   == <<crcs, crc, crcreads>>
vars      == <<frameVars, disk, torn, file, dumped, readVars, crcVars>>

None == "none"
NoBytes == <<>>

(* A file from elsewhere has bytes of its own; an empty one is to be       *)
(* written.                                                                *)
Init == /\ frame = [fmt |-> None, n |-> 0] /\ mem = NoBytes /\ made = 0
        /\ is_pixel_stride = FALSE /\ not_8_pixel = FALSE
        /\ disk \in Disks /\ torn = FALSE
        /\ \E n \in Foreign \cup {0} : file = [i \in 1..n |-> i]
        /\ dumped = <<>> /\ crcs = <<>> /\ crc = NoBytes /\ crcreads = 0
        /\ pos = 0 /\ read = None /\ reads = 0 /\ from = 0 /\ img = NoBytes /\ ret = None

-----------------------------------------------------------------------------
(* Planes: rows of cols bytes, step apart, one row every pitch bytes. *)

Plane(base, pitch, step, cols, rows) ==
    [base |-> base, pitch |-> pitch, step |-> step, cols |-> cols, rows |-> rows]

At(p, x, y) == p.base + y * p.pitch + x * p.step

Rows(p) == [i \in 1..(p.cols * p.rows) |-> At(p, (i - 1) % p.cols, (i - 1) \div p.cols)]
Raster(planes) == FlattenSeq([k \in DOMAIN planes |-> Rows(planes[k])])

Luma(g)       == Plane(0, g.hs, 1, g.w, g.h)
Size(g)       == g.hs * g.vs
Chroma(g, at) == Plane(at, g.hs \div 2, 1, g.w \div 2, g.h \div 2)

(* Mutant: the chroma is looked for right after the rows of the luma. *)
DumpUnpadded(fmt, g) ==
    CASE fmt = "YUV420SP" -> <<Luma(g), Plane(g.hs * g.h, g.hs, 1, g.w, g.h \div 2)>>
      [] fmt = "YUV400"   -> <<Luma(g)>>
      [] OTHER            -> <<>>

(* What dump_mpp_frame_to_file writes of a frame: semi-planar 4:2:2 and    *)
(* 4:4:4 are taken apart, the second plane of 4:2:0 is looked for right    *)
(* after the rows of the first.                                            *)
DumpPlanes(fmt, g) ==
    CASE fmt = "YUV420SP" -> <<Luma(g), Plane(Size(g), g.hs, 1, g.w, g.h \div 2)>>
      [] fmt = "YUV420P"  -> <<Luma(g), Chroma(g, Size(g)),
                               Chroma(g, Size(g) + (g.h \div 2) * (g.hs \div 2))>>
      [] fmt = "YUV422SP" -> <<Luma(g), Plane(Size(g), g.hs, 2, g.w \div 2, g.h),
                               Plane(Size(g) + 1, g.hs, 2, g.w \div 2, g.h)>>
      [] fmt = "YUV444SP" -> <<Luma(g), Plane(Size(g), 2 * g.hs, 2, g.w, g.h),
                               Plane(Size(g) + 1, 2 * g.hs, 2, g.w, g.h)>>
      [] fmt = "YUV400"   -> <<Luma(g)>>
      [] OTHER            -> <<>>

(* read_with_pixel_width: a stride too short is taken for the row's length. *)
Packed(g, pix_w) ==
    LET row == g.w * pix_w
    IN  <<Plane(0, IF g.hs < row THEN row ELSE g.hs, 1, row, g.h)>>

Fbc == {f \in DOMAIN MppFrameFormat : MPP_FRAME_FMT_IS_FBC(MppFrameFormat[f])}

(* Compressed: a header, and a payload for the two formats it is known of. *)
FbcBytes(fmt, g) ==
    LET area   == MPP_ALIGN(g.w, Block) * MPP_ALIGN(g.h, Block)
        header == MPP_ALIGN(area \div Block, Page)
        colour == MPP_FRAME_FMT_MASK(MppFrameFormat[fmt])
    IN  CASE colour = MppFrameFormat.YUV420SP -> header + (area * 3) \div 2
          [] colour = MppFrameFormat.YUV422SP -> header + area * 2
          [] OTHER                            -> header

ReadPlanes(fmt, g) ==
    CASE fmt \in Fbc        -> LET n == FbcBytes(fmt, g) IN <<Plane(0, n, 1, n, 1)>>
      [] fmt = "YUV420SP"   -> <<Luma(g), Plane(Size(g), g.hs, 1, g.w, g.h \div 2)>>
      [] fmt = "YUV420P"    -> <<Luma(g), Chroma(g, Size(g)),
                                 Chroma(g, Size(g) + Size(g) \div 4)>>
      [] fmt \in Rgb32      -> Packed(g, 4)
      [] fmt \in {"RGB888", "BGR888"} -> Packed(g, 3)
      [] fmt \in Rgb16 \cup {"YUV422P", "YUV422SP", "YUV422_YUYV", "YUV422_YVYU",
                             "YUV422_UYVY", "YUV422_VYUY"} -> Packed(g, 2)
      [] OTHER              -> <<>>

-----------------------------------------------------------------------------
(* fill_image *)

(* A plane with the value v[x, y] at each place; a later row goes over an  *)
(* earlier one.                                                            *)
Cells(p) == (0..p.cols - 1) \X (0..p.rows - 1)
Painted(p, v) ==
    LET here(a) == {c \in Cells(p) : At(p, c[1], c[2]) = a}
    IN  [a \in {At(p, c[1], c[2]) : c \in Cells(p)} |->
            v[CHOOSE c \in here(a) : \A d \in here(a) : d[2] <= c[2]]]

LumaOf(n, x, y) == RK_U8(x + y + n * 3)
UOf(n, y)       == RK_U8(128 + y + n * 2)
VOf(n, x)       == RK_U8(64 + x + n * 5)

fill_yuv(fmt, g, n) ==
    LET half(at) == Plane(at, g.hs, 2, g.w \div 2, g.h \div 2)
        quarter(at) == Plane(at, g.hs, 4, g.w \div 2, g.h)
        Y(p, first, each) == Painted(p, [c \in Cells(p) |-> LumaOf(n, first + each * c[1], c[2])])
        U(p) == Painted(p, [c \in Cells(p) |-> UOf(n, c[2])])
        V(p) == Painted(p, [c \in Cells(p) |-> VOf(n, c[1])])
    IN  CASE fmt = "YUV420SP" -> Y(Luma(g), 0, 1) ++ U(half(Size(g))) ++ V(half(Size(g) + 1))
          [] fmt = "YUV420P"  -> Y(Luma(g), 0, 1) ++ U(Chroma(g, Size(g)))
                                                  ++ V(Chroma(g, Size(g) + Size(g) \div 4))
          [] fmt = "YUV422_UYVY" -> Y(quarter(1), 0, 2) ++ Y(quarter(3), 1, 2)
                                                        ++ U(quarter(0)) ++ V(quarter(2))
          [] OTHER -> NoBytes

pix_w(fmt) == IF fmt \in Rgb16 THEN 2 ELSE 4

(* Mutant: a stride of just the row's bytes is taken for one in pixels. *)
TightIsPixels(workaround, width, hor_stride, pixel_size) ==
    workaround \/ hor_stride <= width * pixel_size

(* Both checks remember: once they have found a stride to correct, they    *)
(* correct every later one.                                                *)
util_check_stride_by_pixel(workaround, width, hor_stride, pixel_size) ==
    workaround \/ hor_stride < width * pixel_size

util_check_8_pixel_aligned(workaround, hor_stride, pixel_aign, pixel_size) ==
    workaround \/ hor_stride # MPP_ALIGN(hor_stride, pixel_aign * pixel_size)

(* The stride in bytes, whatever unit the caller's is in. *)
byPixel(fmt, g) == util_check_stride_by_pixel(is_pixel_stride, g.w, g.hs, pix_w(fmt))
byteStride(fmt, g) == IF byPixel(fmt, g) THEN g.hs * pix_w(fmt) ELSE g.hs
notAligned(fmt, g) ==
    util_check_8_pixel_aligned(not_8_pixel, byteStride(fmt, g), 8, pix_w(fmt))
rgbStride(fmt, g) == IF notAligned(fmt, g) THEN MPP_ALIGN(byteStride(fmt, g), 8 * pix_w(fmt))
                                           ELSE byteStride(fmt, g)

fill_rgb(fmt, g, n) ==
    LET size  == pix_w(fmt)
        place == MppFrameFormat[fmt] - MPP_FRAME_FMT_RGB
        p     == Plane(0, rgbStride(fmt, g), 1, g.w * size, g.h)
    IN  Painted(p, [c \in Cells(p) |->
            fill_rgb_funcs(place, get_rgb_color(c[1] \div size, c[2], n))[(c[1] % size) + 1]])

-----------------------------------------------------------------------------
(* Making a frame.  The frames of one file have one format and geometry. *)

Fits(fmt, g) == /\ made < Frames /\ reads = 0 /\ (dumped = <<>> => file = <<>>)
                /\ dumped # <<>> => fmt = frame.fmt /\ g = frame.g

(* external: the decoder fills the whole buffer, padding included. *)
decode_frame(fmt, g) ==
    /\ Fits(fmt, g)
    /\ frame' = [fmt |-> fmt, g |-> g, n |-> made]
    /\ mem' = [a \in 0..(Size(g) + 2 * g.hs * g.h - 1) |-> RK_U8(made * 100 + a)]
    /\ made' = made + 1
    /\ UNCHANGED <<is_pixel_stride, not_8_pixel, disk, torn, file, dumped, readVars, crcVars>>

(* A test picture, in a buffer of its own.  Other formats than these are   *)
(* refused; a little-endian RGB format would index the table of functions  *)
(* outside its bounds and is not asked for here.                           *)
fill_image(fmt, g, n) ==
    /\ Fits(fmt, g)
    /\ frame' = [fmt |-> fmt, g |-> g, n |-> n, forced |-> is_pixel_stride]
    /\ IF fmt \in Rgb16 \cup Rgb32
       THEN /\ mem' = fill_rgb(fmt, g, n)
            /\ is_pixel_stride' = byPixel(fmt, g)
            /\ not_8_pixel' = notAligned(fmt, g)
       ELSE /\ mem' = fill_yuv(fmt, g, n)
            /\ UNCHANGED <<is_pixel_stride, not_8_pixel>>
    /\ made' = made + 1
    /\ UNCHANGED <<disk, torn, file, dumped, readVars, crcVars>>

-----------------------------------------------------------------------------
(* Files *)

ByteAt(m, a) == IF a \in DOMAIN m THEN m[a] ELSE 0
BytesAt(m, order) == [i \in DOMAIN order |-> ByteAt(m, order[i])]

(* external: what fwrite leaves in a file on a disk of so much room. *)
OnDisk(f, bytes, room) == LET all == f \o bytes IN SubSeq(all, 1, MPP_MIN(Len(all), room))

(* fwrite's result is not looked at: what the disk has no room for is      *)
(* lost.  When room comes to a full disk before byte n + 1, that byte and  *)
(* the later ones are written right behind what is there.                  *)
dump_mpp_frame_to_file ==
    /\ frame.fmt # None /\ reads = 0 /\ Len(dumped) < made
    /\ LET bytes == BytesAt(mem, Raster(DumpPlanes(frame.fmt, frame.g)))
       IN  \/ file' = OnDisk(file, bytes, disk) /\ UNCHANGED <<disk, torn>>
           \/ \E room \in Disks, n \in 0..Len(bytes) :
                 /\ room > disk /\ Len(file) + n >= disk
                 /\ file' = OnDisk(OnDisk(file, SubSeq(bytes, 1, n), disk),
                                   SubSeq(bytes, n + 1, Len(bytes)), room)
                 /\ disk' = room /\ torn' = TRUE
    /\ dumped' = Append(dumped, [fmt |-> frame.fmt, g |-> frame.g, mem |-> mem])
    /\ UNCHANGED <<frameVars, readVars, crcVars>>

(* Mutant: the result of fread is not looked at. *)
ResultUnchecked(got, wanted) == IF wanted = 0 THEN "MPP_ERR_VALUE" ELSE "MPP_OK"

(* A format that is not known is an error before anything is read. *)
ReadResult(got, wanted) == CASE wanted = 0   -> "MPP_ERR_VALUE"
                             [] got < wanted -> "MPP_NOK"
                             [] OTHER        -> "MPP_OK"

(* The reader has a geometry of its own and keeps to it; a file that ends  *)
(* early leaves the rest of the buffer as it was.                          *)
read_image(fmt, g) ==
    /\ file # <<>> /\ reads < Frames
    /\ dumped # <<>> => fmt = dumped[1].fmt /\ g.w = dumped[1].g.w /\ g.h = dumped[1].g.h
    /\ reads > 0 => fmt = read.fmt /\ g = read.g
    /\ LET order == Raster(ReadPlanes(fmt, g))
           left  == Len(file) - pos
           got   == MPP_MIN(left, Len(order))
       IN  /\ img' = [i \in {order[i] : i \in 1..got} |->
                          file[pos + (CHOOSE k \in 1..got : order[k] = i)]] ++ img
           /\ pos' = pos + got
           /\ ret' = ReadResult(got, Len(order))
    /\ read' = [fmt |-> fmt, g |-> g]
    /\ reads' = reads + 1 /\ from' = pos
    /\ UNCHANGED <<frameVars, disk, torn, file, dumped, crcVars>>

-----------------------------------------------------------------------------
(* Checksums.  A 32-bit word that is only xored is kept as the set of its  *)
(* bits; a sum wraps, which comes to the same at each step or at its end.  *)

RK_U32(n) == n % Modulus

DataCrc == [len : Nat, sum : 0..(Modulus - 1), vor : SUBSET (0..31)]
FrmCrc  == [luma : DataCrc, chroma : DataCrc]

Word(m, a) == {k \in 0..31 : (ByteAt(m, a + k \div 8) \div 2^(k % 8)) % 2 = 1}
WordsAt(m, order) == [i \in DOMAIN order |-> Word(m, order[i])]

SumOf(bytes) == LET sum[i \in 0..Len(bytes)] == IF i = 0 THEN 0 ELSE sum[i - 1] + bytes[i]
                IN  sum[Len(bytes)]

XorOf(words) == LET vor[i \in 0..Len(words)] == IF i = 0 THEN {} ELSE BitXor(vor[i - 1], words[i])
                IN  vor[Len(words)]

Words(n) == [i \in 1..n |-> 4 * (i - 1)]

(* Mutant: the last bytes are left out. *)
calc_words_crc(dat) ==
    LET m == [a \in 0..(Len(dat) - 1) |-> dat[a + 1]]
    IN  [len |-> Len(dat), sum |-> 0, vor |-> XorOf(WordsAt(m, Words(Len(dat) \div 4)))]

(* The last bytes make a word of their own, filled up with zeros. *)
calc_data_crc(dat) ==
    LET len == Len(dat)
        m   == [a \in 0..(len - 1) |-> dat[a + 1]]
    IN  [len |-> len, sum |-> RK_U32(SumOf(dat)), vor |-> XorOf(WordsAt(m, Words((len + 3) \div 4)))]

(* Mutant: whole rows are summed, padding and all. *)
WholeRows(g, at, rows) == Raster(<<Plane(at, g.hs, 1, g.hs, rows)>>)

(* The chroma is taken from right below the luma's rows, and its sum and   *)
(* xor go on from the luma's.                                              *)
CrcPlane(g, at, rows) == Raster(<<Plane(at, g.hs, 1, g.w, rows)>>)
CrcWords(g, at, rows) == Raster(<<Plane(at, g.hs, 4, g.w \div 4, rows)>>)

calc_frm_crc(m, g) ==
    LET half == g.h \div 2
        at   == g.h * g.hs
        sum  == SumOf(BytesAt(m, CrcPlane(g, 0, g.h)))
        vor  == XorOf(WordsAt(m, CrcWords(g, 0, g.h)))
    IN  [luma   |-> [len |-> RK_U32(g.h * g.w), sum |-> RK_U32(sum), vor |-> vor],
         chroma |-> [len |-> RK_U32(g.h * g.w) \div 2,
                     sum |-> RK_U32(sum + SumOf(BytesAt(m, CrcPlane(g, at, half)))),
                     vor |-> BitXor(vor, XorOf(WordsAt(m, CrcWords(g, at, half))))]]

(* The client adds the checksum of a 4:2:0 frame right after the frame, or *)
(* not at all.                                                             *)
write_frm_crc ==
    /\ reads = 0 /\ frame.fmt = "YUV420SP" /\ dumped # <<>> /\ Len(dumped) = made /\ Len(crcs) = made - 1
    /\ crcs' = Append(crcs, calc_frm_crc(mem, frame.g))
    /\ UNCHANGED <<frameVars, disk, torn, file, dumped, readVars, crc, crcreads>>

(* A file from elsewhere is a packet, and has the checksum of one. *)
Packet == made = 0 /\ reads = 0 /\ file # <<>>

write_data_crc ==
    /\ Packet /\ crcs = <<>> /\ crcreads = 0
    /\ crcs' = <<calc_data_crc(file)>>
    /\ UNCHANGED <<frameVars, disk, torn, file, dumped, readVars, crc, crcreads>>

(* At the end of the file the structure keeps what was read before. *)
NextCrc == IF crcreads < Len(crcs) THEN crcs[crcreads + 1] ELSE crc

read_data_crc ==
    /\ Packet /\ crcreads < Frames
    /\ crc' = NextCrc /\ crcreads' = crcreads + 1
    /\ UNCHANGED <<frameVars, disk, torn, file, dumped, readVars, crcs>>

(* Mutant: each read begins at the start of the file. *)
FirstCrc ==
    /\ crcreads < reads /\ dumped # <<>>
    /\ crc' = IF crcs = <<>> THEN crc ELSE crcs[1]
    /\ crcreads' = crcreads + 1
    /\ UNCHANGED <<frameVars, disk, torn, file, dumped, readVars, crcs>>

read_frm_crc ==
    /\ crcreads < reads /\ dumped # <<>>
    /\ crc' = NextCrc /\ crcreads' = crcreads + 1
    /\ UNCHANGED <<frameVars, disk, torn, file, dumped, readVars, crcs>>

-----------------------------------------------------------------------------
Next == \/ \E fmt \in DumpFormats, g \in Geometries : decode_frame(fmt, g)
        \/ \E fmt \in FillFormats, g \in Geometries, n \in Counts : fill_image(fmt, g, n)
        \/ \E fmt \in ReadFormats, g \in Geometries : read_image(fmt, g)
        \/ dump_mpp_frame_to_file \/ write_frm_crc \/ read_frm_crc
        \/ write_data_crc \/ read_data_crc

Spec == Init /\ [][Next]_vars

-----------------------------------------------------------------------------
IsMemory(m) == \A a \in DOMAIN m : a \in Nat /\ m[a] \in Byte

TypeOK ==
    /\ frame.fmt = None \/ (frame.fmt \in DumpFormats \cup FillFormats /\ frame.g \in Geometries)
    /\ IsMemory(mem) /\ IsMemory(img) /\ made \in 0..Frames
    /\ is_pixel_stride \in BOOLEAN /\ not_8_pixel \in BOOLEAN
    /\ disk \in Disks /\ torn \in BOOLEAN /\ file \in Seq(Byte)
    /\ from \in 0..pos /\ pos \in 0..Len(file)
    /\ Len(dumped) \in 0..made /\ reads \in 0..Frames /\ crcreads \in 0..Frames
    /\ Len(crcs) <= Frames /\ \A k \in DOMAIN crcs : crcs[k] \in DataCrc \cup FrmCrc
    /\ crc \in {NoBytes} \cup ToSet(crcs)
    /\ ret \in {None, "MPP_OK", "MPP_NOK", "MPP_ERR_VALUE"}

(* Where mpp_frame.h puts the samples of a 4:2:0 picture. *)
Documented(fmt, g) ==
    LET half(at) == Plane(at, g.hs, 2, g.w \div 2, g.h \div 2)
    IN  IF fmt = "YUV420SP"
        THEN Raster(<<Luma(g), half(Size(g)), half(Size(g) + 1)>>)
        ELSE Raster(<<Luma(g), Chroma(g, Size(g)), Chroma(g, Size(g) + Size(g) \div 4)>>)

Samples(fmt, m, g) == LET order == Documented(fmt, g)
                      IN  BytesAt(m, order)

(* Picture k read from a file is picture k written to it, whatever the     *)
(* strides of the writer and the reader and wherever the disk was full,    *)
(* provided read_image says MPP_OK and no room came to a full disk.  Of    *)
(* planar 4:2:0 with padding rows only the luma and the first chroma plane *)
(* come back: dump looks for V where mpp_frame.h does not put it.          *)
InStep ==
    LET from_file == reads > 0 /\ reads <= Len(dumped) /\ ret = "MPP_OK" /\ ~torn
    IN  from_file /\ read.fmt \in {"YUV420SP", "YUV420P"} =>
            LET d       == dumped[reads]
                now     == Samples(read.fmt, img, read.g)
                written == Samples(d.fmt, d.mem, d.g)
            IN  IF read.fmt = "YUV420P" /\ d.g.vs # d.g.h
                THEN \A i \in 1..(5 * ((d.g.w \div 2) * (d.g.h \div 2))) : now[i] = written[i]
                ELSE now = written

(* Bytes of a picture without padding, in the formats read_image knows. *)
PictureBytes(fmt, g) ==
    (g.w * g.h * (CASE fmt \in Rgb32                  -> 8
                   [] fmt \in {"RGB888", "BGR888"}   -> 6
                   [] fmt \in {"YUV420SP", "YUV420P"} -> 3
                   [] OTHER                          -> 4)) \div 2

(* MPP_OK means a whole picture: so many bytes were left in the file, and  *)
(* the next picture begins right after them.                               *)
OkIsWhole ==
    ret = "MPP_OK" /\ read.fmt \notin Fbc =>
        pos - from = PictureBytes(read.fmt, read.g)

(* Whatever was written, and wherever it was cut, pictures read with       *)
(* MPP_OK are whole, and are the pictures written but for the V plane and  *)
(* the returning room InStep names.                                        *)
ReadsPictures == InStep /\ OkIsWhole

(* The luma of a frame's checksum sees every luma sample and nothing       *)
(* else; the whole of it sees every visible sample and no padding, in a    *)
(* buffer without padding rows.  With such rows the chroma half is taken   *)
(* from them.                                                              *)
CrcSeesPixels ==
    made = 1 /\ dumped = <<>> /\ frame.fmt = "YUV420SP" =>
        \A a \in DOMAIN mem :
            LET g     == frame.g
                this  == calc_frm_crc(mem, g)
                other == calc_frm_crc([mem EXCEPT ![a] = RK_U8(@ + 1)], g)
            IN  /\ this.luma # other.luma <=> a \in Range(Rows(Luma(g)))
                /\ g.vs = g.h => (this # other <=> a \in Range(Documented(frame.fmt, g)))

(* The checksum read for picture k is the one of the picture read k-th, if *)
(* one was written for each: its luma always, the whole of it when neither *)
(* the writer's buffer nor the reader's has padding rows.                  *)
CrcTells ==
    LET both == crcreads > 0 /\ crcreads = reads /\ reads <= Len(crcs) /\ dumped # <<>>
    IN  both /\ ret = "MPP_OK" /\ ~torn /\ read.fmt = "YUV420SP" =>
            LET picture == calc_frm_crc(img, read.g)
            IN  /\ crc.luma = picture.luma
                /\ read.g.vs = read.g.h /\ dumped[reads].g.vs = dumped[reads].g.h => crc = picture

(* One byte of a packet that differs shows in its checksum, in the tail    *)
(* too: the xor alone tells.                                               *)
DataCrcTells ==
    reads = 0 /\ crcs = <<>> =>
        \A i \in DOMAIN file :
            calc_data_crc(file).vor # calc_data_crc([file EXCEPT ![i] = RK_U8(@ + 1)]).vor

(* A packet's checksum is read back as it was written, and again at the    *)
(* end of the file.                                                        *)
DataCrcKept == Packet /\ crcreads > 0 /\ crcs # <<>> => crc = calc_data_crc(file)

(* Reads at and past the end of the file of checksums leave the last one   *)
(* that was written.                                                       *)
LastKept == crcs # <<>> /\ crcreads >= Len(crcs) => crc = Last(crcs)

(* Checksums tell pictures, and packets, apart, and their file stays in    *)
(* step with the frames, its end included.                                 *)
ChecksumsTell == CrcSeesPixels /\ CrcTells /\ LastKept /\ DataCrcTells /\ DataCrcKept

(* An RGB test picture shows the colours of get_rgb_color in the layout    *)
(* its fill function documents, at the stride the caller means: in bytes,  *)
(* or in pixels when it is too small for bytes, aligned to 8 pixels.  It   *)
(* fails for a stride in bytes after one in pixels, which the static flag  *)
(* makes a stride in pixels too.                                           *)
MeansPixels(fmt, g) == g.hs < g.w * pix_w(fmt)
PixelsAsDocumented ==
    frame.fmt # None /\ frame.fmt \in Rgb16 \cup Rgb32
    /\ (frame.forced => MeansPixels(frame.fmt, frame.g)) =>
        LET g == frame.g
            size == pix_w(frame.fmt)
            hs == MPP_ALIGN(IF MeansPixels(frame.fmt, g) THEN g.hs * size ELSE g.hs, 8 * size)
        IN  \A x \in 0..g.w - 1, y \in 0..g.h - 1 :
                Shows(frame.fmt, [i \in 1..size |-> ByteAt(mem, y * hs + x * size + i - 1)],
                      get_rgb_color(x, y, frame.n))
=============================================================================
