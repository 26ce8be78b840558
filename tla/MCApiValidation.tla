--------------------------- MODULE MCApiValidation ---------------------------
(***************************************************************************)
(* Instances of ApiValidation for TLC: 4-bit words stand for int32_t and   *)
(* 8-bit words for uint64_t.                                               *)
(***************************************************************************)
EXTENDS ApiValidation

\* Every check fails alone and together with others.
ManyConfigs ==
    [present : BOOLEAN, compatible : BOOLEAN, backend : {"known", "unknown"}, manifest : BOOLEAN,
     limit_side_len : {0, 1}, cls_batch_size : {-1, 3}, rec_batch_size : {0, 2},
     rec_concurrency : {-8, 7}, det_db_thresh : {-1, 0, NaN}, det_db_box_thresh : {1, 2},
     cls_threshold : {0, 2}]

\* Sizes around every bound, with products up to 49, past the largest 4-bit word, and images
\* that any of the checks refuses.
EdgeImages ==
    [present : {TRUE}, compatible : {TRUE}, width : {1, 7}, height : {1, 7},
     stride : {3, 7}, format : {"GRAY8", "RGB24"},
     data_size : {6, 20, 21, 48, 49}]

OddImages ==
    [present : BOOLEAN, compatible : BOOLEAN, width : {-1, 1}, height : {0, 1},
     stride : {4}, format : {"BGRA32", "unknown"}, data_size : {4}]

ManyImages == EdgeImages \cup OddImages
==============================================================================
