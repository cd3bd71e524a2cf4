---------------------------- MODULE MCBlobPool ----------------------------
EXTENDS BlobPool

MCSizes == {1, 2, 3}
=============================================================================
