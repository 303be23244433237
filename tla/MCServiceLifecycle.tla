------------------------- MODULE MCServiceLifecycle -------------------------
EXTENDS ServiceLifecycle

Both == <<"grpc", "http">>
=============================================================================
