---------------------------- MODULE MCWinCondVar ----------------------------
EXTENDS WinCondVar
=============================================================================
